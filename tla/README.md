# A verification project for the database and systems labs

TLA+ modules, TLC configurations and TLAPS proofs for the code of this
repository: six extracts of course work (`buffer-pool`, `columnar-engine`,
`distributed-operators`, `index-and-operators`, `radix-join`, `rdma-shuffle`).
The extracts do not build on their own; types and traits that they use and that
are declared elsewhere are treated as external and modelled from how the code
uses them.

* [1. The system](#1-the-system): parts, state, operations, what is hard
* [2. The modules](#2-the-modules): how each corresponds to its code
* [3. The runs](#3-the-runs): what each checks, bounds, fairness
* [4. The proofs](#4-the-proofs)
* [5. Where code and documentation disagree](#5-where-code-and-documentation-disagree)
* [6. Plan](#6-plan): what is done, what comes next, what stays out

Run `tlc -config <file>.cfg <Module>` and `tlapm <Module>Proofs.tla` in this
directory.

## 1. The system

The extracts do not call each other. Inside an extract the parts interact as
follows.

| Part | Source | State | Operations | Used by / uses |
|---|---|---|---|---|
| Row lock table | `distributed-operators/src/locking/lock_table.rs` | per object: readers, writer, FIFO queue | `lock`, `release` | called by transactions, `&mut self` |
| Multi-granularity lock tree | `.../locking/multi_granularity_locking.rs` | a set of (transaction, mode) per tree node | `lock(path)`, `release` | called by transactions; `lock` calls `release` on refusal |
| Disk manager | `buffer-pool/src/disk/disk_manager.rs` | `next_free`, `free_list`, the file | `allocate`, `free`, `read`, `write` | called by the buffer manager and by owners of pages |
| Buffer manager, LRU, CLOCK | `buffer-pool/src/buffer/buffer_manager.rs` | page table, frame descriptors, frames, strategy state | `pin`, `unpin` | `pin` calls `replace`, `on_pin`, `write`, `read`; hands a `&mut` page to the client |
| Iceberg engine | `columnar-engine/src/engine/db_engine.rs`, `iceberg/*.rs` | manifests per table, the open modification, `changed_files` | `start_table_modification`, `insert`, `update`, `delete`, `delete_chunks`, `commit`; `snapshot`, `files`, `contains`, `contains_range` | writes immutable files through `FileBasedStorage` (external) |
| Exchange, distributions, join plans | `distributed-operators/src/dist_operator/` | per peer: child, communication handle | `open`, `next` = `send` then `receive` | a join pulls from it; peers exchange rows over channels (`network.rs`, external) |
| RDMA shuffle | `rdma-shuffle/src/shuffle.cpp` | registered memory of every node: zones, incoming rows, count, barrier counter and flags | `run` = barrier, `histogram`, `partition_data`, barrier, `transfer_data`, barrier, result | one-sided writes and `fetch_add` into peers' memory; four threads per node |
| B+-tree | `index-and-operators/src/index/btree.rs` | a vector of pages, the root | `insert`, `lookup`, `range_lookup` | sequential |
| K-way merge | `.../kwaymerge/kwmerge.rs` | page indices and slots per list | `sort`, `merge` | sequential, recursive |
| Volcano operators | `.../operator/{table_scan,sort,join}` | position, sorted buffer, hash table | `open`, `next`, `close` | table scan pins pages of a buffer pool |
| Bitmap indexes | `distributed-operators/src/index/*.rs` | bitmaps per value, cumulative, or per digit | build, `range_lookup` | sequential |
| Radix join | `radix-join/src/RadixJoin.cpp` | partitions, per-thread results | `join` | threads, one `fetch_add` counter |
| Columnar operators | `columnar-engine/src/engine/operators.rs` | position, hash table | `open`, `next`, `close` | sequential |
| Values, data files | `columnar-engine/src/{value_cmp,storage/data}.rs` | none | compare, serialise, parse | pure |
| Optimizer | `columnar-engine/src/engine/optimizer.rs` | none | `todo!()` | nothing to model |

### What is hard, and what makes each part correct

**Row lock table.** `lock` changes holders without looking at the queue and only
`release` looks at it. Correct means: readers exclude a writer, also through
upgrades and grants from the queue; no request waits that could be granted; the
vector `release` returns names every woken transaction once, with the lock it now
has; queues drain when holders give up their locks. Duplicate requests and two
readers that both ask for an upgrade are the awkward sequences; the second is a
deadlock that the table leaves to its callers.

**Lock tree.** `can_grant` sees an exclusive lock only on a node with a single
lock, and `release` walks down only through nodes the transaction has locked. Both
shortcuts are right only because of what earlier calls left behind. Correct means:
locks on a node are compatible, intentions are held on the whole way, a written
subtree is exclusive, and a release leaves nothing.

**Buffer and disk manager.** Pins of different clients overlap; `pin` changes
table, descriptors, file and frame at different moments and may fail between them.
Correct means: table and descriptors agree, pinned pages stay, updates survive
eviction and reload, replacement finds a victim whenever one is unpinned, LRU
takes the least recently pinned one, a page has one owner.

**Iceberg engine.** Calls on a list of files stop in the middle on an I/O error
and a commit may still follow. Correct means: committed versions never change, a
commit appends exactly what the calls did, no row is lost or doubled by a rewrite,
pruning by statistics hides nothing, nothing leaks into the next modification.

**Exchange and joins.** A peer sends only while its own join pulls, blocks in
`receive`, and drains two exchanges one after the other. Correct means: every row
reaches the peers it is owed to exactly once before they are told the end, rows
with equal keys meet at one peer, all joins end.

**RDMA shuffle.** Memory of a node is written by its own threads and by a peer,
ordered by nothing but the barriers, whose counter is never reset. Correct means:
no node leaves a barrier before all have arrived, no slot is written twice, every
node returns exactly its rows, every node returns.

**B+-tree.** Splits change a page, its new neighbour and, on the way back up, the
pages above; which of them depends on the whole sequence of inserts. Correct means:
the leaves hold a map, every key stays reachable from the root, the chain of leaves
has all keys in order.

**Radix join.** Threads write one array without locks at offsets computed from
other threads' counts, and draw buckets from one counter. Correct means: every
partition holds exactly the tuples of its bucket, every bucket is joined once, every
tuple with a partner is produced once, probing ends.

**K-way merge.** Lists end at page boundaries, at empty pages or at the input's end,
and `sort` calls itself on lists that are not sorted. Correct means: sorted, nothing
lost or doubled, pages full except at the end, and the state reported for a page is
the one it was filled from.

**Volcano and columnar operators.** A plan is opened, drawn from, closed in the
middle and opened again; a scan, a hash join, a sort and an aggregate each keep
something from one call to the next. Correct means: from open to the first `None`
the client gets the plan's result, exactly and in order, in every round.

**Data files.** A reader finds a column by the start the writer computed. Correct
means: what was written is read back, whichever columns are asked for, and a query
of a version returns that version's rows through pruning, parsing, filter and
aggregate.

**Bitmap indexes.** Three encodings and one answer, where the code gives it: the rows
whose key is in the range, each once, in order, and none of the bits that pad the last
byte. The range-encoded index panics on some ranges and the decomposed one cuts long
bounds; what they find then is stated too.

`PROJECT.json` lists the hazards of the code line by line with the properties that
cover them.

## 2. The modules

| Module | Stands for |
|---|---|
| `LockTable`, `MCLockTable`, `LockTableProofs` | the row lock table |
| `MultiGranularityLockTree`, `MC...`, `LockTreeAndBitmapProofs` | the lock tree |
| `DiskManager`, `BufferManager` (extends it), `MCBufferManager`, `BufferManagerProofs` | disk manager, buffer manager and clients |
| `VersionedTable` | abstract: tables with an immutable history |
| `IcebergEngine`, `MCIcebergEngine`, `IcebergEngineProofs` | the engine, implements `VersionedTable` |
| `DataFile` | bytes of a data file: write, parse, parse some columns |
| `ColumnOperators` | what columnar scan, filter, aggregate and join do to chunks |
| `IcebergQueries` (extends `IcebergEngine`, instantiates both) | queries over the versions of a table |
| `Redistribution` | abstract: rows owed to peers |
| `Exchange`, `MCExchange`, `ExchangeProofs` | exchanges below joins, implements `Redistribution` on both sides of the join |
| `OrderedMap` | abstract: a map from keys to record identifiers |
| `BPlusTree`, `MCBPlusTree`, `BPlusTreeProofs` | the B+-tree, implements `OrderedMap` |
| `RdmaBarrier` | the barrier alone |
| `Shuffle` (extends it), `MCShuffle`, `ShuffleProofs` | the shuffle |
| `RadixJoin`, `MCRadixJoin`, `RadixJoinProofs` | the parallel radix join |
| `KWayMerge` | the external sort |
| `VolcanoOperators` | table scan, hash join and sort in three plans, and a client |
| `ColumnPlans` (extends `ColumnOperators`) | the columnar operators in three plans, and a client |
| `BitmapIndexes`, `LockTreeAndBitmapProofs` | the three indexes and their iterator |
| `SequentialLibrary` (extends the last four), `MCSequentialLibrary` | one use of one of them |

Names follow the code: variables are its fields, actions its functions or the
steps of their loops. Operators whose comment begins with *Fault:* are wrong
variants of a definition next to them; nothing uses them, they are what each
property was tried against.

**Granularity.** Everything in `LockTable`, `MultiGranularityLockTree`,
`BufferManager` and `IcebergEngine` takes `&mut self`, so calls do not interleave.
A call is one step unless it has a loop whose intermediate states matter: a
`release` of the lock table is a first step, a step per iteration and a return; an
engine call is a step that checks the request and a step per file, because it may
fail between files. In `Exchange` each peer is a thread and each pull, send,
end-of-stream, receive and return is a step. In `Shuffle` each row a thread copies,
each RDMA write, each `fetch_add` and each look at a counter or flag is a step. In
`RadixJoin` each tuple a thread scatters and each draw of a bucket is a step, while
counting a slice and joining a bucket, which touch nothing another thread writes,
are one step each. The sequential parts take a step per record of a merge and per
pull of a child, because a client may stop in between or because the loop is where
they go wrong.

**`LockTable`.** `hash_map` has the default state for an object that was never
locked; `lock` and `release` treat the two alike. Calls that answer an error change
nothing and are left out. `MaxQueue` bounds waiting requests.

**`MultiGranularityLockTree`.** A node is named by itself, `Above[n]` is the way to
it. `lock` decides with `CanGrant` (written as `can_grant` is, not as a matrix) and
either inserts along the path or releases. `ReleaseLocks` keeps the short-circuit
of `has_locks || ...` over children in any order. A refusal on the way of a
transaction without locks ends in `Panic`, as `expect` does.

**`DiskManager`, `BufferManager`.** `PageID` are the identifiers a caller can name,
0 included, which `new` sets aside and `free` does not refuse; `handed` is history,
the pages that were given out and not freed since. `Candidates`, `Victim` and `Swept`
are the two `replace` functions, for CLOCK by the steps of its loop: step `i` looks at
`FrameAt(i)`, the loop makes `Rounds * N` of them at most and returns at `FirstStop`,
where the frame is unpinned and its bit clear, or cleared by an earlier step.
`PinMiss` follows `pin` down to the order of table update,
write-back and read. `PinWriteFails` and `PinReadFails` stop where `?` does and
undo nothing. `PinPanics` is the `unwrap` of a victim that is not in the table.
`ReadInto` leaves old contents in the frame where `File::read` reads nothing.
Clients pin, modify and unpin; with `KeepDirty` they pass `dirty` when the
descriptor already says so, which is what callers must do to live with `unpin`
overwriting the bit. The strategies do not read `frame_id`; it is left out.
`MaxPins`, `MaxPage` and `MaxFailures` are the bounds.

**`IcebergEngine`.** A file handle is the position of the file in the order of
writing instead of a UUID. Rows carry an identity the program does not have, to
tell a rewritten row from a new one. An update names one row per file; several
rows of one file are one rewrite in the code too. Requests the checks refuse
change nothing and are left out. `MaxFiles` and `MaxVersions` are the bounds.

**`Exchange`.** `Exchanged` and `draining` are the four plans: which children are
exchanges, and that a join drains left before right. Channels are unbounded FIFO
queues, one per ordered pair and side; `close_send` appends one end-of-stream
message to each. `receive` takes from any channel, goes on after an end-of-stream
and blocks until there is a row or all have ended. The asymmetric and the semi-join
plan are started on a left table that is partitioned by its key, which they need.

**`BPlusTree`.** `insert` is unfolded into its activations: `call.path` is the stack
of pages, `Descend` a recursive call, `Overwrite`, `AddToLeaf` and `SplitLeaf` what
happens in the leaf, `AddToInner` and `SplitInner` what an activation does with the
pair returned from below, `NewRoot` what `insert` does with the last one. Pages and
slots count from 1; slots behind `length` are left out, the dead key in the last
slot of an inner page is kept, and so is the 0 that a new root has there. Binary
search is modelled by the slot it finds in sorted slots. The two lookups are
operators, exact between inserts. `Request` bounds what is inserted.

**`RdmaBarrier`, `Shuffle`.** Memory is counted in rows and the input rows, which
nothing writes, are left out of it. `InitialWord` is what the words of the barrier
may hold at first; registering the memory is outside of the repository, and the run
takes it as zeroed. `Placement` replaces `Config`'s mapping of keys to nodes by any
mapping. Histogram threads share nothing and are no steps. An RDMA write is taken
at its completion, which the code waits for each time.

**`DataFile`, `ColumnOperators`, `IcebergQueries`.** A byte is a pair of what was
written and which of its bytes it is, so that a read at the wrong place or of the
wrong width shows. `ColumnType` gives the engine's columns their types; a string
stands for its length. `ContainsRange` of the engine chooses the files,
`ReadFile` turns them into bytes, and the operators work on what parsing returns.

**`RadixJoin`.** `Count`, `PrefixSums` and `Scatter` are the two passes of `partition`,
run for both relations at once as the code does; `Draw` is the `fetch_add`;
`JoinBucket` builds one table by linear probing and probes it; `Resize` and
`CopyResults` put the threads' results together. `Share` is the cache per core,
which decides the number of bits.

**`KWayMerge`.** `stack` holds the activations of `sort`; `SortPage`, `SkipList` and
`SortList` are its branches, `MergeRecord` one round of the loop in `merge`,
`Advance` the cursor of a list with the two ways it ends, and `Return` puts the
pages of a finished call into its caller's.

**`VolcanoOperators`, `ColumnPlans`.** `Open`, `Close` and their counterparts
`OpenPlan`, `ClosePlan` are those of the root with everything below it; `Build`,
`Probe`, `DrawLeft` and `DrawAggregate` are single rounds of the loops in `open` and
`next`. Only reading a page needs the buffer pool, and a scan gives its pin back
within the call. The client stops at the first `None`, so what a call after it
returns is not seen.

**`BitmapIndexes`.** A bitmap is the set of its ones, among all the bits of its bytes.
`Rest[i][n]` is what `decompose_number` has left of `n` after `i` divisions.
Every index is asked for every pair of bounds: `RangeLookup` has a disjunct for each
index and one for the panic of the range-encoded one (where `RangeEncodedAnswers` is
false). The digits of a bound that the decomposed index has no bitmaps for are not
looked at, as in the code.

## 3. The runs

| Run | Instance | Shows |
|---|---|---|
| `lock_table` | 3 transactions, 1 object, queue of 3 | `TypeOK`, `Exclusive`, `NoLostWakeup`, `WaitersHaveHolder`, `GrantReportExact`, `QueuesDrain` |
| `lock_table_starvation` | same, queue of 1 | `NoWriterStarvation` is violated |
| `lock_tree` | 3 transactions, 2 tables, 2 pages, 1 row | `TypeOK`, `NodeCompatible`, `GrantsByMatrix`, `IntentionsHeld`, `SubtreeExclusion` |
| `lock_tree_release` | 2 transactions, same tree | `ReleaseRemovesAll` is violated |
| `buffer_manager` | 2 clients, 2 frames, 3 pages, 4 pins, 2 writes, 1 failure | `TypeOK`, `TableAgrees`, `PinsExact`, `NoLostUpdate`, `RefusedOnlyWhenPinned`, `FreeListExact`, `LRUOrder` |
| `buffer_manager_dirty` | same, clients do not keep the bit | `CleanMatchesDisk` is violated |
| `iceberg` | 2 tables, a string and a number column, 3 files, 3 versions | `QueryExact`, `NoRowTwice`, `TablesApart`, `Implements` |
| `exchange` | 3 peers, 3 rows, 4 plans, all placements | `MatchesMeetOnce`, `Implements`, `EveryJoinEnds` |
| `b_plus_tree` | 8 keys in every order, leaves of 2, inner pages of 4 | `TypeOK`, `LookupExact`, `RangeExact`, `Implements` |
| `shuffle` | 2 nodes, 5 rows, 4 threads, 64 placements | `BarrierSeparates`, `ResultExact`, `WrittenOnce`, `EveryNodeReturns` |
| `radix_join` | 3 threads, 6 pairs of relations of up to 5 tuples, 0 to 2 bits | `BucketsExact`, `JoinExact`, `JoinEnds` |
| `sequential_library` | 242 sorts, 16 pairs of tables and 3 plans, 78 pairs of columnar tables and 3 plans, 5 indexed columns | `MergeSorts`, `PlanExact`, `ColumnPlanExact`, `LookupsAgree` |

**Why the bounds are enough.**
`lock_table`: `TypeOK` includes that a queue never has more than the `MaxQueue`
requests that may wait, although `release` queues a refused head once more before it
takes it back. Objects are independent, so one is enough; three transactions give
two readers that both want to upgrade with a third request behind them, and a
queue of three holds a read, its upgrade and another transaction, which is what
`check_and_merge` has to tell apart.
`lock_tree`: two children of the root (the short-circuit), three levels (intention
over intention), two siblings; three transactions put a third one beside two
compatible ones.
`buffer_manager`: two frames and three pages force evictions, four pins are an
eviction and a reload of the evicted page with overlapping pins, and a page
identifier is freed and handed out again. The pages are 1 and 2, which `allocate`
gives out, and `PageID(0)`, which it gives out once it was freed. CLOCK with both bits
set needs its second round.
`iceberg`: three files are a file, its rewrite and a rewrite of that or a second
file; three versions distinguish the one before, the one asked for and the one
after; the inserted chunks have a row set whose minimum and maximum in the two
columns come from different rows.
`exchange`: three peers are the least with a sender, a receiver and a third whose
end-of-stream may come first; keys are negative and positive; every placement of
the rows is an initial state.
`b_plus_tree`: eight keys are enough to split an inner page below the root. The code is written
for any even capacity of leaves and any capacity of inner pages from three on; two
and four reach these splits with the fewest keys. One key is inserted with two
values, in every state of the tree. Key 0 is among the keys because unused slots
hold it.
`shuffle`: five rows over four threads leave two threads with two rows, one with
one and one that starts past the end; two nodes are what `transfer_data` is
written for; three phases let a node be a phase ahead of its peer.
`radix_join`: three threads over four tuples have slices of different lengths, one
empty for shorter relations; two bits leave one bucket with several tuples and others
with none; a hash that sends keys to the last slot makes probing wrap around, and
key 7 is `UINT64_MAX`. Draws of three threads over two or four buckets include
threads that get none and threads that get several.
`sequential_library`: all inputs of up to four pages of one or two records, for
`k` of two and three, have more pages than lists, fewer, and pages left over; the
two longer ones recurse several calls deep. Tables have an empty first page, duplicate and missing
keys; columnar tables have no, one or two files, one that a filter empties, equal
join values in different files and a column that is not read. Columns have up to nine
rows, which is two bytes, and largest keys of one to three digits in base three; every
pair of bounds from 0 to 9 is looked up, also one with more digits than the largest key,
one above all keys, one between two neighbouring keys, and a start above the end.
`iceberg`, queries: all predicates over values 1 and 2 of any subset of the
columns, in all versions, whenever no modification is open.

**Deadlock** is checked where the system cannot stop (`lock_table`, `iceberg`,
`b_plus_tree`, where a stop would be one of the code's panics). The
others stop: the buffer manager when its pins are used up, the lock tree when it
panics, joins, shuffle, radix join, sort and iterator when they are done. For joins,
shuffle and radix join `EveryJoinEnds`, `EveryNodeReturns` and `JoinEnds` say that
this is the only place they stop at.

**Symmetry** is used in `lock_tree`, `buffer_manager` and `iceberg`, which check no
liveness property, over transactions, clients and contents, and tables; the
modules treat them alike.

**Fairness.**
`LockTable.Fairness`: a `release` runs to its end, being a loop of one call (weak
fairness of its steps); a transaction that holds a lock gives it back some day
(strong fairness of `Release`, an assumption about clients, since the table cannot
force them). A holder that waits itself gives its lock back as well: `QueuesDrain`
therefore says nothing of two readers that wait for each other's upgrade, a deadlock the
code does not resolve. Asking for locks is not fair: nobody has to.
`Exchange`: a peer's thread is scheduled (weak fairness of its step), and `receive`
is only enabled when it would return.
`Shuffle`: a process and each of its threads are scheduled (weak fairness of
`Main(n)` and of `Scatter(n, t)`).
`RadixJoin`: likewise, per thread and pass, and for the caller between the passes; no
thread waits for another except by `join`.

## 4. The proofs

TLC shows the properties on the instances above; the theorems hold for every value
of the constants that satisfies the named assumptions.

`LockTableProofs`: `TypeCorrect`, `MutualExclusion`, `NoWakeupIsLost`,
`EveryWaitHasAHolder`, `ReportIsExact`. Assumptions: `NoTID` and `NoRow` are no
transaction and no object, `MaxQueue` is a number. The four invariants are proved
together with the type invariant as induction hypothesis. `NoLostWakeup` is inductive
because a granted `lock` can only add holders, `Grantable` is antitone in them except
for the upgrade, and the upgrade ends with a writer; during a `release` the object is
exempt and `ReleaseReturn` re-establishes the claim. `WaitersHaveHolder` then follows
from it: an object without holders grants any head. What a release has granted so far is
reads of present readers and no writer, or one write, perhaps behind a read of the same
transaction (`GrantsMatchHolders`); the report is exact since `check_and_merge` turns the
second form into one entry.

`LockTreeAndBitmapProofs`, about the lock tree: `TypeCorrect`, `LocksOnANodeCompatible`,
`CanGrantIsTheMatrix`, `IntentionsAlwaysHeld`, `SubtreesExclusive`. Assumption:
`Above` is the ancestor relation of a tree. `NodeCompatible` is inductive and makes
`CanGrant` the matrix: a node with a `Write` has no other lock, so looking at
single locks misses none. `IntentionsHeld` is inductive since a grant covers the
whole path and `Reached` is closed downwards among the transaction's nodes.
Exclusion of subtrees is the two together: the intention of the lower lock is on
the upper node and compatible with what is there.

`BufferManagerProofs`: `TypeCorrect`, `FreeListIsExact`, `TableAlwaysAgrees`,
`PinsAreExact`, `NoUpdateIsLost`, `RefusedOnlyWhenAllPinned`, `LRUEvictsLeastRecent`.
Assumptions: at least one frame, finitely many clients, and numbers as bounds; all but
the first two hold as long as no pin has failed, which is what the properties say, and
`NoUpdateIsLost` has the hypothesis `KeepDirty` (section 5 says why). `FreeListExact`
relates the check of the disk manager to `handed` and has one exception, `PageID(0)`;
it is inductive as it stands. Three more invariants,
each inductive under those before it. `Books` is `TableAgrees` and `PinsExact` and that
frames never used are unpinned and clean: replacement goes from a frame to its page and
back through the table, and the pin counts are what keeps a held page in it. `Contents`
adds to `NoLostUpdate` that a page whose file is behind will be written: its frame is
dirty, or a client that modified it has yet to unpin it. `Times` says of the LRU
descriptors that their times are in the order of the pins and all in the past; a search
that starts with the present therefore overlooks no frame. That CLOCK overlooks none is
`HandComesTwice`: from wherever the hand is, two rounds look at each frame at two
different steps, and the first of them leaves a clear bit for the second.

`ExchangeProofs`: `RedistributionImplemented`, `MatchesMeet`. Assumptions: at least one
peer, finitely many rows. The invariant `Inv` says where a row a peer is owed can be: in
the child of one sender, in its hands, or in one channel, and in one place only; that an
end-of-stream is the last message of its channel and is sent when the child is empty;
and which side a peer's call belongs to. Every step of `Exchange` is then, for each side,
one delivery, one end, or a stutter of `Redistribution`: moving a row from place to place
on its way changes nothing that is owed. Two rows with the same key meet at one peer
because each plan gives them one destination in common, and whoever is owed a row has it
in the end.

`IcebergEngineProofs`: `FilesHaveOneTable`, `RowsAreUnique`, `HistoryIsImplemented`.
Assumptions: `NoTable` is no table, chunks are not empty, values are numbers. `Books`
carries the checks of a call through its steps: what `update` looked at before the first
file stays true for the files that are left, since each item only takes its own file away
and the files of a call are distinct (`CallsChecked`); a manifest names only files that
were written, and a file is named as added by one manifest only (`FilesOwned`). `IdsApart`
adds that the identities of rows are apart in the live files of every version and of the
open modification, with identities handed out in order. The refinement maps a version to
the set of its rows: the live files of a manifest list with one more manifest are those of
the list and the added ones without the deleted ones, files are never rewritten in place,
and so a step is the start of a modification, a change to the rows of the open one, a
commit, or a stutter of `VersionedTable`.

`ShuffleProofs`: `PhasesSeparated` (the barrier alone) and `ShufflePhasesSeparated`, for
any number of nodes; `ThreadsStayApart` and `RowsReturned`, with the hypothesis `N = 2`,
which is what `transfer_data` is written for; all for any number of rows and threads.
All four have the hypothesis that memory starts as zeros (`InitialWord = {0}`), which the
code needs and does not see to. The barrier's inductive invariant counts tickets, one per node and phase it arrived
at: the counter is their number. While node 0 waits at phase `P` nobody is past `P`, so
the tickets are among those of `N` nodes and `P` phases, and a counter of `N * P` means
all of them. `BarrierSeparates` alone is not inductive: it says nothing of counter and
flags. The shuffle's steps are barrier steps or leave the barrier alone.

That threads stay apart is a fact about sums. A sum of counts over distinct parts is the
count of the union (`SumOfCounts`), so the offset the code gives a thread is the *rank*
of its next row: how many rows before it go to the same destination. Each row thus has a
slot that is its own, `HomeSlot` in the memory of its node and `AwaySlot` in that of its
destination. `DataInv` says that a slot is written exactly when the thread that owns the
row has passed it, that nothing is behind the zones before the peer has sent, and all of
its rows after. That a node does not clear or overwrite what its peer sent, and does not
return before it is there, is the barrier's theorem.

`LockTreeAndBitmapProofs`, about the bitmap indexes: `LookupsExact`,
`LookupsAgreeAlways`. Assumptions: columns hold keys up to `MaxKey` and are not empty, the
base is at least two. The range-encoded lookup takes the bitmap of the least key inside
the range and removes that of the least key behind it, so a row stays exactly if its key is no smaller than the one and smaller than
the other; the padding bits that the complement brings in are cut off again because no
bitmap of a key has them. The decomposed lookup is right because two numbers of as many
digits differ first at one digit, seen from above, and the smaller number has the smaller
digit there (`FirstDigitDecides`): from equal rests a division up the remainders decide,
and division is monotone. That the digits of the largest key are enough for all keys is
`DigitsAreEnough`. A bound with more digits has the same low digits as its remainder by
the least number that is too long, a power of the base (`RemainderHasTheDigits`), and
that remainder has few enough (`CutFits`); so the lookup finds the rows between the
remainders (`DecomposedFinds`). A panic of the range-encoded index means no key in the
range or none behind it (`RangeEncodedPanics`). The iterator's invariant is `LookupsAgree` itself, with types.

`BPlusTreeProofs`: `TypeCorrect`, `TreeIsMap`, `LookupsExact`, `RangesExact`. Assumptions: keys are
numbers, leaves have an even capacity and inner pages one of at least three
(`Capacities`), `NoRid` is no record identifier. While a split is on its way up, the tree
lacks a page: the new page has no parent yet. The invariant `Inv` is therefore about the
tree that `Completed` makes of the pages: the promoted pair is entered into the next page
of the path, were that too large for it, or into a new root. Of that tree it says
(`Tree`) that each page has a *scope*, a set of numbers, and a height: the scope of the
root is everything, that of an inner page is divided among its children by the same
`Child` that lookups use, keys lie in the scope of their page and are in order, leaves
have height zero, and no two pages of one height share a number. The path of a call is
the way of its key (`OnWay`). A split cuts a page at a key of its scope, the keys of
both halves staying in their part of it (`LeafCut`, `InnerCut`), and enters that key one
page further up, or in a new root (`SplitBelow`, `SplitTop`), so what is to be completed
moves up and stays a tree. That the code, which splits first and then inserts into one
half, makes the same halves as cutting the overfull page would is `LeafHalvesCut` and
`InnerHalvesCut`. Scopes being apart, no leaf but the one a call came to can have its
key, which makes an insert one `Insert` of `OrderedMap` (`PutInLeaf`, `SplitSame`);
steps above the leaves are stutters. The recursion of `LookupLeaf` exists since each
turn goes down one height, and ends in the leaf with the key in its scope.

For the ranges, each scope is an interval, because the scope of a child is cut out of
that of its parent by two keys (`ScopesConvex`); so of two leaves all keys of one are
below those of the other (`LeavesAreBlocks`). The invariant `Chain` adds the links, which
the tree does not mention: the right link of a leaf leads to the next leaf in this order,
or is missing and there is none, and a leaf is empty only while it is the only one. It
holds in the middle of a split too, since links are set when the leaf is halved
(`ChainStep`). The walk of a range lookup then comes to fewer and fewer places
(`WalkGoesOn`), so the function it is written as exists, and from each place it returns
the records of the range that are still before it, in order (`WalkLists`); where it
begins, those are all of them (`RestOfFirst`).

`RadixJoinProofs`: `PartitionsExact`, `JoinIsExact`. Assumptions: at least one thread,
keys are numbers up to `Sentinel`, hashes are numbers. Where a thread writes the next
tuple of a bucket is again a rank: what is in earlier buckets (`TuplesBelow`) plus how
many tuples of the bucket come before this one (`Partitioning`), so every tuple has a
place that is its own (`PlacesApart`), and the place says in which order a bucket is.
The join's invariant (`Joining`) is that what the threads have found are the pairs of
the buckets drawn and not being joined, each pair once: a bucket is drawn by one
thread, nobody draws before both partitionings have ended, and joining a bucket finds
its pairs (`BucketJoined`). For the last, a table of more slots than tuples has an empty
slot on every way through it, and the way of a key that was inserted meets its first
tuple before an empty slot or another tuple of that key, which no later insertion
changes (`InsertHolds`). The copying threads have segments of the result that are apart
and fill it (`PlacesOfThreads`).

**Only model-checked:** all liveness properties (`QueuesDrain`, `EveryJoinEnds`,
`EveryNodeReturns`, `JoinEnds`), which are out of TLAPS's reach; everything about
`KWayMerge`, `VolcanoOperators` and `ColumnPlans`; `QueryExact`. These are about what
sorts, `SelectSeq`, folds and recursive functions over data compute, which takes an
induction the provers cannot be given.

## 5. Where code and documentation disagree

* **Writers can starve.** `lock` grants a read whenever no writer holds the object,
  past queued writers (`lock_table.rs:48`); `distributed-operators/README.md:127`
  promises strict FIFO and no writer starvation. Run `lock_table_starvation`.
* **A release leaves locks.** `has_locks || release_lock_recursive(..)` stops at the
  first child of the root that had locks (`multi_granularity_locking.rs:150`);
  `distributed-operators/README.md:87` says every lock is removed. Run
  `lock_tree_release`.
* **The dirty bit is overwritten.** A reader's `unpin(page, false)` clears the bit a
  writer set (`buffer_manager.rs:280`), against the comment at line 18. Run
  `buffer_manager_dirty`; `NoLostUpdate` is therefore stated for clients that keep
  the bit.

Disagreements that a passing run states as the code has them:

* **Page 0 has no owner and can be freed.** `free(PageID(0))` on a new manager passes the
  check (`disk_manager.rs:54`), because `next_free` starts at 1, and `allocate` then hands
  page 0 out; the doc of `free` (`:51-52`) says that a page outside of the allocated
  interval is refused. `FreeListExact` and its theorem name page 0 as the exception to
  "the pages in use are those handed out".
* **The bitmap indexes are not interchangeable**, as `distributed-operators/README.md:12`
  has it. The decomposed index cuts a bound to as many digits as its largest key has
  (`decomposed_bitmap_index.rs:18-27`, `:95`, `:122`) and answers for the cut bound: with
  keys up to 5 in base three the range 0 to 9 becomes 0 to 0. The range-encoded index
  panics on ranges without a key in them or behind them
  (`range_encoded_bitmap_index.rs:55-60`), where the other two answer. `LookupsAgree`
  says of each index what it finds, and that the three agree on bounds with no more
  digits than the largest key whenever no lookup panics.
* **An aggregate may have no row.** `operators.rs:180` says "Returns exactly one row";
  `:187-189` return none when the child has no chunk, as for every table without files.
  `ColumnPlanExact` states both cases.
* **The radix join is not an equi-join** (`radix-join/README.md:3`) unless the keys of
  the build relation are distinct: it finds the first partner of a tuple and no other,
  and none for `UINT64_MAX` (`RadixJoin.cpp:190`). `JoinExact` states that. Hash joins
  of all kinds here keep one build row per key.

Further behaviour that is modelled or excluded by a named assumption, and stated by
no run:

* Two readers of one object that both ask for `Write` wait for each other
  (`lock_table.rs:66`); nothing in the lock table ends that.

* A pin that fails leaves the table mapping a page that was not loaded
  (`buffer_manager.rs:236`).
* A refused request of a transaction without locks panics
  (`multi_granularity_locking.rs:117`).
* The barrier trusts its memory: counter and flags are never initialised
  (`shuffle.cpp:57`, `:71`), and the buffer is a plain `malloc`. The run and the
  proofs assume zeros.
* A table scan returns the records of its last page again when `next` is called after
  its `None` (`table_scan_impl.rs:46`), although the comment at line 39 says that it
  emits `None`; it also reads the first record of a later page without looking at the
  page's length (`TablePagesAssumption`).
* `sort` with `k` of one calls itself for ever (`SortCallAssumption`).
* The columnar join panics on an empty left child (`operators.rs:251`).

## 6. Plan

Done, in this order: lock table, lock tree, buffer and disk manager, Iceberg engine,
exchange and joins, RDMA shuffle, B+-tree; proofs about the lock table, the lock tree
and the barrier; radix join, data files and queries, k-way merge, volcano and columnar
plans, bitmap indexes with a proof about two of them.

Then proofs about the buffer manager, the exchange, the engine, the data of the shuffle,
the rest of the bitmap indexes, the B+-tree and the radix join.

Next: runs that state the failing pin and the panic of the lock tree.

Not modelled, and staying out: `optimizer.rs` (`todo!()`); connection set-up and
registration of RDMA memory, `network.rs`, `FileBasedStorage` and `Config`, which are
not part of the repository and are modelled from their use; the width of `pin_count`,
declared outside of it.
