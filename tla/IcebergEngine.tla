----------------------------- MODULE IcebergEngine -----------------------------
(***************************************************************************)
(* The engine of columnar-engine (src/engine/db_engine.rs) with its        *)
(* manifests, table metadata and Min/Max statistics (src/iceberg).  Data   *)
(* files are written once and never changed; a version of a table is a     *)
(* prefix of its manifests; update and delete rewrite whole files.         *)
(*                                                                         *)
(* Every call takes &mut self.  insert, update and delete work through a   *)
(* vector of chunks or files and stop at the first I/O error with what     *)
(* they have done so far: a call is a first step that checks the request   *)
(* and one step per item, and nothing else runs until the call is over.    *)
(* The order of the vector is the caller's: the items left are a set.      *)
(* Requests the checks refuse change nothing and are left out.             *)
(*                                                                         *)
(* A file handle, a random UUID in the code, is the position of the file   *)
(* in the order of writing.  Rows carry an identity of their own, which    *)
(* the program does not have.                                              *)
(***************************************************************************)
EXTENDS Naturals, Sequences, FiniteSets

CONSTANTS
  Table,      \* the tables of the catalog
  NoTable,    \* the None of table_id
  Column,
  Value,      \* the values of a column, numbers
  Chunk,      \* the chunks that are inserted, sequences of records
  Change,     \* the records that rows are updated to
  MaxFiles,   \* bound: data files that are written
  MaxVersions \* bound: versions that are committed

Record == [Column -> Value]
FileHandle == 1 .. MaxFiles

ASSUME NoTableAssumption == NoTable \notin Table
ASSUME DataAssumption ==
  /\ Value \subseteq Nat
  /\ Chunk \subseteq Seq(Record) \ {<<>>}
  /\ Change \subseteq Record
ASSUME BoundsAssumption == MaxFiles \in Nat /\ MaxVersions \in Nat

VARIABLES
  storage,        \* the data files: sequences of rows
  manifests,      \* per table, its committed manifests
  table_id,
  manifest,       \* of the modification that is going on
  changed_files,
  job,            \* the call that is running and the items it has left
  rows            \* history: number of rows ever inserted

vars == <<storage, manifests, table_id, manifest, changed_files, job, rows>>

EmptyManifest == [added |-> <<>>, deleted |-> <<>>, stats |-> <<>>]
Idle == [op |-> "none", rest |-> {}]

AddedBy(m) == {m.added[i] : i \in DOMAIN m.added}
DeletedBy(m) == {m.deleted[i] : i \in DOMAIN m.deleted}

(***************************************************************************)
(* Reading: TableMetadata and its Manifests.  Version v is the state after *)
(* the first v manifests; a version that does not exist yet reads as the   *)
(* current one.                                                            *)
(***************************************************************************)
\* Fault: the slice of manifests ends one too late.
Snapshot_OneMore(t, v) ==
  IF v < Len(manifests[t]) THEN SubSeq(manifests[t], 1, v + 1) ELSE manifests[t]

Snapshot(t, v) ==
  IF v < Len(manifests[t]) THEN SubSeq(manifests[t], 1, v) ELSE manifests[t]

\* Added by a manifest and deleted by neither it nor a later one.
Live(ms) ==
  {f \in FileHandle :
     \E i \in DOMAIN ms : /\ f \in AddedBy(ms[i])
                          /\ \A j \in i .. Len(ms) : f \notin DeletedBy(ms[j])}

Files(t, v) == Live(Snapshot(t, v))

\* files(None) and the manifests as they are now.
CurrentFiles(t) == Live(manifests[t])

(***************************************************************************)
(* The files whose statistics overlap with a conjunction of predicates, a  *)
(* function from the columns it restricts to ranges [lo, hi].  contains()  *)
(* is the case of ranges that hold one value.                              *)
(***************************************************************************)
Overlaps(stats, pred) ==
  \A c \in DOMAIN pred : stats[c].min <= pred[c].hi /\ pred[c].lo <= stats[c].max

MatchedBy(m, pred) == {m.added[i] : i \in {j \in DOMAIN m.added : Overlaps(m.stats[j], pred)}}

\* Fault: files that a later version deleted are not dropped.
ContainsRange_KeepsDeleted(t, pred, v) ==
  UNION {MatchedBy(Snapshot(t, v)[i], pred) : i \in DOMAIN Snapshot(t, v)}

ContainsRange(t, pred, v) ==
  LET ms == Snapshot(t, v)
  IN  UNION {MatchedBy(ms[i], pred) : i \in DOMAIN ms} \cap Files(t, v)

-----------------------------------------------------------------------------
(***************************************************************************)
(* Writing.                                                                *)
(***************************************************************************)
ColumnRange(data, c) ==
  LET vals == {data[i].rec[c] : i \in DOMAIN data}
  IN  [min |-> CHOOSE x \in vals : \A y \in vals : x <= y,
       max |-> CHOOSE x \in vals : \A y \in vals : x >= y]

\* Fault: the statistics describe the first row.
CalculateStatistics_FirstRow(data) ==
  [c \in Column |-> [min |-> data[1].rec[c], max |-> data[1].rec[c]]]

CalculateStatistics(data) == [c \in Column |-> ColumnRange(data, c)]

\* Manifest m with a file added that holds data.
AddFile(m, f, data) ==
  [m EXCEPT !.added = Append(@, f), !.stats = Append(@, CalculateStatistics(data))]

DeleteFile(m, f) == [m EXCEPT !.deleted = Append(@, f)]

\* The data goes into a new file, whose handle is f.
WriteFile(f, data) ==
  /\ f = Len(storage) + 1
  /\ f \in FileHandle
  /\ storage' = Append(storage, data)

\* The job after one of its items.
Without(item) ==
  IF job.rest = {item} THEN Idle ELSE [job EXCEPT !.rest = @ \ {item}]

Modifying == job = Idle /\ table_id # NoTable

\* Bound: updates may fail for ever, each leaving a version and no file.
Versions == {tv \in Table \X (1 .. MaxVersions) : tv[2] <= Len(manifests[tv[1]])}
Accepting == Modifying /\ Cardinality(Versions) < MaxVersions

\* The files an update or a deletion is allowed to name.
Changeable == CurrentFiles(table_id) \ changed_files

\* Bound: a call has one or two items.
Requests(S) == {{a, b} : a, b \in S}

-----------------------------------------------------------------------------

Init ==
  /\ storage = <<>>
  /\ manifests = [t \in Table |-> <<>>]
  /\ table_id = NoTable
  /\ manifest = EmptyManifest
  /\ changed_files = {}
  /\ job = Idle
  /\ rows = 0

StartTableModification(t) ==
  /\ table_id = NoTable
  /\ table_id' = t
  /\ UNCHANGED <<storage, manifests, manifest, changed_files, job, rows>>

\* Fault: the files that were changed are not forgotten.
Commit_KeepsChanges ==
  /\ Modifying
  /\ IF changed_files # {}
     THEN /\ manifests' = [manifests EXCEPT ![table_id] = Append(@, manifest)]
          /\ manifest' = EmptyManifest
     ELSE UNCHANGED <<manifests, manifest>>
  /\ table_id' = NoTable
  /\ UNCHANGED <<storage, changed_files, job, rows>>

Commit ==
  /\ Modifying
  /\ IF changed_files # {}
     THEN /\ manifests' = [manifests EXCEPT ![table_id] = Append(@, manifest)]
          /\ manifest' = EmptyManifest
          /\ changed_files' = {}
     ELSE UNCHANGED <<manifests, manifest, changed_files>>
  /\ table_id' = NoTable
  /\ UNCHANGED <<storage, job, rows>>

Call(op, items) ==
  /\ Accepting
  /\ job' = [op |-> op, rest |-> items]
  /\ UNCHANGED <<storage, manifests, table_id, manifest, changed_files, rows>>

InsertCall == \E chunks \in Requests(Chunk) : Call("insert", chunks)

\* One row of every file is updated, and no file is named twice.
DistinctFiles(items) == \A a, b \in items : a.file = b.file => a = b

UpdateCall ==
  /\ Accepting
  /\ LET Item == UNION {[file : {f}, row : DOMAIN storage[f], rec : Change] : f \in Changeable}
     IN  \E items \in Requests(Item) : DistinctFiles(items) /\ Call("update", items)

DeleteCall ==
  /\ Accepting
  /\ LET Item == UNION {[file : {f}, gone : SUBSET DOMAIN storage[f]] : f \in Changeable}
     IN  \E items \in Requests(Item) : DistinctFiles(items) /\ Call("delete", items)

DeleteChunks ==
  /\ Accepting
  /\ \E F \in Requests(Changeable) :
       \E order \in [1 .. Cardinality(F) -> F] :
         /\ F = {order[i] : i \in DOMAIN order}
         /\ manifest' = [manifest EXCEPT !.deleted = @ \o order]
         /\ changed_files' = changed_files \cup F
  /\ UNCHANGED <<storage, manifests, table_id, job, rows>>

Numbered(chunk) == [i \in DOMAIN chunk |-> [id |-> rows + i, rec |-> chunk[i]]]

InsertStep ==
  /\ job.op = "insert"
  /\ \E chunk \in job.rest, f \in FileHandle :
       /\ WriteFile(f, Numbered(chunk))
       /\ manifest' = AddFile(manifest, f, Numbered(chunk))
       /\ changed_files' = changed_files \cup {f}
       /\ rows' = rows + Len(chunk)
       /\ job' = Without(chunk)
  /\ UNCHANGED <<manifests, table_id>>

Updated(item) == [storage[item.file] EXCEPT ![item.row].rec = item.rec]

\* Fault: the old file is not retired.
UpdateStep_KeepsOld ==
  /\ job.op = "update"
  /\ \E item \in job.rest, f \in FileHandle :
       /\ WriteFile(f, Updated(item))
       /\ manifest' = AddFile(manifest, f, Updated(item))
       /\ changed_files' = changed_files \cup {item.file}
       /\ job' = Without(item)
  /\ UNCHANGED <<manifests, table_id, rows>>

UpdateStep ==
  /\ job.op = "update"
  /\ \E item \in job.rest, f \in FileHandle :
       /\ WriteFile(f, Updated(item))
       /\ manifest' = DeleteFile(AddFile(manifest, f, Updated(item)), item.file)
       /\ changed_files' = changed_files \cup {item.file}
       /\ job' = Without(item)
  /\ UNCHANGED <<manifests, table_id, rows>>

\* What a deletion leaves of its file, in the order the rows had.
Kept(item) ==
  LET data  == storage[item.file]
      left  == DOMAIN data \ item.gone
      order == CHOOSE s \in [1 .. Cardinality(left) -> left] :
                 \A i, j \in DOMAIN s : i < j => s[i] < s[j]
  IN  [i \in DOMAIN order |-> data[order[i]]]

\* No file is written when no row is left.
DeleteStep ==
  /\ job.op = "delete"
  /\ \E item \in job.rest :
       /\ IF Kept(item) = <<>>
          THEN /\ manifest' = DeleteFile(manifest, item.file)
               /\ UNCHANGED storage
          ELSE \E f \in FileHandle :
                 /\ WriteFile(f, Kept(item))
                 /\ manifest' = DeleteFile(AddFile(manifest, f, Kept(item)), item.file)
       /\ changed_files' = changed_files \cup {item.file}
       /\ job' = Without(item)
  /\ UNCHANGED <<manifests, table_id, rows>>

(***************************************************************************)
(* A file cannot be read or written: the call returns the error.  By the   *)
(* time update and delete write, the file counts as changed.               *)
(***************************************************************************)
ReadFails ==
  /\ job.op \in {"update", "delete"}
  /\ job' = Idle
  /\ UNCHANGED <<storage, manifests, table_id, manifest, changed_files, rows>>

WriteFails ==
  /\ \/ /\ job.op = "insert"
        /\ UNCHANGED changed_files
     \/ /\ job.op = "update"
        /\ \E item \in job.rest : changed_files' = changed_files \cup {item.file}
     \/ /\ job.op = "delete"
        /\ \E item \in job.rest :
             Kept(item) # <<>> /\ changed_files' = changed_files \cup {item.file}
  /\ job' = Idle
  /\ UNCHANGED <<storage, manifests, table_id, manifest, rows>>

Next ==
  \/ \E t \in Table : StartTableModification(t)
  \/ InsertCall \/ UpdateCall \/ DeleteCall
  \/ InsertStep \/ UpdateStep \/ DeleteStep
  \/ DeleteChunks
  \/ ReadFails \/ WriteFails
  \/ Commit

Spec == Init /\ [][Next]_vars

-----------------------------------------------------------------------------

RowsOf(files) == UNION {{storage[f][i] : i \in DOMAIN storage[f]} : f \in files}

\* The files of the table being modified, the modification applied.
WorkingFiles ==
  (CurrentFiles(table_id) \cup AddedBy(manifest)) \ DeletedBy(manifest)

(***************************************************************************)
(* The engine implements a table with an immutable history: every version  *)
(* that was committed keeps its rows through all later rewrites, failed    *)
(* calls and modifications of other tables, and a commit appends exactly   *)
(* what the calls since start_table_modification did.                      *)
(***************************************************************************)
History == INSTANCE VersionedTable WITH
  history <- [t \in Table |-> [v \in 1 .. Len(manifests[t]) |-> RowsOf(Files(t, v))]],
  open    <- table_id,
  working <- IF table_id = NoTable THEN {} ELSE RowsOf(WorkingFiles)

Implements == History!Spec

(***************************************************************************)
(* A row is in one file: no version, and no modification at any moment     *)
(* between two calls, has both a file and the file that replaces it.       *)
(***************************************************************************)
Disjoint(files) ==
  \A f, g \in files : \A i \in DOMAIN storage[f], j \in DOMAIN storage[g] :
    storage[f][i].id = storage[g][j].id => f = g /\ i = j

NoRowTwice ==
  /\ \A t \in Table : \A v \in 0 .. Len(manifests[t]) : Disjoint(Files(t, v))
  /\ table_id # NoTable => Disjoint(WorkingFiles)

(***************************************************************************)
(* A file belongs to one table, and nothing of a modification is left when *)
(* it is over: a manifest or a set of changed files that outlived a commit *)
(* would end up in the next table.                                         *)
(***************************************************************************)
TablesApart ==
  /\ \A t, u \in Table : \A i \in DOMAIN manifests[t], j \in DOMAIN manifests[u] :
       AddedBy(manifests[t][i]) \cap AddedBy(manifests[u][j]) # {} => t = u /\ i = j
  /\ manifest # EmptyManifest => changed_files # {}
  /\ table_id = NoTable => manifest = EmptyManifest /\ changed_files = {}

=============================================================================
