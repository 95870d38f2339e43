-------------------------- MODULE IcebergEngineProofs --------------------------
(***************************************************************************)
(* Proofs about IcebergEngine for any tables, columns, numbers, chunks and *)
(* changes, and any bounds on files and versions.                          *)
(***************************************************************************)
EXTENDS IcebergEngine, FiniteSetTheorems, SequenceTheorems, TLAPS

-----------------------------------------------------------------------------
(***************************************************************************)
(* The inductive invariant.  Types first.  The statistics of a file are    *)
(* those of some data.                                                     *)
(***************************************************************************)
Row == [id : Nat, rec : Record]
Manifest == [added : Seq(FileHandle), deleted : Seq(FileHandle),
             stats : Seq({CalculateStatistics(data) : data \in Seq(Row)})]
Update == [file : FileHandle, row : Nat, rec : Change]
Deletion == [file : FileHandle, gone : SUBSET Nat]
Item == Chunk \cup Update \cup Deletion

TypeOK ==
  /\ storage \in Seq(Seq(Row)) /\ Len(storage) <= MaxFiles
  /\ manifests \in [Table -> Seq(Manifest)]
  /\ table_id \in Table \cup {NoTable}
  /\ manifest \in Manifest
  /\ changed_files \in SUBSET FileHandle
  /\ job \in [op : {"none", "insert", "update", "delete"}, rest : SUBSET Item]
  /\ rows \in Nat

(***************************************************************************)
(* The items that a call has left are still items it may name: its checks  *)
(* looked at all of them before the first one changed anything.            *)
(***************************************************************************)
CallsChecked ==
  /\ job.op = "none" => job = Idle
  /\ job # Idle => table_id # NoTable
  /\ job.op = "insert" => job.rest \subseteq Chunk
  /\ job.op = "update" => job.rest \subseteq Update
  /\ job.op = "delete" => job.rest \subseteq Deletion
  /\ job.op \in {"update", "delete"} =>
       DistinctFiles(job.rest) /\ \A item \in job.rest : item.file \in Changeable
  /\ job.op = "update" => \A item \in job.rest : item.row \in DOMAIN storage[item.file]

(***************************************************************************)
(* Manifests name files that were written, each added by one manifest, and *)
(* the open one deletes only files that count as changed.                  *)
(***************************************************************************)
FilesOwned ==
  /\ \A t \in Table : \A i \in DOMAIN manifests[t] :
       /\ AddedBy(manifests[t][i]) \subseteq DOMAIN storage
       /\ AddedBy(manifests[t][i]) \cap AddedBy(manifest) = {}
  /\ AddedBy(manifest) \subseteq DOMAIN storage
  /\ DeletedBy(manifest) \subseteq changed_files
  /\ changed_files \subseteq DOMAIN storage

\* Identities are given out in order.
Numbering == \A f \in DOMAIN storage : \A i \in DOMAIN storage[f] : storage[f][i].id <= rows

Books == TypeOK /\ CallsChecked /\ FilesOwned /\ TablesApart

IdsApart ==
  /\ Numbering
  /\ \A f \in DOMAIN storage : Disjoint({f})
  /\ NoRowTwice

-----------------------------------------------------------------------------
(***************************************************************************)
(* What a deletion leaves: a finite set of numbers has an enumeration in   *)
(* ascending order, from the number of elements up to each.                *)
(***************************************************************************)
LEMMA AscendingOrder ==
  ASSUME NEW S \in SUBSET Nat, IsFiniteSet(S)
  PROVE  \E s \in [1 .. Cardinality(S) -> S] :
           \A i, j \in DOMAIN s : i < j => s[i] < s[j]
<1> DEFINE n == Cardinality(S)
           Below(x) == {y \in S : y <= x}
           rank == [x \in S |-> Cardinality(Below(x))]
<1>1. n \in Nat
  BY FS_CardinalityType
<1>2. ASSUME NEW x \in S
      PROVE  IsFiniteSet(Below(x)) /\ rank[x] \in 1 .. n
  <2>1. Below(x) \in SUBSET S /\ x \in Below(x)
    OBVIOUS
  <2>2. IsFiniteSet(Below(x)) /\ Cardinality(Below(x)) <= n
    BY <2>1, FS_Subset
  <2>3. Cardinality(Below(x)) \in Nat /\ Cardinality(Below(x)) # 0
    BY <2>1, <2>2, FS_CardinalityType, FS_EmptySet
  <2> QED
    BY <1>1, <2>2, <2>3
<1>3. ASSUME NEW x \in S, NEW y \in S, x < y
      PROVE  rank[x] < rank[y]
  <2>1. Below(x) \in SUBSET Below(y) /\ Below(x) # Below(y)
    <3>1. \A z \in S : z \in Nat
      OBVIOUS
    <3>2. \A z \in S : z <= x => z <= y
      BY <1>3, <3>1
    <3>3. y \in Below(y) /\ y \notin Below(x)
      BY <1>3, <3>1
    <3> QED
      BY <3>2, <3>3
  <2>2. Cardinality(Below(x)) <= Cardinality(Below(y)) /\ Cardinality(Below(x)) # Cardinality(Below(y))
    BY <1>2, <2>1, FS_Subset
  <2>3. rank[x] \in Nat /\ rank[y] \in Nat
    BY <1>2
  <2> QED
    BY <2>2, <2>3
<1>4. rank \in [S -> 1 .. n]
  BY <1>2
<1> HIDE DEF rank, n
<1>5. rank \in Injection(S, 1 .. n)
  BY <1>3, <1>4 DEF Injection, IsInjective
<1>6. IsFiniteSet(1 .. n) /\ Cardinality(1 .. n) = n
  BY <1>1, FS_Interval
<1>7. rank \in Surjection(S, 1 .. n)
  BY <1>5, <1>6, FS_Injection DEF n
<1>8. \A k \in 1 .. n : \E x \in S : rank[x] = k
  BY <1>7 DEF Surjection
<1> DEFINE s == [k \in 1 .. n |-> CHOOSE x \in S : rank[x] = k]
<1>9. s \in [1 .. n -> S] /\ \A k \in 1 .. n : rank[s[k]] = k
  BY <1>8
<1> HIDE DEF s
<1>10. \A i, j \in 1 .. n : i < j => s[i] < s[j]
  <2> SUFFICES ASSUME NEW i \in 1 .. n, NEW j \in 1 .. n, i < j PROVE s[i] < s[j]
    OBVIOUS
  <2>1. s[i] \in S /\ s[j] \in S /\ rank[s[i]] = i /\ rank[s[j]] = j
    BY <1>9
  <2>2. ASSUME s[j] < s[i] PROVE FALSE
    <3>1. rank[s[j]] < rank[s[i]]
      BY <1>3, <2>1, <2>2
    <3> QED
      BY <1>1, <2>1, <3>1
  <2>3. s[i] # s[j]
    BY <1>1, <2>1
  <2>4. s[i] \in Nat /\ s[j] \in Nat
    BY <2>1
  <2> QED
    BY <2>2, <2>3, <2>4
<1> QED
  BY <1>9, <1>10 DEF n

(***************************************************************************)
(* The data that update and delete write comes from the data of their      *)
(* file, each row from another one.                                        *)
(***************************************************************************)
Descends(new, old) ==
  \E order \in [DOMAIN new -> DOMAIN old] :
    /\ \A i, j \in DOMAIN new : order[i] = order[j] => i = j
    /\ \A i \in DOMAIN new : new[i].id = old[order[i]].id

LEMMA KeptDescends ==
  ASSUME NEW item, storage[item.file] \in Seq(Row)
  PROVE  /\ Kept(item) \in Seq(Row)
         /\ Descends(Kept(item), storage[item.file])
         /\ \A i \in DOMAIN Kept(item) : \E j \in DOMAIN storage[item.file] :
              Kept(item)[i] = storage[item.file][j]
<1> DEFINE data  == storage[item.file]
           left  == DOMAIN data \ item.gone
           order == CHOOSE s \in [1 .. Cardinality(left) -> left] :
                      \A i, j \in DOMAIN s : i < j => s[i] < s[j]
<1>1. Len(data) \in Nat /\ DOMAIN data = 1 .. Len(data) /\ \A i \in DOMAIN data : data[i] \in Row
  OBVIOUS
<1>2. left \in SUBSET Nat /\ left \in SUBSET (1 .. Len(data))
  BY <1>1
<1>3. IsFiniteSet(left) /\ Cardinality(left) \in Nat
  <2>1. IsFiniteSet(1 .. Len(data))
    BY <1>1, FS_Interval
  <2>2. IsFiniteSet(left)
    BY <1>2, <2>1, FS_Subset
  <2> QED
    BY <2>2, FS_CardinalityType
<1>4. /\ order \in [1 .. Cardinality(left) -> left]
      /\ \A i, j \in DOMAIN order : i < j => order[i] < order[j]
  BY <1>2, <1>3, AscendingOrder
<1>5. Kept(item) = [i \in DOMAIN order |-> data[order[i]]]
  BY DEF Kept
<1> DEFINE n == Cardinality(left)
<1> HIDE DEF order, data, left
<1>6. DOMAIN Kept(item) = 1 .. n /\ DOMAIN order = 1 .. n
  BY <1>4, <1>5
<1>7. \A i \in 1 .. n : order[i] \in DOMAIN data /\ Kept(item)[i] = data[order[i]]
  BY <1>4, <1>5, <1>6 DEF left
<1>8. Kept(item) \in Seq(Row)
  <2>1. Kept(item) \in [1 .. n -> Row]
    BY <1>1, <1>5, <1>6, <1>7
  <2> QED
    BY <1>3, <2>1, SeqDef
<1>9. \A i, j \in 1 .. n : order[i] = order[j] => i = j
  <2> SUFFICES ASSUME NEW i \in 1 .. n, NEW j \in 1 .. n, i # j PROVE order[i] # order[j]
    OBVIOUS
  <2>1. i < j \/ j < i
    BY <1>3
  <2>2. order[i] < order[j] \/ order[j] < order[i]
    BY <1>4, <1>6, <2>1
  <2>3. order[i] \in Nat /\ order[j] \in Nat
    BY <1>1, <1>7
  <2> QED
    BY <2>2, <2>3
<1>10. order \in [DOMAIN Kept(item) -> DOMAIN data]
  BY <1>4, <1>6, <1>7
<1>11. Descends(Kept(item), data)
  <2> DEFINE kept == Kept(item)
  <2>1. /\ order \in [DOMAIN kept -> DOMAIN data]
        /\ \A i, j \in DOMAIN kept : order[i] = order[j] => i = j
        /\ \A i \in DOMAIN kept : kept[i].id = data[order[i]].id
    BY <1>6, <1>7, <1>9, <1>10
  <2> HIDE DEF kept
  <2>2. Descends(kept, data)
    BY <2>1 DEF Descends
  <2> QED
    BY <2>2 DEF kept
<1> QED
  BY <1>6, <1>7, <1>8, <1>11 DEF data

LEMMA UpdatedDescends ==
  ASSUME NEW item \in Update, storage[item.file] \in Seq(Row),
         item.row \in DOMAIN storage[item.file]
  PROVE  /\ Updated(item) \in Seq(Row)
         /\ DOMAIN Updated(item) = DOMAIN storage[item.file]
         /\ \A i \in DOMAIN Updated(item) : Updated(item)[i].id = storage[item.file][i].id
         /\ Descends(Updated(item), storage[item.file])
<1> DEFINE old == storage[item.file]
           new == Updated(item)
           k   == item.row
           row == [old[k] EXCEPT !.rec = item.rec]
<1>1. Len(old) \in Nat /\ DOMAIN old = 1 .. Len(old) /\ \A i \in DOMAIN old : old[i] \in Row
  OBVIOUS
<1>2. item.rec \in Record
  BY DataAssumption DEF Update
<1>3. row \in Row /\ row.id = old[k].id
  BY <1>1, <1>2 DEF Row
<1>4. new = [old EXCEPT ![k] = row]
  BY DEF Updated
<1> HIDE DEF old, new, row, k
<1>5. /\ DOMAIN new = DOMAIN old
      /\ \A i \in DOMAIN old : new[i] \in Row /\ new[i].id = old[i].id
  BY <1>1, <1>3, <1>4
<1>6. new \in Seq(Row)
  <2>1. new \in [1 .. Len(old) -> Row]
    BY <1>1, <1>4, <1>5
  <2> QED
    BY <1>1, <2>1, SeqDef
<1>7. Descends(new, old)
  <2> DEFINE order == [i \in DOMAIN old |-> i]
  <2>1. order \in [DOMAIN new -> DOMAIN old] /\ \A i \in DOMAIN new : order[i] = i
    BY <1>5
  <2> HIDE DEF order
  <2> QED
    BY <1>5, <2>1 DEF Descends
<1> QED
  BY <1>5, <1>6, <1>7 DEF new, old

-----------------------------------------------------------------------------
(***************************************************************************)
(* Manifests, items and files.                                             *)
(***************************************************************************)
LEMMA EmptyManifestType ==
  EmptyManifest \in Manifest /\ AddedBy(EmptyManifest) = {} /\ DeletedBy(EmptyManifest) = {}
<1>1. \A S : <<>> \in Seq(S)
  OBVIOUS
<1>2. EmptyManifest.added = <<>> /\ EmptyManifest.deleted = <<>>
  BY DEF EmptyManifest
<1>3. EmptyManifest \in Manifest
  BY <1>1 DEF EmptyManifest, Manifest
<1> QED
  BY <1>2, <1>3 DEF AddedBy, DeletedBy

LEMMA AddFileAdds ==
  ASSUME NEW m \in Manifest, NEW f \in FileHandle, NEW data \in Seq(Row)
  PROVE  /\ AddFile(m, f, data) \in Manifest
         /\ AddFile(m, f, data) # EmptyManifest
         /\ AddedBy(AddFile(m, f, data)) = AddedBy(m) \cup {f}
         /\ DeletedBy(AddFile(m, f, data)) = DeletedBy(m)
<1> DEFINE S == {CalculateStatistics(d) : d \in Seq(Row)}
           c == CalculateStatistics(data)
           a == Append(m.added, f)
<1>1. c \in S
  OBVIOUS
<1>2. m \in [added : Seq(FileHandle), deleted : Seq(FileHandle), stats : Seq(S)]
  BY DEF Manifest
<1>3. AddFile(m, f, data) = [m EXCEPT !.added = a, !.stats = Append(m.stats, c)]
  BY DEF AddFile
<1> HIDE DEF S, c
<1>4. /\ a \in Seq(FileHandle) /\ Len(a) = Len(m.added) + 1
      /\ \A i \in 1 .. Len(m.added) : a[i] = m.added[i]
      /\ a[Len(m.added) + 1] = f
      /\ Append(m.stats, c) \in Seq(S)
  BY <1>1, <1>2, AppendProperties
<1>5. Len(m.added) \in Nat /\ DOMAIN m.added = 1 .. Len(m.added) /\ DOMAIN a = 1 .. Len(m.added) + 1
  BY <1>2, <1>4
<1> HIDE DEF a
<1>6. AddFile(m, f, data) \in [added : Seq(FileHandle), deleted : Seq(FileHandle), stats : Seq(S)]
  BY <1>2, <1>3, <1>4
<1>7. AddFile(m, f, data).added = a /\ AddFile(m, f, data).deleted = m.deleted
  BY <1>2, <1>3
<1>8. AddedBy(AddFile(m, f, data)) = AddedBy(m) \cup {f}
  <2>1. \A i \in DOMAIN a : a[i] \in {m.added[j] : j \in DOMAIN m.added} \cup {f}
    BY <1>4, <1>5
  <2>2. \A i \in DOMAIN m.added : i \in DOMAIN a /\ a[i] = m.added[i]
    BY <1>4, <1>5
  <2>3. Len(m.added) + 1 \in DOMAIN a /\ a[Len(m.added) + 1] = f
    BY <1>4, <1>5
  <2>4. {a[i] : i \in DOMAIN a} = {m.added[j] : j \in DOMAIN m.added} \cup {f}
    BY <2>1, <2>2, <2>3
  <2> QED
    BY <1>7, <2>4 DEF AddedBy
<1>9. DeletedBy(AddFile(m, f, data)) = DeletedBy(m)
  BY <1>7 DEF DeletedBy
<1>10. AddFile(m, f, data) # EmptyManifest
  BY <1>8, EmptyManifestType
<1> QED
  BY <1>6, <1>8, <1>9, <1>10 DEF Manifest, S

LEMMA DeleteFileDeletes ==
  ASSUME NEW m \in Manifest, NEW f \in FileHandle
  PROVE  /\ DeleteFile(m, f) \in Manifest
         /\ AddedBy(DeleteFile(m, f)) = AddedBy(m)
         /\ DeletedBy(DeleteFile(m, f)) = DeletedBy(m) \cup {f}
<1> DEFINE d == Append(m.deleted, f)
<1>1. m.deleted \in Seq(FileHandle)
  BY DEF Manifest
<1>2. /\ d \in Seq(FileHandle) /\ Len(d) = Len(m.deleted) + 1
      /\ \A i \in 1 .. Len(m.deleted) : d[i] = m.deleted[i]
      /\ d[Len(m.deleted) + 1] = f
  BY <1>1, AppendProperties
<1>3. Len(m.deleted) \in Nat /\ DOMAIN m.deleted = 1 .. Len(m.deleted) /\ DOMAIN d = 1 .. Len(m.deleted) + 1
  BY <1>1, <1>2
<1>4. DeleteFile(m, f) = [m EXCEPT !.deleted = d]
  BY DEF DeleteFile
<1> HIDE DEF d
<1>5. /\ DeleteFile(m, f) \in Manifest
      /\ DeleteFile(m, f).added = m.added /\ DeleteFile(m, f).deleted = d
  BY <1>2, <1>4 DEF Manifest
<1>6. {d[i] : i \in DOMAIN d} = {m.deleted[i] : i \in DOMAIN m.deleted} \cup {f}
  <2>1. \A i \in DOMAIN d : d[i] \in {m.deleted[j] : j \in DOMAIN m.deleted} \cup {f}
    BY <1>2, <1>3
  <2>2. \A i \in DOMAIN m.deleted : i \in DOMAIN d /\ d[i] = m.deleted[i]
    BY <1>2, <1>3
  <2>3. Len(m.deleted) + 1 \in DOMAIN d /\ d[Len(m.deleted) + 1] = f
    BY <1>2, <1>3
  <2> QED
    BY <2>1, <2>2, <2>3
<1> QED
  BY <1>5, <1>6 DEF AddedBy, DeletedBy

LEMMA ManifestFiles ==
  ASSUME NEW m \in Manifest
  PROVE  AddedBy(m) \subseteq FileHandle /\ DeletedBy(m) \subseteq FileHandle
<1>1. m.added \in Seq(FileHandle) /\ m.deleted \in Seq(FileHandle)
  BY DEF Manifest
<1> QED
  BY <1>1 DEF AddedBy, DeletedBy

\* A new file has a handle of its own and leaves the others alone.
LEMMA FileWritten ==
  ASSUME TypeOK, NEW data \in Seq(Row), NEW f \in FileHandle, WriteFile(f, data)
  PROVE  /\ storage' \in Seq(Seq(Row)) /\ Len(storage') <= MaxFiles
         /\ f \notin DOMAIN storage
         /\ DOMAIN storage' = DOMAIN storage \cup {f}
         /\ storage'[f] = data
         /\ \A g \in DOMAIN storage : storage'[g] = storage[g]
<1>1. /\ storage \in Seq(Seq(Row)) /\ Len(storage) \in Nat /\ DOMAIN storage = 1 .. Len(storage)
      /\ f = Len(storage) + 1 /\ f <= MaxFiles /\ storage' = Append(storage, data)
  BY BoundsAssumption DEF TypeOK, WriteFile, FileHandle
<1>2. /\ storage' \in Seq(Seq(Row)) /\ Len(storage') = Len(storage) + 1
      /\ \A i \in 1 .. Len(storage) : storage'[i] = storage[i]
      /\ storage'[Len(storage) + 1] = data
  BY <1>1, AppendProperties
<1>3. DOMAIN storage' = 1 .. Len(storage) + 1
  BY <1>1, <1>2
<1> QED
  BY <1>1, <1>2, <1>3

\* The rest of a call after one of its items.
LEMMA RestOfCall ==
  ASSUME TypeOK, NEW item \in job.rest, job' = Without(item)
  PROVE  /\ job' \in [op : {"none", "insert", "update", "delete"}, rest : SUBSET Item]
         /\ job' = Idle \/ (job'.op = job.op /\ job'.rest = job.rest \ {item})
<1>1. Idle \in [op : {"none", "insert", "update", "delete"}, rest : SUBSET Item]
  BY DEF Idle
<1>2. job \in [op : {"none", "insert", "update", "delete"}, rest : SUBSET Item]
  BY DEF TypeOK
<1>3. job' = Idle \/ job' = [job EXCEPT !.rest = job.rest \ {item}]
  BY DEF Without
<1> QED
  BY <1>1, <1>2, <1>3

(***************************************************************************)
(* Versions.  Snapshot and Files, with the manifests as a parameter.       *)
(***************************************************************************)
Prefix(ms, v) == IF v < Len(ms) THEN SubSeq(ms, 1, v) ELSE ms

LEMMA FilesOfPrefix ==
  ASSUME NEW t, NEW v
  PROVE  Files(t, v) = Live(Prefix(manifests[t], v))
BY DEF Files, Snapshot, Prefix

\* A commit leaves the versions before it alone, and adds one.
LEMMA PrefixOfAppend ==
  ASSUME NEW ms \in Seq(Manifest), NEW m \in Manifest
  PROVE  /\ Append(ms, m) \in Seq(Manifest) /\ Len(Append(ms, m)) = Len(ms) + 1
         /\ \A i \in 1 .. Len(ms) : Append(ms, m)[i] = ms[i]
         /\ Append(ms, m)[Len(ms) + 1] = m
         /\ \A v \in 0 .. Len(ms) : Prefix(Append(ms, m), v) = Prefix(ms, v)
         /\ Prefix(Append(ms, m), Len(ms) + 1) = Append(ms, m)
<1> DEFINE app == Append(ms, m)
<1>1. Len(ms) \in Nat
  OBVIOUS
<1>2. /\ app \in Seq(Manifest) /\ Len(app) = Len(ms) + 1
      /\ \A i \in 1 .. Len(ms) : app[i] = ms[i]
      /\ app[Len(ms) + 1] = m
  BY AppendProperties
<1> HIDE DEF app
<1>3. ASSUME NEW v \in 0 .. Len(ms)
      PROVE  SubSeq(app, 1, v) = SubSeq(ms, 1, v)
  <2>1. v \in Int /\ 1 \in Int /\ \A i \in 1 .. v : app[i] \in Manifest /\ ms[i] \in Manifest
    BY <1>1, <1>2
  <2>2. /\ SubSeq(app, 1, v) \in Seq(Manifest) /\ SubSeq(ms, 1, v) \in Seq(Manifest)
        /\ Len(SubSeq(app, 1, v)) = v /\ Len(SubSeq(ms, 1, v)) = v
        /\ \A i \in 1 .. v - 1 + 1 : SubSeq(app, 1, v)[i] = app[1 + i - 1]
        /\ \A i \in 1 .. v - 1 + 1 : SubSeq(ms, 1, v)[i] = ms[1 + i - 1]
    <3>1. /\ SubSeq(app, 1, v) \in Seq(Manifest)
          /\ Len(SubSeq(app, 1, v)) = IF 1 <= v THEN v - 1 + 1 ELSE 0
          /\ \A i \in 1 .. v - 1 + 1 : SubSeq(app, 1, v)[i] = app[1 + i - 1]
      BY <2>1, SubSeqProperties
    <3>2. /\ SubSeq(ms, 1, v) \in Seq(Manifest)
          /\ Len(SubSeq(ms, 1, v)) = IF 1 <= v THEN v - 1 + 1 ELSE 0
          /\ \A i \in 1 .. v - 1 + 1 : SubSeq(ms, 1, v)[i] = ms[1 + i - 1]
      BY <2>1, SubSeqProperties
    <3>3. v - 1 + 1 = v /\ (~ 1 <= v => v = 0)
      OBVIOUS
    <3> QED
      BY <3>1, <3>2, <3>3
  <2>3. \A i \in 1 .. v : SubSeq(app, 1, v)[i] = SubSeq(ms, 1, v)[i]
    BY <1>1, <1>2, <2>2
  <2> QED
    BY <2>2, <2>3, SeqEqual
<1>4. ASSUME NEW v \in 0 .. Len(ms)
      PROVE  Prefix(app, v) = Prefix(ms, v)
  <2>1. CASE v < Len(ms)
    BY <1>1, <1>2, <1>3, <2>1 DEF Prefix
  <2>2. CASE v = Len(ms)
    <3>1. SubSeq(ms, 1, v) = ms
      BY <2>2, SubSeqFull
    <3>2. Prefix(app, v) = SubSeq(app, 1, v)
      BY <1>1, <1>2, <2>2 DEF Prefix
    <3>3. Prefix(ms, v) = ms
      BY <1>1, <2>2 DEF Prefix
    <3> QED
      BY <1>3, <3>1, <3>2, <3>3
  <2> QED
    BY <1>1, <2>1, <2>2
<1>5. Prefix(app, Len(ms) + 1) = app
  BY <1>1, <1>2 DEF Prefix
<1> QED
  BY <1>2, <1>4, <1>5 DEF app

\* What a version has: what it had, and what the manifest adds, without what it deletes.
LEMMA LiveAfterAppend ==
  ASSUME NEW ms \in Seq(Manifest), NEW m \in Manifest
  PROVE  Live(Append(ms, m)) = (Live(ms) \cup AddedBy(m)) \ DeletedBy(m)
<1> DEFINE app == Append(ms, m)
           n   == Len(ms)
<1>1. n \in Nat /\ DOMAIN ms = 1 .. n /\ Len(app) = n + 1 /\ DOMAIN app = 1 .. n + 1
  BY PrefixOfAppend
<1>2. (\A i \in 1 .. n : app[i] = ms[i]) /\ app[n + 1] = m
  BY PrefixOfAppend
<1>3. AddedBy(m) \subseteq FileHandle
  BY ManifestFiles
<1> HIDE DEF app
<1>4. ASSUME NEW f \in Live(app)
      PROVE  f \in (Live(ms) \cup AddedBy(m)) \ DeletedBy(m)
  <2>1. PICK i \in 1 .. n + 1 :
          f \in AddedBy(app[i]) /\ \A j \in i .. n + 1 : f \notin DeletedBy(app[j])
    BY <1>1 DEF Live
  <2>2. f \notin DeletedBy(m)
    <3>1. n + 1 \in i .. n + 1
      BY <1>1
    <3> QED
      BY <1>2, <2>1, <3>1
  <2>3. CASE i = n + 1
    BY <1>2, <2>1, <2>2, <2>3
  <2>4. CASE i \in 1 .. n
    <3>1. f \in AddedBy(ms[i])
      BY <1>2, <2>1, <2>4
    <3>2. \A j \in i .. n : f \notin DeletedBy(ms[j])
      BY <1>1, <1>2, <2>1, <2>4
    <3>3. f \in FileHandle
      BY DEF Live
    <3>4. f \in Live(ms)
      BY <1>1, <2>4, <3>1, <3>2, <3>3 DEF Live
    <3> QED
      BY <2>2, <3>4
  <2> QED
    BY <1>1, <2>3, <2>4
<1>5. ASSUME NEW f \in Live(ms), f \notin DeletedBy(m)
      PROVE  f \in Live(app)
  <2>1. PICK i \in 1 .. n : f \in AddedBy(ms[i]) /\ \A j \in i .. n : f \notin DeletedBy(ms[j])
    BY <1>1 DEF Live
  <2>2. i \in 1 .. n + 1 /\ f \in AddedBy(app[i])
    BY <1>1, <1>2, <2>1
  <2>3. \A j \in i .. n + 1 : f \notin DeletedBy(app[j])
    <3> SUFFICES ASSUME NEW j \in i .. n + 1 PROVE f \notin DeletedBy(app[j])
      OBVIOUS
    <3>1. j = n + 1 \/ (j \in i .. n /\ j \in 1 .. n)
      BY <1>1, <2>1
    <3> QED
      BY <1>2, <1>5, <2>1, <3>1
  <2>4. f \in FileHandle
    BY DEF Live
  <2> QED
    BY <1>1, <2>2, <2>3, <2>4 DEF Live
<1>6. ASSUME NEW f \in AddedBy(m), f \notin DeletedBy(m)
      PROVE  f \in Live(app)
  <2>1. n + 1 \in DOMAIN app /\ f \in AddedBy(app[n + 1])
    BY <1>1, <1>2
  <2>2. \A j \in n + 1 .. Len(app) : f \notin DeletedBy(app[j])
    <3>1. \A j \in n + 1 .. Len(app) : j = n + 1
      BY <1>1
    <3> QED
      BY <1>2, <1>6, <3>1
  <2>3. f \in FileHandle
    BY <1>3
  <2> QED
    BY <2>1, <2>2, <2>3 DEF Live
<1> QED
  BY <1>4, <1>5, <1>6 DEF app

\* A version has files that its manifests, and so those of the table, added.
LEMMA LiveWereAdded ==
  ASSUME NEW ms \in Seq(Manifest), NEW v \in 0 .. Len(ms), NEW f \in Live(Prefix(ms, v))
  PROVE  \E i \in DOMAIN ms : f \in AddedBy(ms[i])
<1>1. Len(ms) \in Nat /\ DOMAIN ms = 1 .. Len(ms)
  OBVIOUS
<1>2. PICK i \in DOMAIN Prefix(ms, v) : f \in AddedBy(Prefix(ms, v)[i])
  BY DEF Live
<1>3. CASE v < Len(ms)
  <2>1. v \in Int /\ 1 \in Int /\ \A k \in 1 .. v : ms[k] \in Manifest
    BY <1>1, <1>3
  <2>2. /\ SubSeq(ms, 1, v) \in Seq(Manifest)
        /\ Len(SubSeq(ms, 1, v)) = IF 1 <= v THEN v - 1 + 1 ELSE 0
        /\ \A k \in 1 .. v - 1 + 1 : SubSeq(ms, 1, v)[k] = ms[1 + k - 1]
    BY <2>1, SubSeqProperties
  <2>3. Prefix(ms, v) = SubSeq(ms, 1, v) /\ DOMAIN SubSeq(ms, 1, v) = 1 .. Len(SubSeq(ms, 1, v))
    BY <1>3, <2>2 DEF Prefix
  <2>4. i \in 1 .. v
    BY <1>2, <2>2, <2>3
  <2>5. Prefix(ms, v)[i] = ms[i] /\ i \in 1 .. Len(ms)
    BY <1>1, <1>3, <2>2, <2>3, <2>4
  <2> QED
    BY <1>1, <1>2, <2>5
<1>4. CASE ~ v < Len(ms)
  BY <1>2, <1>4 DEF Prefix
<1> QED
  BY <1>3, <1>4

LEMMA NumberedRows ==
  ASSUME TypeOK, NEW chunk \in Chunk
  PROVE  /\ Numbered(chunk) \in Seq(Row) /\ Len(chunk) \in Nat
         /\ DOMAIN Numbered(chunk) = 1 .. Len(chunk)
         /\ \A i \in 1 .. Len(chunk) : Numbered(chunk)[i].id = rows + i
<1>1. chunk \in Seq(Record) /\ rows \in Nat
  BY DataAssumption DEF TypeOK
<1>2. Len(chunk) \in Nat /\ DOMAIN chunk = 1 .. Len(chunk) /\ \A i \in 1 .. Len(chunk) : chunk[i] \in Record
  BY <1>1
<1>3. Numbered(chunk) = [i \in 1 .. Len(chunk) |-> [id |-> rows + i, rec |-> chunk[i]]]
  BY <1>2 DEF Numbered
<1>4. \A i \in 1 .. Len(chunk) : [id |-> rows + i, rec |-> chunk[i]] \in Row
  BY <1>1, <1>2 DEF Row
<1>5. Numbered(chunk) \in [1 .. Len(chunk) -> Row]
  BY <1>3, <1>4
<1>6. Numbered(chunk) \in Seq(Row)
  BY <1>2, <1>5, SeqDef
<1> QED
  BY <1>2, <1>3, <1>6

\* The files a modification works on, and those its calls may name, were written.
LEMMA FilesWritten ==
  ASSUME TypeOK, FilesOwned
  PROVE  /\ \A t \in Table : \A v \in 0 .. Len(manifests[t]) : Files(t, v) \subseteq DOMAIN storage
         /\ \A t \in Table : CurrentFiles(t) = Files(t, Len(manifests[t]))
         /\ table_id # NoTable => CurrentFiles(table_id) \subseteq DOMAIN storage
         /\ table_id # NoTable => WorkingFiles \subseteq DOMAIN storage
         /\ table_id # NoTable => Changeable \subseteq WorkingFiles
<1>1. \A t \in Table : manifests[t] \in Seq(Manifest)
  BY DEF TypeOK
<1>2. ASSUME NEW t \in Table, NEW v \in 0 .. Len(manifests[t])
      PROVE  Files(t, v) \subseteq DOMAIN storage
  <2> SUFFICES ASSUME NEW f \in Files(t, v) PROVE f \in DOMAIN storage
    OBVIOUS
  <2> DEFINE ms == manifests[t]
  <2>1. f \in Live(Prefix(ms, v))
    BY FilesOfPrefix
  <2>2. ms \in Seq(Manifest)
    BY <1>1
  <2>3. v \in 0 .. Len(ms)
    OBVIOUS
  <2> HIDE DEF ms
  <2>4. \E i \in DOMAIN ms : f \in AddedBy(ms[i])
    BY <2>1, <2>2, <2>3, LiveWereAdded
  <2> QED
    BY <2>4 DEF FilesOwned, ms
<1>3. ASSUME NEW t \in Table
      PROVE  CurrentFiles(t) = Files(t, Len(manifests[t]))
  <2>1. Len(manifests[t]) \in Nat
    BY <1>1
  <2>2. ~ Len(manifests[t]) < Len(manifests[t])
    BY <2>1
  <2> QED
    BY <2>2 DEF CurrentFiles, Files, Snapshot
<1>4. ASSUME NEW t \in Table PROVE CurrentFiles(t) \subseteq DOMAIN storage
  <2>1. Len(manifests[t]) \in 0 .. Len(manifests[t])
    BY <1>1
  <2> QED
    BY <1>2, <1>3, <2>1
<1>5. table_id # NoTable => table_id \in Table
  BY DEF TypeOK
<1>6. table_id # NoTable => CurrentFiles(table_id) \subseteq DOMAIN storage
  BY <1>4, <1>5
<1>7. table_id # NoTable => WorkingFiles \subseteq DOMAIN storage
  BY <1>6 DEF FilesOwned, WorkingFiles
<1>8. Changeable \subseteq WorkingFiles
  BY DEF FilesOwned, WorkingFiles, Changeable
<1> QED
  BY <1>2, <1>3, <1>6, <1>7, <1>8

-----------------------------------------------------------------------------
(***************************************************************************)
(* Types, calls and ownership are inductive.                               *)
(***************************************************************************)
LEMMA BooksInit == Init => Books
<1> SUFFICES ASSUME Init PROVE Books
  OBVIOUS
<1>1. \A S : <<>> \in Seq(S)
  OBVIOUS
<1>2. DOMAIN <<>> = {}
  OBVIOUS
<1>3. Len(<<>>) = 0
  OBVIOUS
<1>4. TypeOK
  <2>1. storage \in Seq(Seq(Row)) /\ Len(storage) <= MaxFiles
    BY <1>1, <1>3, BoundsAssumption DEF Init
  <2>2. manifests \in [Table -> Seq(Manifest)]
    BY <1>1 DEF Init
  <2>3. manifest \in Manifest
    BY EmptyManifestType DEF Init
  <2>4. job \in [op : {"none", "insert", "update", "delete"}, rest : SUBSET Item]
    BY DEF Init, Idle
  <2> QED
    BY <2>1, <2>2, <2>3, <2>4 DEF Init, TypeOK
<1>5. job = Idle /\ job.op = "none"
  BY DEF Init, Idle
<1>6. CallsChecked
  BY <1>5 DEF CallsChecked
<1>7. \A t \in Table : DOMAIN manifests[t] = {}
  BY <1>2 DEF Init
<1>8. AddedBy(manifest) = {} /\ DeletedBy(manifest) = {} /\ changed_files = {}
  BY EmptyManifestType DEF Init
<1>9. FilesOwned
  BY <1>7, <1>8 DEF FilesOwned
<1>10. TablesApart
  <2>1. manifest = EmptyManifest /\ changed_files = {}
    BY DEF Init
  <2> QED
    BY <1>7, <2>1 DEF TablesApart
<1> QED
  BY <1>4, <1>6, <1>9, <1>10 DEF Books

LEMMA BooksStart ==
  ASSUME Books, NEW t \in Table, StartTableModification(t)
  PROVE  Books'
<1>1. job = Idle /\ job.op = "none" /\ table_id' = t /\ t # NoTable
  BY NoTableAssumption DEF Books, CallsChecked, StartTableModification, Idle
<1>2. TypeOK'
  BY DEF Books, TypeOK, StartTableModification
<1>3. CallsChecked'
  <2>1. job' = Idle /\ job'.op = "none"
    BY <1>1 DEF StartTableModification
  <2> QED
    BY <2>1 DEF CallsChecked
<1>4. FilesOwned'
  BY DEF Books, FilesOwned, StartTableModification
<1>5. TablesApart'
  <2>1. manifest' = EmptyManifest /\ changed_files' = {} /\ manifests' = manifests
    BY DEF Books, TablesApart, StartTableModification
  <2> QED
    BY <2>1 DEF Books, TablesApart
<1> QED
  BY <1>2, <1>3, <1>4, <1>5 DEF Books

\* A call that is accepted: its items have passed the checks.
LEMMA BooksCall ==
  ASSUME Books, NEW op \in {"insert", "update", "delete"}, NEW items \in SUBSET Item, Call(op, items),
         op = "insert" => items \subseteq Chunk,
         op = "update" => items \subseteq Update,
         op = "delete" => items \subseteq Deletion,
         op \in {"update", "delete"} =>
           DistinctFiles(items) /\ \A item \in items : item.file \in Changeable,
         op = "update" => \A item \in items : item.row \in DOMAIN storage[item.file]
  PROVE  Books'
<1>1. /\ job' = [op |-> op, rest |-> items] /\ job'.op = op /\ job'.rest = items /\ job'.op # "none"
      /\ storage' = storage /\ manifests' = manifests /\ table_id' = table_id
      /\ manifest' = manifest /\ changed_files' = changed_files /\ rows' = rows /\ table_id # NoTable
  BY DEF Call, Accepting, Modifying
<1>2. TypeOK'
  <2>1. job' \in [op : {"none", "insert", "update", "delete"}, rest : SUBSET Item]
    BY <1>1
  <2> QED
    BY <1>1, <2>1 DEF Books, TypeOK
<1>3. CallsChecked'
  <2>1. Changeable' = Changeable
    BY <1>1 DEF Changeable, CurrentFiles
  <2>2. job'.op \in {"update", "delete"} =>
          DistinctFiles(job'.rest) /\ \A item \in job'.rest : item.file \in Changeable
    BY <1>1
  <2>3. job'.op = "update" => \A item \in job'.rest : item.row \in DOMAIN storage'[item.file]
    BY <1>1
  <2>4. DistinctFiles(job.rest)' <=> DistinctFiles(job'.rest)
    BY DEF DistinctFiles
  <2> QED
    BY <1>1, <2>1, <2>2, <2>3, <2>4 DEF CallsChecked
<1>4. FilesOwned'
  BY <1>1 DEF Books, FilesOwned
<1>5. TablesApart'
  BY <1>1 DEF Books, TablesApart
<1> QED
  BY <1>2, <1>3, <1>4, <1>5 DEF Books

\* What a step of a modification owes to ownership: the files it adds are new.
LEMMA OwnershipKept ==
  ASSUME Books, NEW new, new \cap DOMAIN storage = {},
         manifests' = manifests, table_id' = table_id, table_id # NoTable,
         DOMAIN storage' = DOMAIN storage \cup new,
         AddedBy(manifest') = AddedBy(manifest) \cup new,
         DeletedBy(manifest') \subseteq changed_files',
         changed_files' \subseteq DOMAIN storage',
         changed_files' # {}
  PROVE  FilesOwned' /\ TablesApart'
<1>1. FilesOwned /\ TablesApart
  BY DEF Books
<1>2. AddedBy(manifest)' = AddedBy(manifest') /\ DeletedBy(manifest)' = DeletedBy(manifest')
  BY DEF AddedBy, DeletedBy
<1>3. ASSUME NEW t \in Table, NEW i \in DOMAIN manifests[t]
      PROVE  /\ AddedBy(manifests[t][i]) \subseteq DOMAIN storage'
             /\ AddedBy(manifests[t][i]) \cap AddedBy(manifest') = {}
  BY <1>1 DEF FilesOwned
<1>4. \A t \in Table : \A i \in DOMAIN manifests'[t] :
        /\ AddedBy(manifests[t][i]) \subseteq DOMAIN storage'
        /\ AddedBy(manifests[t][i]) \cap AddedBy(manifest') = {}
  BY <1>3
<1>5. AddedBy(manifest') \subseteq DOMAIN storage'
  BY <1>1 DEF FilesOwned
<1>6. (\A t \in Table : \A i \in DOMAIN manifests[t] :
         /\ AddedBy(manifests[t][i]) \subseteq DOMAIN storage
         /\ AddedBy(manifests[t][i]) \cap AddedBy(manifest) = {})'
  BY <1>2, <1>4 DEF AddedBy
<1>7. FilesOwned'
  BY <1>2, <1>5, <1>6 DEF FilesOwned
<1>8. TablesApart'
  BY <1>1 DEF TablesApart
<1> QED
  BY <1>7, <1>8

\* After an item the others are still items the call may name.
LEMMA CallsKept ==
  ASSUME Books, NEW item \in job.rest, job' = Without(item), job.op # "none",
         manifests' = manifests, table_id' = table_id,
         \A g \in DOMAIN storage : storage'[g] = storage[g],
         job.op \in {"update", "delete"} => changed_files' = changed_files \cup {item.file}
  PROVE  CallsChecked'
<1>1. TypeOK /\ FilesOwned /\ CallsChecked
  BY DEF Books
<1>2. CASE job' = Idle
  <2>1. job' = Idle /\ job'.op = "none"
    BY <1>2 DEF Idle
  <2> QED
    BY <2>1 DEF CallsChecked
<1>3. CASE job'.op = job.op /\ job'.rest = job.rest \ {item}
  <2>1. table_id' # NoTable
    BY <1>1 DEF CallsChecked, Idle
  <2>2. /\ job.op = "insert" => job'.rest \subseteq Chunk
        /\ job.op = "update" => job'.rest \subseteq Update
        /\ job.op = "delete" => job'.rest \subseteq Deletion
    BY <1>1, <1>3 DEF CallsChecked
  <2>3. CASE job.op \in {"update", "delete"}
    <3>1. Changeable' = Changeable \ {item.file}
      BY <2>3 DEF Changeable, CurrentFiles
    <3>2. DistinctFiles(job.rest) /\ \A other \in job.rest : other.file \in Changeable
      BY <1>1, <2>3 DEF CallsChecked
    <3>3. \A a, b \in job'.rest : a.file = b.file => a = b
      BY <1>3, <3>2 DEF DistinctFiles
    <3>4. \A other \in job'.rest : other.file \in Changeable \ {item.file}
      BY <1>3, <3>2 DEF DistinctFiles
    <3>5. table_id # NoTable
      BY <2>1
    <3>6. Changeable \subseteq DOMAIN storage
      BY <1>1, <3>5, FilesWritten
    <3>7. job.op = "update" => \A other \in job'.rest : other.row \in DOMAIN storage'[other.file]
      BY <1>1, <1>3, <3>4, <3>6 DEF CallsChecked
    <3>8. DistinctFiles(job.rest)'
      BY <3>3 DEF DistinctFiles
    <3> QED
      BY <1>3, <2>1, <2>2, <2>3, <3>1, <3>4, <3>7, <3>8 DEF CallsChecked
  <2>4. CASE job.op \notin {"update", "delete"}
    BY <1>3, <2>1, <2>2, <2>4 DEF CallsChecked
  <2> QED
    BY <2>3, <2>4
<1> QED
  BY <1>1, <1>2, <1>3, RestOfCall

LEMMA BooksInsertCall ==
  ASSUME Books, InsertCall
  PROVE  Books'
<1>1. PICK chunks \in Requests(Chunk) : Call("insert", chunks)
  BY DEF InsertCall
<1>2. chunks \subseteq Chunk
  BY DEF Requests
<1>3. chunks \in SUBSET Item
  BY <1>2 DEF Item
<1> QED
  BY <1>1, <1>2, <1>3, BooksCall

LEMMA BooksUpdateCall ==
  ASSUME Books, UpdateCall
  PROVE  Books'
<1> DEFINE S == UNION {[file : {f}, row : DOMAIN storage[f], rec : Change] : f \in Changeable}
<1>1. PICK items \in Requests(S) : DistinctFiles(items) /\ Call("update", items)
  BY DEF UpdateCall
<1>2. table_id # NoTable /\ TypeOK /\ FilesOwned
  BY DEF Books, UpdateCall, Accepting, Modifying
<1>3. Changeable \subseteq DOMAIN storage /\ Changeable \subseteq FileHandle
  <2>1. Changeable \subseteq DOMAIN storage
    BY <1>2, FilesWritten
  <2>2. Changeable \subseteq FileHandle
    BY DEF Changeable, CurrentFiles, Live
  <2> QED
    BY <2>1, <2>2
<1>4. ASSUME NEW item \in S
      PROVE  item \in Update /\ item.file \in Changeable /\ item.row \in DOMAIN storage[item.file]
  <2>1. PICK f \in Changeable : item \in [file : {f}, row : DOMAIN storage[f], rec : Change]
    OBVIOUS
  <2>2. item.file = f /\ item.row \in DOMAIN storage[f] /\ item.rec \in Change
    BY <2>1
  <2>3. storage[f] \in Seq(Row)
    BY <1>2, <1>3 DEF TypeOK
  <2>4. item.row \in Nat
    BY <2>2, <2>3
  <2>5. item \in Update
    BY <1>3, <2>1, <2>2, <2>4 DEF Update
  <2> QED
    BY <2>2, <2>5
<1>5. items \subseteq S
  BY DEF Requests
<1> HIDE DEF S
<1>6. items \subseteq Update /\ \A item \in items : item.file \in Changeable
  BY <1>4, <1>5
<1>7. \A item \in items : item.row \in DOMAIN storage[item.file]
  BY <1>4, <1>5
<1>8. items \in SUBSET Item
  BY <1>6 DEF Item
<1> QED
  BY <1>1, <1>6, <1>7, <1>8, BooksCall

LEMMA BooksDeleteCall ==
  ASSUME Books, DeleteCall
  PROVE  Books'
<1> DEFINE S == UNION {[file : {f}, gone : SUBSET DOMAIN storage[f]] : f \in Changeable}
<1>1. PICK items \in Requests(S) : DistinctFiles(items) /\ Call("delete", items)
  BY DEF DeleteCall
<1>2. table_id # NoTable /\ TypeOK /\ FilesOwned
  BY DEF Books, DeleteCall, Accepting, Modifying
<1>3. Changeable \subseteq DOMAIN storage /\ Changeable \subseteq FileHandle
  <2>1. Changeable \subseteq DOMAIN storage
    BY <1>2, FilesWritten
  <2>2. Changeable \subseteq FileHandle
    BY DEF Changeable, CurrentFiles, Live
  <2> QED
    BY <2>1, <2>2
<1>4. ASSUME NEW item \in S
      PROVE  item \in Deletion /\ item.file \in Changeable
  <2>1. PICK f \in Changeable : item \in [file : {f}, gone : SUBSET DOMAIN storage[f]]
    OBVIOUS
  <2>2. item.file = f /\ item.gone \subseteq DOMAIN storage[f]
    BY <2>1
  <2>3. storage[f] \in Seq(Row)
    BY <1>2, <1>3 DEF TypeOK
  <2>4. item.gone \in SUBSET Nat
    BY <2>2, <2>3
  <2>5. item \in Deletion
    BY <1>3, <2>1, <2>2, <2>4 DEF Deletion
  <2> QED
    BY <2>2, <2>5
<1>5. items \subseteq S
  BY DEF Requests
<1> HIDE DEF S
<1>6. items \subseteq Deletion /\ \A item \in items : item.file \in Changeable
  BY <1>4, <1>5
<1>7. items \in SUBSET Item
  BY <1>6 DEF Item
<1> QED
  BY <1>1, <1>6, <1>7, BooksCall

LEMMA BooksDeleteChunks ==
  ASSUME Books, DeleteChunks
  PROVE  Books'
<1>0. PICK F \in Requests(Changeable) :
        \E order \in [1 .. Cardinality(F) -> F] :
          /\ F = {order[i] : i \in DOMAIN order}
          /\ manifest' = [manifest EXCEPT !.deleted = manifest.deleted \o order]
          /\ changed_files' = changed_files \cup F
  BY DEF DeleteChunks
<1>1. PICK order \in [1 .. Cardinality(F) -> F] :
        /\ F = {order[i] : i \in DOMAIN order}
        /\ manifest' = [manifest EXCEPT !.deleted = manifest.deleted \o order]
        /\ changed_files' = changed_files \cup F
  BY <1>0
<1>2. /\ storage' = storage /\ manifests' = manifests /\ table_id' = table_id
      /\ job' = job /\ rows' = rows /\ job = Idle /\ table_id # NoTable
  BY DEF DeleteChunks, Accepting, Modifying
<1>3. TypeOK /\ FilesOwned /\ TablesApart
  BY DEF Books
<1>4. F \subseteq Changeable /\ F # {} /\ IsFiniteSet(F)
  <2>1. PICK a \in Changeable, b \in Changeable : F = {a, b}
    BY DEF Requests
  <2>2. IsFiniteSet({a}) /\ IsFiniteSet({b})
    BY FS_Singleton
  <2>3. IsFiniteSet({a} \cup {b})
    BY <2>2, FS_Union
  <2>4. F = {a} \cup {b} /\ a \in F
    BY <2>1
  <2> QED
    BY <2>1, <2>3, <2>4
<1>5. F \subseteq DOMAIN storage /\ F \subseteq FileHandle
  <2>1. Changeable \subseteq DOMAIN storage
    BY <1>2, <1>3, FilesWritten
  <2>2. Changeable \subseteq FileHandle
    BY DEF Changeable, CurrentFiles, Live
  <2> QED
    BY <1>4, <2>1, <2>2
<1>6. order \in Seq(FileHandle)
  <2>1. Cardinality(F) \in Nat
    BY <1>4, FS_CardinalityType
  <2>2. order \in [1 .. Cardinality(F) -> FileHandle]
    BY <1>5
  <2> QED
    BY <2>1, <2>2, SeqDef
<1> DEFINE d == manifest.deleted \o order
<1>7. manifest.deleted \in Seq(FileHandle) /\ manifest \in Manifest
  BY <1>3 DEF TypeOK, Manifest
<1>8. /\ d \in Seq(FileHandle) /\ Len(d) = Len(manifest.deleted) + Len(order)
      /\ \A i \in 1 .. Len(manifest.deleted) + Len(order) :
           d[i] = IF i <= Len(manifest.deleted) THEN manifest.deleted[i] ELSE order[i - Len(manifest.deleted)]
  BY <1>6, <1>7, ConcatProperties
<1>9. {d[i] : i \in DOMAIN d} \subseteq DeletedBy(manifest) \cup F
  <2> DEFINE m == manifest.deleted
  <2>1. m \in Seq(FileHandle) /\ Len(m) \in Nat /\ DOMAIN m = 1 .. Len(m)
    BY <1>7
  <2>2. Len(order) \in Nat /\ DOMAIN order = 1 .. Len(order) /\ DOMAIN d = 1 .. Len(m) + Len(order)
    BY <1>6, <1>8
  <2>3. \A i \in 1 .. Len(m) + Len(order) : d[i] = IF i <= Len(m) THEN m[i] ELSE order[i - Len(m)]
    BY <1>8
  <2> HIDE DEF d, m
  <2>4. ASSUME NEW i \in DOMAIN d
        PROVE  (\E j \in DOMAIN m : d[i] = m[j]) \/ (\E j \in DOMAIN order : d[i] = order[j])
    <3>1. i \in 1 .. Len(m) + Len(order) /\ i \in Int
      BY <2>1, <2>2
    <3>2. CASE i <= Len(m)
      BY <2>1, <2>3, <3>1, <3>2
    <3>3. CASE ~ i <= Len(m)
      <4>1. i - Len(m) \in DOMAIN order
        BY <2>1, <2>2, <3>1, <3>3
      <4> QED
        BY <2>3, <3>1, <3>3, <4>1
    <3> QED
      BY <3>2, <3>3
  <2>5. \A i \in DOMAIN d : d[i] \in {m[j] : j \in DOMAIN m} \cup F
    BY <1>1, <2>4
  <2> QED
    BY <2>5 DEF DeletedBy, m
<1>10. /\ manifest' \in Manifest /\ manifest'.added = manifest.added
       /\ manifest'.deleted = d
  BY <1>1, <1>7, <1>8 DEF Manifest
<1> HIDE DEF d
<1>11. AddedBy(manifest') = AddedBy(manifest) /\ DeletedBy(manifest') \subseteq DeletedBy(manifest) \cup F
  BY <1>9, <1>10 DEF AddedBy, DeletedBy
<1>12. TypeOK'
  BY <1>1, <1>2, <1>3, <1>5, <1>10 DEF TypeOK
<1>13. CallsChecked'
  <2>1. job' = Idle /\ job'.op = "none"
    BY <1>2 DEF Idle
  <2> QED
    BY <2>1 DEF CallsChecked
<1>14. FilesOwned' /\ TablesApart'
  <2>1. DeletedBy(manifest') \subseteq changed_files'
    BY <1>1, <1>3, <1>11 DEF FilesOwned
  <2>2. changed_files' \subseteq DOMAIN storage' /\ changed_files' # {}
    BY <1>1, <1>2, <1>3, <1>4, <1>5 DEF FilesOwned
  <2>3. DOMAIN storage' = DOMAIN storage \cup {} /\ AddedBy(manifest') = AddedBy(manifest) \cup {}
    BY <1>2, <1>11
  <2>4. {} \cap DOMAIN storage = {}
    OBVIOUS
  <2> QED
    BY <1>2, <2>1, <2>2, <2>3, <2>4, OwnershipKept
<1> QED
  BY <1>12, <1>13, <1>14 DEF Books

LEMMA BooksInsertStep ==
  ASSUME Books, InsertStep
  PROVE  Books'
<1>1. PICK chunk \in job.rest, f \in FileHandle :
        /\ WriteFile(f, Numbered(chunk))
        /\ manifest' = AddFile(manifest, f, Numbered(chunk))
        /\ changed_files' = changed_files \cup {f}
        /\ rows' = rows + Len(chunk)
        /\ job' = Without(chunk)
  BY DEF InsertStep
<1>2. job.op = "insert" /\ manifests' = manifests /\ table_id' = table_id
  BY DEF InsertStep
<1>3. TypeOK /\ CallsChecked /\ FilesOwned /\ TablesApart
  BY DEF Books
<1>4. chunk \in Chunk /\ table_id # NoTable
  BY <1>2, <1>3 DEF CallsChecked, Idle
<1>5. Numbered(chunk) \in Seq(Row) /\ Len(chunk) \in Nat
  BY <1>3, <1>4, NumberedRows
<1> DEFINE data == Numbered(chunk)
<1>6. /\ storage' \in Seq(Seq(Row)) /\ Len(storage') <= MaxFiles
      /\ f \notin DOMAIN storage
      /\ DOMAIN storage' = DOMAIN storage \cup {f}
      /\ \A g \in DOMAIN storage : storage'[g] = storage[g]
  BY <1>1, <1>3, <1>5, FileWritten
<1>7. /\ manifest' \in Manifest
      /\ AddedBy(manifest') = AddedBy(manifest) \cup {f}
      /\ DeletedBy(manifest') = DeletedBy(manifest)
  <2>1. manifest \in Manifest
    BY <1>3 DEF TypeOK
  <2> QED
    BY <1>1, <1>5, <2>1, AddFileAdds
<1>8. job' \in [op : {"none", "insert", "update", "delete"}, rest : SUBSET Item]
  BY <1>1, <1>3, RestOfCall
<1>9. TypeOK'
  <2>1. changed_files' \in SUBSET FileHandle
    BY <1>1, <1>3 DEF TypeOK
  <2>2. rows' \in Nat
    BY <1>1, <1>3, <1>5 DEF TypeOK
  <2> QED
    BY <1>2, <1>3, <1>6, <1>7, <1>8, <2>1, <2>2 DEF TypeOK
<1>10. CallsChecked'
  BY <1>1, <1>2, <1>6, CallsKept
<1>11. FilesOwned' /\ TablesApart'
  <2>1. DeletedBy(manifest') \subseteq changed_files'
    BY <1>1, <1>3, <1>7 DEF FilesOwned
  <2>2. changed_files' \subseteq DOMAIN storage' /\ changed_files' # {}
    BY <1>1, <1>3, <1>6 DEF FilesOwned
  <2>3. {f} \cap DOMAIN storage = {}
    BY <1>6
  <2> QED
    BY <1>2, <1>4, <1>6, <1>7, <2>1, <2>2, <2>3, OwnershipKept
<1> QED
  BY <1>9, <1>10, <1>11 DEF Books

\* A file is rewritten or dropped: what update and delete do with an item.
LEMMA BooksRewritten ==
  ASSUME Books, NEW item \in job.rest, job' = Without(item), job.op \in {"update", "delete"},
         NEW data \in Seq(Row), NEW f \in FileHandle, WriteFile(f, data),
         manifest' = DeleteFile(AddFile(manifest, f, data), item.file),
         changed_files' = changed_files \cup {item.file},
         manifests' = manifests, table_id' = table_id, rows' = rows
  PROVE  Books'
<1>1. TypeOK /\ CallsChecked /\ FilesOwned /\ TablesApart
  BY DEF Books
<1>2. table_id # NoTable /\ item.file \in Changeable
  BY <1>1 DEF CallsChecked, Idle
<1>3. item.file \in DOMAIN storage /\ item.file \in FileHandle
  <2>1. Changeable \subseteq DOMAIN storage
    BY <1>1, <1>2, FilesWritten
  <2> QED
    BY <1>2, <2>1 DEF Changeable, CurrentFiles, Live
<1>4. /\ storage' \in Seq(Seq(Row)) /\ Len(storage') <= MaxFiles
      /\ f \notin DOMAIN storage
      /\ DOMAIN storage' = DOMAIN storage \cup {f}
      /\ \A g \in DOMAIN storage : storage'[g] = storage[g]
  BY <1>1, FileWritten
<1>5. /\ manifest' \in Manifest
      /\ AddedBy(manifest') = AddedBy(manifest) \cup {f}
      /\ DeletedBy(manifest') = DeletedBy(manifest) \cup {item.file}
  <2>1. manifest \in Manifest
    BY <1>1 DEF TypeOK
  <2>2. /\ AddFile(manifest, f, data) \in Manifest
        /\ AddedBy(AddFile(manifest, f, data)) = AddedBy(manifest) \cup {f}
        /\ DeletedBy(AddFile(manifest, f, data)) = DeletedBy(manifest)
    BY <2>1, AddFileAdds
  <2> QED
    BY <1>3, <2>2, DeleteFileDeletes
<1>6. job' \in [op : {"none", "insert", "update", "delete"}, rest : SUBSET Item]
  BY <1>1, RestOfCall
<1>7. TypeOK'
  <2>1. changed_files' \in SUBSET FileHandle
    BY <1>1, <1>3 DEF TypeOK
  <2> QED
    BY <1>1, <1>4, <1>5, <1>6, <2>1 DEF TypeOK
<1>8. CallsChecked'
  <2>1. job.op # "none"
    OBVIOUS
  <2> QED
    BY <1>4, <2>1, CallsKept
<1>9. FilesOwned' /\ TablesApart'
  <2>1. DeletedBy(manifest') \subseteq changed_files'
    BY <1>1, <1>5 DEF FilesOwned
  <2>2. changed_files' \subseteq DOMAIN storage' /\ changed_files' # {}
    BY <1>1, <1>3, <1>4 DEF FilesOwned
  <2>3. {f} \cap DOMAIN storage = {}
    BY <1>4
  <2> QED
    BY <1>2, <1>4, <1>5, <2>1, <2>2, <2>3, OwnershipKept
<1> QED
  BY <1>7, <1>8, <1>9 DEF Books

LEMMA BooksDropped ==
  ASSUME Books, NEW item \in job.rest, job' = Without(item), job.op = "delete",
         storage' = storage,
         manifest' = DeleteFile(manifest, item.file),
         changed_files' = changed_files \cup {item.file},
         manifests' = manifests, table_id' = table_id, rows' = rows
  PROVE  Books'
<1>1. TypeOK /\ CallsChecked /\ FilesOwned /\ TablesApart
  BY DEF Books
<1>2. table_id # NoTable /\ item.file \in Changeable
  BY <1>1 DEF CallsChecked, Idle
<1>3. item.file \in DOMAIN storage /\ item.file \in FileHandle
  <2>1. Changeable \subseteq DOMAIN storage
    BY <1>1, <1>2, FilesWritten
  <2> QED
    BY <1>2, <2>1 DEF Changeable, CurrentFiles, Live
<1>4. /\ manifest' \in Manifest
      /\ AddedBy(manifest') = AddedBy(manifest)
      /\ DeletedBy(manifest') = DeletedBy(manifest) \cup {item.file}
  <2>1. manifest \in Manifest
    BY <1>1 DEF TypeOK
  <2> QED
    BY <1>3, <2>1, DeleteFileDeletes
<1>5. job' \in [op : {"none", "insert", "update", "delete"}, rest : SUBSET Item]
  BY <1>1, RestOfCall
<1>6. TypeOK'
  <2>1. changed_files' \in SUBSET FileHandle
    BY <1>1, <1>3 DEF TypeOK
  <2> QED
    BY <1>1, <1>4, <1>5, <2>1 DEF TypeOK
<1>7. CallsChecked'
  BY CallsKept
<1>8. FilesOwned' /\ TablesApart'
  <2>1. DeletedBy(manifest') \subseteq changed_files'
    BY <1>1, <1>4 DEF FilesOwned
  <2>2. changed_files' \subseteq DOMAIN storage' /\ changed_files' # {}
    BY <1>1, <1>3 DEF FilesOwned
  <2>3. {} \cap DOMAIN storage = {} /\ DOMAIN storage' = DOMAIN storage \cup {}
    OBVIOUS
  <2>4. AddedBy(manifest') = AddedBy(manifest) \cup {}
    BY <1>4
  <2> QED
    BY <1>2, <2>1, <2>2, <2>3, <2>4, OwnershipKept
<1> QED
  BY <1>6, <1>7, <1>8 DEF Books

\* Data takes the place of a file: it has the same identities, or some of the same rows.
SameIds(new, old) == DOMAIN new = DOMAIN old /\ \A i \in DOMAIN new : new[i].id = old[i].id
SomeRows(new, old) == \A i \in DOMAIN new : \E j \in DOMAIN old : new[i] = old[j]

\* The file of an item is replaced by one that holds data, or by none.
Rewrite(item, f, data) ==
  /\ WriteFile(f, data)
  /\ manifest' = DeleteFile(AddFile(manifest, f, data), item.file)
  /\ changed_files' = changed_files \cup {item.file}
  /\ job' = Without(item)
  /\ UNCHANGED <<manifests, table_id, rows>>

Drop(item) ==
  /\ manifest' = DeleteFile(manifest, item.file)
  /\ changed_files' = changed_files \cup {item.file}
  /\ job' = Without(item)
  /\ UNCHANGED <<storage, manifests, table_id, rows>>

\* The file of an item is there.
LEMMA ItemFile ==
  ASSUME Books, job.op \in {"update", "delete"}, NEW item \in job.rest
  PROVE  /\ table_id # NoTable /\ item.file \in Changeable
         /\ item.file \in DOMAIN storage /\ storage[item.file] \in Seq(Row)
<1>1. TypeOK /\ CallsChecked /\ FilesOwned
  BY DEF Books
<1>2. table_id # NoTable /\ item.file \in Changeable
  BY <1>1 DEF CallsChecked, Idle
<1>3. item.file \in DOMAIN storage
  BY <1>1, <1>2, FilesWritten
<1>4. storage[item.file] \in Seq(Row)
  BY <1>1, <1>3 DEF TypeOK
<1> QED
  BY <1>2, <1>3, <1>4

LEMMA UpdateRewrites ==
  ASSUME Books, UpdateStep
  PROVE  \E item \in job.rest, f \in FileHandle, data \in Seq(Row) :
           /\ Rewrite(item, f, data)
           /\ Descends(data, storage[item.file]) /\ SameIds(data, storage[item.file])
<1>1. PICK item \in job.rest, f \in FileHandle :
        /\ WriteFile(f, Updated(item))
        /\ manifest' = DeleteFile(AddFile(manifest, f, Updated(item)), item.file)
        /\ changed_files' = changed_files \cup {item.file}
        /\ job' = Without(item)
  BY DEF UpdateStep
<1>2. job.op = "update" /\ UNCHANGED <<manifests, table_id, rows>>
  BY DEF UpdateStep
<1>3. item \in Update /\ item.row \in DOMAIN storage[item.file]
  BY <1>2 DEF Books, CallsChecked
<1>4. storage[item.file] \in Seq(Row)
  BY <1>2, ItemFile
<1> DEFINE data == Updated(item)
<1>5. /\ data \in Seq(Row) /\ DOMAIN data = DOMAIN storage[item.file]
      /\ \A i \in DOMAIN data : data[i].id = storage[item.file][i].id
      /\ Descends(data, storage[item.file])
  BY <1>3, <1>4, UpdatedDescends
<1>6. SameIds(data, storage[item.file])
  BY <1>5 DEF SameIds
<1>7. Rewrite(item, f, data)
  BY <1>1, <1>2 DEF Rewrite
<1> HIDE DEF data
<1> QED
  BY <1>5, <1>6, <1>7

LEMMA DeleteRewrites ==
  ASSUME Books, DeleteStep
  PROVE  \E item \in job.rest :
           \/ Drop(item)
           \/ \E f \in FileHandle, data \in Seq(Row) :
                /\ Rewrite(item, f, data)
                /\ Descends(data, storage[item.file]) /\ SomeRows(data, storage[item.file])
<1>1. PICK item \in job.rest :
        /\ IF Kept(item) = <<>>
           THEN /\ manifest' = DeleteFile(manifest, item.file)
                /\ UNCHANGED storage
           ELSE \E f \in FileHandle :
                  /\ WriteFile(f, Kept(item))
                  /\ manifest' = DeleteFile(AddFile(manifest, f, Kept(item)), item.file)
        /\ changed_files' = changed_files \cup {item.file}
        /\ job' = Without(item)
  BY DEF DeleteStep
<1>2. job.op = "delete" /\ UNCHANGED <<manifests, table_id, rows>>
  BY DEF DeleteStep
<1>3. storage[item.file] \in Seq(Row)
  BY <1>2, ItemFile
<1> DEFINE data == Kept(item)
<1>4. /\ data \in Seq(Row) /\ Descends(data, storage[item.file])
      /\ \A i \in DOMAIN data : \E j \in DOMAIN storage[item.file] : data[i] = storage[item.file][j]
  BY <1>3, KeptDescends
<1>5. CASE data = <<>>
  <2>1. Drop(item)
    BY <1>1, <1>2, <1>5 DEF Drop
  <2> QED
    BY <2>1
<1>6. CASE data # <<>>
  <2>1. PICK f \in FileHandle : WriteFile(f, data)
                                /\ manifest' = DeleteFile(AddFile(manifest, f, data), item.file)
    BY <1>1, <1>6
  <2>2. Rewrite(item, f, data)
    BY <1>1, <1>2, <2>1 DEF Rewrite
  <2>3. SomeRows(data, storage[item.file])
    BY <1>4 DEF SomeRows
  <2> HIDE DEF data
  <2> QED
    BY <1>4, <2>2, <2>3
<1> QED
  BY <1>5, <1>6

LEMMA BooksWrite ==
  ASSUME Books, UpdateStep \/ DeleteStep
  PROVE  Books'
<1>1. CASE UpdateStep
  <2>1. PICK item \in job.rest, f \in FileHandle, data \in Seq(Row) : Rewrite(item, f, data)
    BY <1>1, UpdateRewrites
  <2>2. job.op \in {"update", "delete"}
    BY <1>1 DEF UpdateStep
  <2> QED
    BY <2>1, <2>2, BooksRewritten DEF Rewrite
<1>2. CASE DeleteStep
  <2>1. PICK item \in job.rest :
          Drop(item) \/ \E f \in FileHandle, data \in Seq(Row) : Rewrite(item, f, data)
    BY <1>2, DeleteRewrites
  <2>2. job.op = "delete"
    BY <1>2 DEF DeleteStep
  <2>3. CASE Drop(item)
    BY <2>2, <2>3, BooksDropped DEF Drop
  <2>4. ASSUME NEW f \in FileHandle, NEW data \in Seq(Row), Rewrite(item, f, data)
        PROVE  Books'
    BY <2>2, <2>4, BooksRewritten DEF Rewrite
  <2> QED
    BY <2>1, <2>3, <2>4
<1> QED
  BY <1>1, <1>2

\* A call that fails is over; of the files it named one may count as changed.
LEMMA BooksFailure ==
  ASSUME Books, ReadFails \/ WriteFails
  PROVE  Books'
<1>1. TypeOK /\ CallsChecked /\ FilesOwned /\ TablesApart
  BY DEF Books
<1>2. /\ job' = Idle /\ storage' = storage /\ manifests' = manifests /\ table_id' = table_id
      /\ manifest' = manifest /\ rows' = rows /\ job.op # "none"
  BY DEF ReadFails, WriteFails
<1>3. table_id # NoTable
  BY <1>1, <1>2 DEF CallsChecked, Idle
<1>4. \/ changed_files' = changed_files
      \/ \E item \in job.rest : job.op \in {"update", "delete"} /\ changed_files' = changed_files \cup {item.file}
  BY DEF ReadFails, WriteFails
<1>5. \A item \in job.rest : job.op \in {"update", "delete"} => item.file \in DOMAIN storage /\ item.file \in FileHandle
  <2>1. \A item \in job.rest : job.op \in {"update", "delete"} => item.file \in DOMAIN storage
    BY ItemFile
  <2>2. \A item \in job.rest : job.op \in {"update", "delete"} => item.file \in Changeable
    BY ItemFile
  <2> QED
    BY <2>1, <2>2 DEF Changeable, CurrentFiles, Live
<1>6. /\ changed_files \subseteq changed_files' /\ changed_files' \subseteq DOMAIN storage
      /\ changed_files' \in SUBSET FileHandle
  <2>1. changed_files \subseteq DOMAIN storage /\ changed_files \in SUBSET FileHandle
    BY <1>1 DEF TypeOK, FilesOwned
  <2> QED
    BY <1>4, <1>5, <2>1
<1>7. TypeOK'
  <2>1. Idle \in [op : {"none", "insert", "update", "delete"}, rest : SUBSET Item]
    BY DEF Idle
  <2> QED
    BY <1>1, <1>2, <1>6, <2>1 DEF TypeOK
<1>8. CallsChecked'
  <2>1. job' = Idle /\ job'.op = "none"
    BY <1>2 DEF Idle
  <2> QED
    BY <2>1 DEF CallsChecked
<1>9. FilesOwned'
  BY <1>1, <1>2, <1>6 DEF FilesOwned
<1>10. TablesApart'
  BY <1>1, <1>2, <1>3, <1>6 DEF TablesApart
<1> QED
  BY <1>7, <1>8, <1>9, <1>10 DEF Books

\* A commit appends the manifest of the modification, or there was nothing to append.
LEMMA CommitAppends ==
  ASSUME Books, Commit
  PROVE  /\ table_id \in Table /\ table_id' = NoTable /\ manifest' = EmptyManifest /\ changed_files' = {}
         /\ job = Idle /\ job' = job /\ storage' = storage /\ rows' = rows
         /\ \/ /\ manifests' \in [Table -> Seq(Manifest)]
               /\ manifests'[table_id] = Append(manifests[table_id], manifest)
               /\ \A t \in Table \ {table_id} : manifests'[t] = manifests[t]
            \/ manifest = EmptyManifest /\ manifests' = manifests
<1>1. TypeOK /\ TablesApart /\ table_id # NoTable
  BY DEF Books, Commit, Modifying
<1>2. table_id \in Table
  BY <1>1 DEF TypeOK
<1>3. job = Idle /\ job' = job /\ storage' = storage /\ rows' = rows /\ table_id' = NoTable
  BY DEF Commit, Modifying
<1>4. CASE changed_files # {}
  <2>1. /\ manifests' = [manifests EXCEPT ![table_id] = Append(manifests[table_id], manifest)]
        /\ manifest' = EmptyManifest /\ changed_files' = {}
    BY <1>4 DEF Commit
  <2>2. manifests \in [Table -> Seq(Manifest)] /\ manifest \in Manifest
    BY <1>1 DEF TypeOK
  <2>3. Append(manifests[table_id], manifest) \in Seq(Manifest)
    BY <1>2, <2>2, PrefixOfAppend
  <2> QED
    BY <1>2, <1>3, <2>1, <2>2, <2>3
<1>5. CASE changed_files = {}
  <2>1. manifests' = manifests /\ manifest' = manifest /\ changed_files' = {}
    BY <1>5 DEF Commit
  <2>2. manifest = EmptyManifest
    BY <1>1, <1>5 DEF TablesApart
  <2> QED
    BY <1>2, <1>3, <2>1, <2>2
<1> QED
  BY <1>4, <1>5

LEMMA BooksCommit ==
  ASSUME Books, Commit
  PROVE  Books'
<1>1. TypeOK /\ CallsChecked /\ FilesOwned /\ TablesApart
  BY DEF Books
<1>2. /\ table_id \in Table /\ table_id' = NoTable /\ manifest' = EmptyManifest /\ changed_files' = {}
      /\ job = Idle /\ job' = job /\ storage' = storage /\ rows' = rows
  BY CommitAppends
<1>3. CallsChecked'
  <2>1. job' = Idle /\ job'.op = "none"
    BY <1>2 DEF Idle
  <2> QED
    BY <2>1 DEF CallsChecked
<1>4. AddedBy(manifest') = {} /\ DeletedBy(manifest') = {}
  BY <1>2, EmptyManifestType
<1>5. CASE manifests' = manifests
  <2>1. TypeOK'
    BY <1>1, <1>2, <1>5, EmptyManifestType DEF TypeOK
  <2>2. FilesOwned'
    <3>1. \A t \in Table : \A i \in DOMAIN manifests'[t] :
            /\ AddedBy(manifests'[t][i]) \subseteq DOMAIN storage'
            /\ AddedBy(manifests'[t][i]) \cap AddedBy(manifest') = {}
      BY <1>1, <1>2, <1>4, <1>5 DEF FilesOwned
    <3>2. AddedBy(manifest)' = {} /\ DeletedBy(manifest)' = {}
      BY <1>4 DEF AddedBy, DeletedBy
    <3> QED
      BY <1>2, <1>5, <3>1, <3>2 DEF FilesOwned
  <2>3. TablesApart'
    BY <1>1, <1>2, <1>5 DEF TablesApart
  <2> QED
    BY <1>3, <2>1, <2>2, <2>3 DEF Books
<1>6. CASE /\ manifests' \in [Table -> Seq(Manifest)]
           /\ manifests'[table_id] = Append(manifests[table_id], manifest)
           /\ \A t \in Table \ {table_id} : manifests'[t] = manifests[t]
  <2>1. TypeOK'
    BY <1>1, <1>2, <1>6, EmptyManifestType DEF TypeOK
  <2> DEFINE n == Len(manifests[table_id])
  <2>2. /\ n \in Nat /\ DOMAIN manifests[table_id] = 1 .. n /\ DOMAIN manifests'[table_id] = 1 .. n + 1
        /\ \A i \in 1 .. n : manifests'[table_id][i] = manifests[table_id][i]
        /\ manifests'[table_id][n + 1] = manifest
    <3>1. manifests[table_id] \in Seq(Manifest) /\ manifest \in Manifest
      BY <1>1, <1>2 DEF TypeOK
    <3>2. /\ Append(manifests[table_id], manifest) \in Seq(Manifest)
          /\ Len(Append(manifests[table_id], manifest)) = n + 1
          /\ \A i \in 1 .. n : Append(manifests[table_id], manifest)[i] = manifests[table_id][i]
          /\ Append(manifests[table_id], manifest)[n + 1] = manifest
      BY <3>1, PrefixOfAppend
    <3> QED
      BY <1>6, <3>1, <3>2
  <2> HIDE DEF n
  \* A manifest of a table is one it had, or the one that is committed.
  <2>3. ASSUME NEW t \in Table, NEW i \in DOMAIN manifests'[t]
        PROVE  \/ i \in DOMAIN manifests[t] /\ manifests'[t][i] = manifests[t][i]
               \/ t = table_id /\ i = n + 1 /\ manifests'[t][i] = manifest
    <3>1. CASE t = table_id
      <4>1. i \in 1 .. n \/ i = n + 1
        BY <2>2, <3>1
      <4> QED
        BY <2>2, <3>1, <4>1
    <3>2. CASE t # table_id
      BY <1>6, <3>2
    <3> QED
      BY <3>1, <3>2
  <2>4. FilesOwned'
    <3>1. ASSUME NEW t \in Table, NEW i \in DOMAIN manifests'[t]
          PROVE  AddedBy(manifests'[t][i]) \subseteq DOMAIN storage'
      <4>1. i \in DOMAIN manifests[t] => AddedBy(manifests[t][i]) \subseteq DOMAIN storage
        BY <1>1 DEF FilesOwned
      <4>2. AddedBy(manifest) \subseteq DOMAIN storage
        BY <1>1 DEF FilesOwned
      <4> QED
        BY <1>2, <2>3, <4>1, <4>2
    <3>2. AddedBy(manifest)' = {} /\ DeletedBy(manifest)' = {}
      BY <1>4 DEF AddedBy, DeletedBy
    <3>3. (\A t \in Table : \A i \in DOMAIN manifests[t] :
             /\ AddedBy(manifests[t][i]) \subseteq DOMAIN storage
             /\ AddedBy(manifests[t][i]) \cap AddedBy(manifest) = {})'
      BY <3>1, <3>2 DEF AddedBy
    <3> QED
      BY <1>2, <3>2, <3>3 DEF FilesOwned
  <2>5. TablesApart'
    <3>1. ASSUME NEW t \in Table, NEW u \in Table,
                 NEW i \in DOMAIN manifests'[t], NEW j \in DOMAIN manifests'[u],
                 AddedBy(manifests'[t][i]) \cap AddedBy(manifests'[u][j]) # {}
          PROVE  t = u /\ i = j
      <4>1. \A k \in DOMAIN manifests[t] : AddedBy(manifests[t][k]) \cap AddedBy(manifest) = {}
        BY <1>1 DEF FilesOwned
      <4>2. \A k \in DOMAIN manifests[u] : AddedBy(manifests[u][k]) \cap AddedBy(manifest) = {}
        BY <1>1 DEF FilesOwned
      <4>3. \A k \in DOMAIN manifests[t], l \in DOMAIN manifests[u] :
              AddedBy(manifests[t][k]) \cap AddedBy(manifests[u][l]) # {} => t = u /\ k = l
        BY <1>1 DEF TablesApart
      <4>4. \/ i \in DOMAIN manifests[t] /\ manifests'[t][i] = manifests[t][i]
            \/ t = table_id /\ i = n + 1 /\ manifests'[t][i] = manifest
        BY <2>3
      <4>5. \/ j \in DOMAIN manifests[u] /\ manifests'[u][j] = manifests[u][j]
            \/ u = table_id /\ j = n + 1 /\ manifests'[u][j] = manifest
        BY <2>3
      <4>6. AddedBy(manifests'[t][i]) \cap AddedBy(manifests'[u][j])
              = AddedBy(manifests'[u][j]) \cap AddedBy(manifests'[t][i])
        OBVIOUS
      <4> QED
        BY <3>1, <4>1, <4>2, <4>3, <4>4, <4>5, <4>6
    <3>2. (\A t, u \in Table : \A i \in DOMAIN manifests[t], j \in DOMAIN manifests[u] :
             AddedBy(manifests[t][i]) \cap AddedBy(manifests[u][j]) # {} => t = u /\ i = j)'
      BY <3>1 DEF AddedBy
    <3> QED
      BY <1>2, <3>2 DEF TablesApart
  <2> QED
    BY <1>3, <2>1, <2>4, <2>5 DEF Books
<1> QED
  BY <1>5, <1>6, CommitAppends

LEMMA BooksNext == Books /\ [Next]_vars => Books'
<1> SUFFICES ASSUME Books, [Next]_vars PROVE Books'
  OBVIOUS
<1>1. ASSUME NEW t \in Table, StartTableModification(t) PROVE Books'
  BY <1>1, BooksStart
<1>2. CASE InsertCall
  BY <1>2, BooksInsertCall
<1>3. CASE UpdateCall
  BY <1>3, BooksUpdateCall
<1>4. CASE DeleteCall
  BY <1>4, BooksDeleteCall
<1>5. CASE InsertStep
  BY <1>5, BooksInsertStep
<1>6. CASE UpdateStep \/ DeleteStep
  BY <1>6, BooksWrite
<1>7. CASE DeleteChunks
  BY <1>7, BooksDeleteChunks
<1>8. CASE ReadFails \/ WriteFails
  BY <1>8, BooksFailure
<1>9. CASE Commit
  BY <1>9, BooksCommit
<1>10. CASE UNCHANGED vars
  <2>1. Changeable' = Changeable
    BY <1>10 DEF vars, Changeable, CurrentFiles
  <2>2. TypeOK' /\ FilesOwned' /\ TablesApart'
    BY <1>10 DEF Books, vars, TypeOK, FilesOwned, TablesApart
  <2>3. CallsChecked'
    BY <1>10, <2>1 DEF Books, vars, CallsChecked, DistinctFiles
  <2> QED
    BY <2>2, <2>3 DEF Books
<1> QED
  BY <1>1, <1>2, <1>3, <1>4, <1>5, <1>6, <1>7, <1>8, <1>9, <1>10 DEF Next

LEMMA AlwaysBooks == Spec => []Books
<1> QED
  BY BooksInit, BooksNext, PTL DEF Spec

(***************************************************************************)
(* A file belongs to one table and one version of it, and a modification   *)
(* that is over leaves nothing behind: a commit moves the manifest, whose  *)
(* files are new, to the table (db_engine.rs, commit), and is skipped only *)
(* when the manifest is empty.                                             *)
(***************************************************************************)
THEOREM FilesHaveOneTable == Spec => []TablesApart
<1>1. Books => TablesApart
  BY DEF Books
<1> QED
  BY <1>1, AlwaysBooks, PTL

-----------------------------------------------------------------------------
(***************************************************************************)
(* Identities.  Disjoint with the storage as a parameter, and how a file   *)
(* that is written changes it.                                             *)
(***************************************************************************)
Apart(st, files) ==
  \A f, g \in files : \A i \in DOMAIN st[f], j \in DOMAIN st[g] :
    st[f][i].id = st[g][j].id => f = g /\ i = j

LEMMA ApartSubset ==
  ASSUME NEW st, NEW F, NEW G \in SUBSET F, Apart(st, F)
  PROVE  Apart(st, G)
BY DEF Apart

LEMMA ApartSame ==
  ASSUME NEW st, NEW new, NEW F, Apart(st, F), \A g \in F : new[g] = st[g]
  PROVE  Apart(new, F)
BY DEF Apart

\* The rows of the new file f have identities of their own.
LEMMA ApartAdded ==
  ASSUME NEW st, NEW new, NEW F, NEW f, Apart(st, F), \A g \in F : new[g] = st[g],
         f \notin F, Apart(new, {f}),
         \A g \in F : \A i \in DOMAIN st[g], j \in DOMAIN new[f] : st[g][i].id # new[f][j].id
  PROVE  Apart(new, F \cup {f})
<1> SUFFICES ASSUME NEW g \in F \cup {f}, NEW h \in F \cup {f},
                    NEW i \in DOMAIN new[g], NEW j \in DOMAIN new[h],
                    new[g][i].id = new[h][j].id
             PROVE  g = h /\ i = j
  BY DEF Apart
<1>1. CASE g \in F /\ h \in F
  BY <1>1 DEF Apart
<1>2. CASE g = f /\ h = f
  BY <1>2 DEF Apart
<1>3. CASE g \in F /\ h = f
  BY <1>3
<1>4. CASE g = f /\ h \in F
  BY <1>4
<1> QED
  BY <1>1, <1>2, <1>3, <1>4

\* The new file f holds data that descends from the file g it replaces.
LEMMA ApartReplaced ==
  ASSUME NEW st, NEW new, NEW F, NEW f, NEW g \in F, Apart(st, F), \A h \in F : new[h] = st[h],
         f \notin F, Descends(new[f], st[g])
  PROVE  Apart(new, (F \cup {f}) \ {g})
<1>1. PICK order \in [DOMAIN new[f] -> DOMAIN st[g]] :
        /\ \A i, j \in DOMAIN new[f] : order[i] = order[j] => i = j
        /\ \A i \in DOMAIN new[f] : new[f][i].id = st[g][order[i]].id
  BY DEF Descends
<1> SUFFICES ASSUME NEW a \in (F \cup {f}) \ {g}, NEW b \in (F \cup {f}) \ {g},
                    NEW i \in DOMAIN new[a], NEW j \in DOMAIN new[b],
                    new[a][i].id = new[b][j].id
             PROVE  a = b /\ i = j
  BY DEF Apart
<1>2. CASE a \in F /\ b \in F
  BY <1>2 DEF Apart
<1>3. CASE a = f /\ b = f
  <2>1. order[i] \in DOMAIN st[g] /\ order[j] \in DOMAIN st[g] /\ st[g][order[i]].id = st[g][order[j]].id
    BY <1>1, <1>3
  <2>2. order[i] = order[j]
    BY <2>1 DEF Apart
  <2> QED
    BY <1>1, <1>3, <2>2
<1>4. CASE a = f /\ b \in F
  <2>1. order[i] \in DOMAIN st[g] /\ st[g][order[i]].id = st[b][j].id /\ j \in DOMAIN st[b]
    BY <1>1, <1>4
  <2>2. g = b
    BY <1>4, <2>1 DEF Apart
  <2> QED
    BY <2>2
<1>5. CASE a \in F /\ b = f
  <2>1. order[j] \in DOMAIN st[g] /\ st[g][order[j]].id = st[a][i].id /\ i \in DOMAIN st[a]
    BY <1>1, <1>5
  <2>2. g = a
    BY <1>5, <2>1 DEF Apart
  <2> QED
    BY <2>2
<1> QED
  BY <1>2, <1>3, <1>4, <1>5

\* The identities, with storage and manifests taken apart.
LEMMA IdsApartMeans ==
  IdsApart <=>
    /\ Numbering
    /\ \A f \in DOMAIN storage : Apart(storage, {f})
    /\ \A t \in Table : \A v \in 0 .. Len(manifests[t]) :
         Apart(storage, Live(Prefix(manifests[t], v)))
    /\ table_id # NoTable => Apart(storage, WorkingFiles)
<1>1. \A F : Disjoint(F) <=> Apart(storage, F)
  BY DEF Disjoint, Apart
<1>2. \A t, v : Files(t, v) = Live(Prefix(manifests[t], v))
  BY FilesOfPrefix
<1> QED
  BY <1>1, <1>2 DEF IdsApart, NoRowTwice

LEMMA IdsApartNext ==
  ASSUME Numbering',
         \A f \in DOMAIN storage' : Apart(storage', {f}),
         \A t \in Table : \A v \in 0 .. Len(manifests'[t]) :
           Apart(storage', Live(Prefix(manifests'[t], v))),
         table_id' # NoTable => Apart(storage', WorkingFiles')
  PROVE  IdsApart'
<1>1. \A f \in DOMAIN storage' : Disjoint({f})'
  BY DEF Disjoint, Apart
<1>2. ASSUME NEW t \in Table, NEW v \in 0 .. Len(manifests'[t]) PROVE Disjoint(Files(t, v))'
  <2>1. Files(t, v)' = Live(Prefix(manifests'[t], v))
    BY DEF Files, Snapshot, Prefix, Live, AddedBy, DeletedBy
  <2> QED
    BY <2>1 DEF Disjoint, Apart
<1>3. table_id' # NoTable => Disjoint(WorkingFiles)'
  BY DEF Disjoint, Apart
<1>4. NoRowTwice'
  BY <1>2, <1>3 DEF NoRowTwice
<1> QED
  BY <1>1, <1>4 DEF IdsApart

LEMMA VersionsStayApart ==
  ASSUME Books, IdsApart, manifests' = manifests,
         \A g \in DOMAIN storage : storage'[g] = storage[g]
  PROVE  \A t \in Table : \A v \in 0 .. Len(manifests'[t]) :
           Apart(storage', Live(Prefix(manifests'[t], v)))
<1> SUFFICES ASSUME NEW t \in Table, NEW v \in 0 .. Len(manifests[t])
             PROVE  Apart(storage', Live(Prefix(manifests[t], v)))
  OBVIOUS
<1> DEFINE F == Live(Prefix(manifests[t], v))
<1>1. Apart(storage, F)
  BY IdsApartMeans
<1>2. F \subseteq DOMAIN storage
  BY FilesWritten, FilesOfPrefix DEF Books
<1> HIDE DEF F
<1>3. Apart(storage', F)
  BY <1>1, <1>2, ApartSame
<1> QED
  BY <1>3 DEF F

-----------------------------------------------------------------------------
(***************************************************************************)
(* The files of the modification, step by step.                            *)
(***************************************************************************)
LEMMA WorkingFilesAre ==
  WorkingFiles = (Live(manifests[table_id]) \cup AddedBy(manifest)) \ DeletedBy(manifest)
BY DEF WorkingFiles, CurrentFiles

LEMMA IdsInit == Init => IdsApart
<1> SUFFICES ASSUME Init PROVE IdsApart
  OBVIOUS
<1>1. storage = <<>> /\ DOMAIN storage = {} /\ table_id = NoTable /\ rows = 0
  BY DEF Init
<1>2. ASSUME NEW t \in Table, NEW v \in 0 .. Len(manifests[t])
      PROVE  Apart(storage, Live(Prefix(manifests[t], v)))
  <2>1. manifests[t] = <<>>
    BY DEF Init
  <2>2. Prefix(<<>>, v) = <<>> /\ v = 0
    BY <1>2, <2>1 DEF Prefix
  <2>3. Live(<<>>) = {}
    BY DEF Live
  <2> QED
    BY <2>1, <2>2, <2>3 DEF Apart
<1> QED
  BY <1>1, <1>2, IdsApartMeans DEF Numbering

LEMMA StartWorking ==
  ASSUME Books, NEW t \in Table, StartTableModification(t)
  PROVE  /\ UNCHANGED <<storage, manifests, rows>> /\ table_id = NoTable /\ table_id' = t
         /\ WorkingFiles' = Live(Prefix(manifests[t], Len(manifests[t])))
<1>1. /\ UNCHANGED <<storage, manifests, manifest, rows>> /\ table_id = NoTable /\ table_id' = t
      /\ manifest = EmptyManifest
  BY DEF StartTableModification, Books, TablesApart
<1>2. WorkingFiles' = (Live(manifests'[table_id']) \cup AddedBy(manifest')) \ DeletedBy(manifest')
  BY DEF WorkingFiles, CurrentFiles, Live, AddedBy, DeletedBy
<1>3. AddedBy(manifest') = {} /\ DeletedBy(manifest') = {}
  BY <1>1, EmptyManifestType
<1>4. Prefix(manifests[t], Len(manifests[t])) = manifests[t]
  <2>1. Len(manifests[t]) \in Nat
    BY DEF Books, TypeOK
  <2> QED
    BY <2>1 DEF Prefix
<1> QED
  BY <1>1, <1>2, <1>3, <1>4

\* What a step of the modification does to its files, from what it does to its manifest.
LEMMA WorkingAfter ==
  ASSUME manifests' = manifests, table_id' = table_id
  PROVE  WorkingFiles' = (Live(manifests[table_id]) \cup AddedBy(manifest')) \ DeletedBy(manifest')
BY DEF WorkingFiles, CurrentFiles, Live, AddedBy, DeletedBy

LEMMA InsertWorking ==
  ASSUME Books, InsertStep
  PROVE  /\ UNCHANGED <<manifests, table_id>> /\ table_id # NoTable
         /\ \E chunk \in Chunk, f \in FileHandle :
              /\ f \notin DOMAIN storage /\ DOMAIN storage' = DOMAIN storage \cup {f}
              /\ \A g \in DOMAIN storage : storage'[g] = storage[g]
              /\ storage'[f] = Numbered(chunk) /\ rows' = rows + Len(chunk)
              /\ WorkingFiles' = WorkingFiles \cup {f}
<1>1. PICK chunk \in job.rest, f \in FileHandle :
        /\ WriteFile(f, Numbered(chunk))
        /\ manifest' = AddFile(manifest, f, Numbered(chunk))
        /\ rows' = rows + Len(chunk)
  BY DEF InsertStep
<1>2. job.op = "insert" /\ manifests' = manifests /\ table_id' = table_id
  BY DEF InsertStep
<1>3. TypeOK /\ CallsChecked /\ FilesOwned
  BY DEF Books
<1>4. chunk \in Chunk /\ table_id # NoTable
  BY <1>2, <1>3 DEF CallsChecked, Idle
<1>5. Numbered(chunk) \in Seq(Row)
  BY <1>3, <1>4, NumberedRows
<1>6. /\ f \notin DOMAIN storage /\ DOMAIN storage' = DOMAIN storage \cup {f}
      /\ storage'[f] = Numbered(chunk)
      /\ \A g \in DOMAIN storage : storage'[g] = storage[g]
  BY <1>1, <1>3, <1>5, FileWritten
<1>7. AddedBy(manifest') = AddedBy(manifest) \cup {f} /\ DeletedBy(manifest') = DeletedBy(manifest)
  <2>1. manifest \in Manifest
    BY <1>3 DEF TypeOK
  <2> QED
    BY <1>1, <1>5, <2>1, AddFileAdds
<1>8. f \notin DeletedBy(manifest)
  BY <1>3, <1>6 DEF FilesOwned
<1>9. WorkingFiles' = WorkingFiles \cup {f}
  <2>1. WorkingFiles' = (Live(manifests[table_id]) \cup AddedBy(manifest')) \ DeletedBy(manifest')
    BY <1>2, WorkingAfter
  <2> QED
    BY <1>7, <1>8, <2>1, WorkingFilesAre
<1> QED
  BY <1>1, <1>2, <1>4, <1>6, <1>9

LEMMA RewriteWorking ==
  ASSUME Books, job.op \in {"update", "delete"}, NEW item \in job.rest,
         NEW f \in FileHandle, NEW data \in Seq(Row), Rewrite(item, f, data)
  PROVE  /\ UNCHANGED <<manifests, table_id, rows>> /\ table_id # NoTable
         /\ f \notin DOMAIN storage /\ DOMAIN storage' = DOMAIN storage \cup {f}
         /\ \A g \in DOMAIN storage : storage'[g] = storage[g]
         /\ storage'[f] = data
         /\ item.file \in WorkingFiles
         /\ WorkingFiles' = (WorkingFiles \cup {f}) \ {item.file}
<1>1. TypeOK /\ FilesOwned /\ manifest \in Manifest
  BY DEF Books, TypeOK
<1>2. table_id # NoTable /\ item.file \in Changeable
  BY ItemFile
<1>3. item.file \in WorkingFiles /\ item.file \in FileHandle
  <2>1. item.file \in WorkingFiles
    BY <1>1, <1>2, FilesWritten
  <2> QED
    BY <1>2, <2>1 DEF Changeable, CurrentFiles, Live
<1>4. UNCHANGED <<manifests, table_id, rows>> /\ WriteFile(f, data)
      /\ manifest' = DeleteFile(AddFile(manifest, f, data), item.file)
  BY DEF Rewrite
<1>5. /\ f \notin DOMAIN storage /\ DOMAIN storage' = DOMAIN storage \cup {f}
      /\ \A g \in DOMAIN storage : storage'[g] = storage[g]
      /\ storage'[f] = data
  BY <1>1, <1>4, FileWritten
<1>6. AddedBy(manifest') = AddedBy(manifest) \cup {f}
      /\ DeletedBy(manifest') = DeletedBy(manifest) \cup {item.file}
  <2>1. /\ AddFile(manifest, f, data) \in Manifest
        /\ AddedBy(AddFile(manifest, f, data)) = AddedBy(manifest) \cup {f}
        /\ DeletedBy(AddFile(manifest, f, data)) = DeletedBy(manifest)
    BY <1>1, AddFileAdds
  <2> QED
    BY <1>3, <1>4, <2>1, DeleteFileDeletes
<1>7. f \notin DeletedBy(manifest)
  BY <1>1, <1>5 DEF FilesOwned
<1>8. WorkingFiles' = (WorkingFiles \cup {f}) \ {item.file}
  <2>1. WorkingFiles' = (Live(manifests[table_id]) \cup AddedBy(manifest')) \ DeletedBy(manifest')
    BY <1>4, WorkingAfter
  <2> QED
    BY <1>6, <1>7, <2>1, WorkingFilesAre
<1> QED
  BY <1>2, <1>3, <1>4, <1>5, <1>8

\* Files are taken out of the modification and none is written.
LEMMA DropWorking ==
  ASSUME Books, job.op \in {"update", "delete"}, NEW item \in job.rest, Drop(item)
  PROVE  /\ UNCHANGED <<storage, manifests, table_id, rows>> /\ table_id # NoTable
         /\ WorkingFiles' \subseteq WorkingFiles
<1>1. TypeOK /\ manifest \in Manifest
  BY DEF Books, TypeOK
<1>2. table_id # NoTable /\ item.file \in FileHandle
  BY ItemFile DEF Changeable, CurrentFiles, Live
<1>3. UNCHANGED <<storage, manifests, table_id, rows>> /\ manifest' = DeleteFile(manifest, item.file)
  BY DEF Drop
<1>4. AddedBy(manifest') = AddedBy(manifest) /\ DeletedBy(manifest') = DeletedBy(manifest) \cup {item.file}
  BY <1>1, <1>2, <1>3, DeleteFileDeletes
<1>5. WorkingFiles' = (Live(manifests[table_id]) \cup AddedBy(manifest')) \ DeletedBy(manifest')
  BY <1>3, WorkingAfter
<1>6. WorkingFiles' \subseteq WorkingFiles
  BY <1>4, <1>5, WorkingFilesAre
<1> QED
  BY <1>2, <1>3, <1>6

LEMMA ChunksWorking ==
  ASSUME Books, DeleteChunks
  PROVE  /\ UNCHANGED <<storage, manifests, table_id, rows>> /\ table_id # NoTable
         /\ WorkingFiles' \subseteq WorkingFiles
<1>1. UNCHANGED <<storage, manifests, table_id, rows>> /\ table_id # NoTable
  BY DEF DeleteChunks, Accepting, Modifying
<1>2. PICK F \in Requests(Changeable) :
        \E order \in [1 .. Cardinality(F) -> F] :
          manifest' = [manifest EXCEPT !.deleted = manifest.deleted \o order]
  BY DEF DeleteChunks
<1>3. PICK order \in [1 .. Cardinality(F) -> F] :
        manifest' = [manifest EXCEPT !.deleted = manifest.deleted \o order]
  BY <1>2
<1>4. AddedBy(manifest') = AddedBy(manifest) /\ DeletedBy(manifest) \subseteq DeletedBy(manifest')
  <2>1. manifest.deleted \in Seq(FileHandle) /\ manifest \in Manifest
    BY DEF Books, TypeOK, Manifest
  <2>2. order \in Seq(FileHandle)
    <3>1. F \subseteq FileHandle /\ IsFiniteSet(F)
      <4>1. PICK a \in Changeable, b \in Changeable : F = {a, b}
        BY DEF Requests
      <4>2. IsFiniteSet({a}) /\ IsFiniteSet({b})
        BY FS_Singleton
      <4>3. IsFiniteSet({a} \cup {b})
        BY <4>2, FS_Union
      <4>4. F = {a} \cup {b}
        BY <4>1
      <4> QED
        BY <4>1, <4>3, <4>4 DEF Changeable, CurrentFiles, Live
    <3>2. Cardinality(F) \in Nat
      BY <3>1, FS_CardinalityType
    <3>3. order \in [1 .. Cardinality(F) -> FileHandle]
      BY <3>1
    <3> QED
      BY <3>2, <3>3, SeqDef
  <2> DEFINE d == manifest.deleted \o order
  <2>3. /\ d \in Seq(FileHandle) /\ Len(d) = Len(manifest.deleted) + Len(order)
        /\ \A i \in 1 .. Len(manifest.deleted) + Len(order) :
             d[i] = IF i <= Len(manifest.deleted) THEN manifest.deleted[i] ELSE order[i - Len(manifest.deleted)]
    BY <2>1, <2>2, ConcatProperties
  <2>4. manifest'.added = manifest.added /\ manifest'.deleted = d
    BY <1>3, <2>1 DEF Manifest
  <2> DEFINE m == manifest.deleted
  <2>5. /\ Len(m) \in Nat /\ DOMAIN m = 1 .. Len(m) /\ Len(order) \in Nat
        /\ DOMAIN d = 1 .. Len(m) + Len(order)
        /\ \A i \in 1 .. Len(m) + Len(order) : i <= Len(m) => d[i] = m[i]
    BY <2>1, <2>2, <2>3
  <2> HIDE DEF d, m
  <2>6. \A i \in DOMAIN m : i \in DOMAIN d /\ d[i] = m[i]
    BY <2>5
  <2>7. DeletedBy(manifest) \subseteq DeletedBy(manifest')
    BY <2>4, <2>6 DEF DeletedBy, m
  <2> QED
    BY <2>4, <2>7 DEF AddedBy
<1>5. WorkingFiles' = (Live(manifests[table_id]) \cup AddedBy(manifest')) \ DeletedBy(manifest')
  BY <1>1, WorkingAfter
<1>6. WorkingFiles' \subseteq WorkingFiles
  BY <1>4, <1>5, WorkingFilesAre
<1> QED
  BY <1>1, <1>6

\* A commit turns the files of the modification into a version, or they were the last one.
LEMMA CommitWorking ==
  ASSUME Books, Commit
  PROVE  /\ UNCHANGED <<storage, rows>> /\ table_id \in Table /\ table_id # NoTable /\ table_id' = NoTable
         /\ \/ /\ \A t \in Table \ {table_id} : manifests'[t] = manifests[t]
               /\ Len(manifests'[table_id]) = Len(manifests[table_id]) + 1
               /\ \A v \in 0 .. Len(manifests[table_id]) :
                    Prefix(manifests'[table_id], v) = Prefix(manifests[table_id], v)
               /\ Live(Prefix(manifests'[table_id], Len(manifests[table_id]) + 1)) = WorkingFiles
            \/ /\ manifests' = manifests
               /\ WorkingFiles = Live(Prefix(manifests[table_id], Len(manifests[table_id])))
<1>1. /\ table_id \in Table /\ table_id # NoTable /\ table_id' = NoTable
      /\ storage' = storage /\ rows' = rows
  BY CommitAppends, NoTableAssumption
<1>2. manifests[table_id] \in Seq(Manifest) /\ manifest \in Manifest
  BY <1>1 DEF Books, TypeOK
<1>3. CASE /\ manifests'[table_id] = Append(manifests[table_id], manifest)
           /\ \A t \in Table \ {table_id} : manifests'[t] = manifests[t]
  <2> DEFINE ms == manifests[table_id]
             n  == Len(ms)
  <2>1. /\ Len(Append(ms, manifest)) = n + 1
        /\ \A v \in 0 .. n : Prefix(Append(ms, manifest), v) = Prefix(ms, v)
        /\ Prefix(Append(ms, manifest), n + 1) = Append(ms, manifest)
    BY <1>2, PrefixOfAppend
  <2>2. Live(Append(ms, manifest)) = WorkingFiles
    <3>1. Live(Append(ms, manifest)) = (Live(ms) \cup AddedBy(manifest)) \ DeletedBy(manifest)
      BY <1>2, LiveAfterAppend
    <3> QED
      BY <3>1, WorkingFilesAre
  <2> QED
    BY <1>1, <1>3, <2>1, <2>2
<1>4. CASE manifest = EmptyManifest /\ manifests' = manifests
  <2>1. AddedBy(manifest) = {} /\ DeletedBy(manifest) = {}
    BY <1>4, EmptyManifestType
  <2>2. Prefix(manifests[table_id], Len(manifests[table_id])) = manifests[table_id]
    BY <1>2 DEF Prefix
  <2> QED
    BY <1>1, <1>4, <2>1, <2>2, WorkingFilesAre
<1> QED
  BY <1>3, <1>4, CommitAppends

LEMMA IdsStart ==
  ASSUME Books, IdsApart, NEW t \in Table, StartTableModification(t)
  PROVE  IdsApart'
<1>1. /\ UNCHANGED <<storage, manifests, rows>>
      /\ WorkingFiles' = Live(Prefix(manifests[t], Len(manifests[t])))
  BY StartWorking
<1>2. Len(manifests[t]) \in 0 .. Len(manifests[t])
  <2>1. Len(manifests[t]) \in Nat
    BY DEF Books, TypeOK
  <2> QED
    BY <2>1
<1>3. Apart(storage, Live(Prefix(manifests[t], Len(manifests[t]))))
  BY <1>2, IdsApartMeans
<1>4. Apart(storage', WorkingFiles')
  BY <1>1, <1>3
<1>5. Numbering'
  BY <1>1 DEF IdsApart, Numbering
<1>6. \A f \in DOMAIN storage' : Apart(storage', {f})
  BY <1>1, IdsApartMeans
<1>7. \A u \in Table : \A v \in 0 .. Len(manifests'[u]) :
        Apart(storage', Live(Prefix(manifests'[u], v)))
  BY <1>1, VersionsStayApart
<1> QED
  BY <1>4, <1>5, <1>6, <1>7, IdsApartNext

\* A step that writes no file and adds none to the modification.
LEMMA IdsSmaller ==
  ASSUME Books, IdsApart, UNCHANGED <<storage, manifests, table_id, rows>>,
         WorkingFiles' \subseteq WorkingFiles
  PROVE  IdsApart'
<1>1. Numbering'
  BY DEF IdsApart, Numbering
<1>2. \A f \in DOMAIN storage' : Apart(storage', {f})
  BY IdsApartMeans
<1>3. \A t \in Table : \A v \in 0 .. Len(manifests'[t]) :
        Apart(storage', Live(Prefix(manifests'[t], v)))
  BY VersionsStayApart
<1>4. table_id' # NoTable => Apart(storage', WorkingFiles')
  <2>1. table_id # NoTable => Apart(storage, WorkingFiles)
    BY IdsApartMeans
  <2>2. table_id # NoTable => Apart(storage, WorkingFiles')
    BY <2>1, ApartSubset
  <2> QED
    BY <2>2
<1> QED
  BY <1>1, <1>2, <1>3, <1>4, IdsApartNext

\* The rows of a chunk get identities that no row has.
LEMMA IdsInsert ==
  ASSUME Books, IdsApart, InsertStep
  PROVE  IdsApart'
<1>1. UNCHANGED <<manifests, table_id>> /\ table_id # NoTable
  BY InsertWorking
<1>2. PICK chunk \in Chunk, f \in FileHandle :
        /\ f \notin DOMAIN storage /\ DOMAIN storage' = DOMAIN storage \cup {f}
        /\ \A g \in DOMAIN storage : storage'[g] = storage[g]
        /\ storage'[f] = Numbered(chunk) /\ rows' = rows + Len(chunk)
        /\ WorkingFiles' = WorkingFiles \cup {f}
  BY InsertWorking
<1>3. TypeOK /\ FilesOwned /\ rows \in Nat /\ storage \in Seq(Seq(Row))
  BY DEF Books, TypeOK
<1> DEFINE data == Numbered(chunk)
<1>4. /\ Len(chunk) \in Nat /\ DOMAIN data = 1 .. Len(chunk)
      /\ \A i \in 1 .. Len(chunk) : data[i].id = rows + i
  BY <1>3, NumberedRows
<1> HIDE DEF data
<1>5. storage'[f] = data
  BY <1>2 DEF data
<1>6. \A g \in DOMAIN storage : \A i \in DOMAIN storage[g] :
        storage[g][i].id \in Nat /\ storage[g][i].id <= rows
  <2>1. \A g \in DOMAIN storage : storage[g] \in Seq(Row)
    BY <1>3
  <2>2. \A g \in DOMAIN storage : \A i \in DOMAIN storage[g] : storage[g][i] \in Row
    BY <2>1
  <2> QED
    BY <2>2 DEF IdsApart, Numbering, Row
<1>7. Numbering'
  <2> SUFFICES ASSUME NEW g \in DOMAIN storage', NEW i \in DOMAIN storage'[g]
               PROVE  storage'[g][i].id <= rows'
    BY DEF Numbering
  <2>1. CASE g = f
    <3>1. i \in 1 .. Len(chunk) /\ storage'[g][i].id = rows + i
      BY <1>4, <1>5, <2>1
    <3> QED
      BY <1>2, <1>3, <1>4, <3>1
  <2>2. CASE g \in DOMAIN storage
    <3>1. storage'[g] = storage[g]
      BY <1>2, <2>2
    <3>2. storage[g][i].id \in Nat /\ storage[g][i].id <= rows
      BY <1>6, <2>2, <3>1
    <3> QED
      BY <1>2, <1>3, <1>4, <3>1, <3>2
  <2> QED
    BY <1>2, <2>1, <2>2
<1>8. Apart(storage', {f})
  <2>1. \A i, j \in 1 .. Len(chunk) : data[i].id = data[j].id => i = j
    <3> SUFFICES ASSUME NEW i \in 1 .. Len(chunk), NEW j \in 1 .. Len(chunk), data[i].id = data[j].id
                 PROVE  i = j
      OBVIOUS
    <3>1. rows + i = rows + j /\ i \in Int /\ j \in Int
      BY <1>4
    <3> QED
      BY <1>3, <3>1
  <2> QED
    BY <1>4, <1>5, <2>1 DEF Apart
<1>9. \A g \in DOMAIN storage' : Apart(storage', {g})
  <2>1. ASSUME NEW g \in DOMAIN storage PROVE Apart(storage', {g})
    <3>1. Apart(storage, {g})
      BY IdsApartMeans
    <3> QED
      BY <1>2, <3>1, ApartSame
  <2> QED
    BY <1>2, <1>8, <2>1
<1>10. \A t \in Table : \A v \in 0 .. Len(manifests'[t]) :
         Apart(storage', Live(Prefix(manifests'[t], v)))
  BY <1>1, <1>2, VersionsStayApart
<1>11. Apart(storage', WorkingFiles')
  <2>1. Apart(storage, WorkingFiles)
    BY <1>1, IdsApartMeans
  <2>2. WorkingFiles \subseteq DOMAIN storage
    BY <1>1, <1>3, FilesWritten
  <2>3. \A g \in WorkingFiles : \A i \in DOMAIN storage[g], j \in DOMAIN storage'[f] :
          storage[g][i].id # storage'[f][j].id
    <3> SUFFICES ASSUME NEW g \in WorkingFiles, NEW i \in DOMAIN storage[g], NEW j \in DOMAIN storage'[f]
                 PROVE  storage[g][i].id # storage'[f][j].id
      OBVIOUS
    <3>1. storage[g][i].id \in Nat /\ storage[g][i].id <= rows
      BY <1>6, <2>2
    <3>2. j \in 1 .. Len(chunk) /\ storage'[f][j].id = rows + j
      BY <1>4, <1>5
    <3> QED
      BY <1>3, <3>1, <3>2
  <2>4. f \notin WorkingFiles /\ \A g \in WorkingFiles : storage'[g] = storage[g]
    BY <1>2, <2>2
  <2> DEFINE F == WorkingFiles
             st == storage
             new == storage'
  <2> HIDE DEF F, st, new
  <2>5. Apart(new, F \cup {f})
    BY <1>8, <2>1, <2>3, <2>4, ApartAdded DEF F, st, new
  <2> QED
    BY <1>2, <2>5 DEF F, new
<1> QED
  BY <1>7, <1>9, <1>10, <1>11, IdsApartNext

\* The rows that update and delete write take the identities of the rows they replace.
LEMMA IdsRewrite ==
  ASSUME Books, IdsApart, job.op \in {"update", "delete"}, NEW item \in job.rest,
         NEW f \in FileHandle, NEW data \in Seq(Row), Rewrite(item, f, data),
         Descends(data, storage[item.file])
  PROVE  IdsApart'
<1>1. /\ UNCHANGED <<manifests, table_id, rows>> /\ table_id # NoTable
      /\ f \notin DOMAIN storage /\ DOMAIN storage' = DOMAIN storage \cup {f}
      /\ \A g \in DOMAIN storage : storage'[g] = storage[g]
      /\ storage'[f] = data
      /\ item.file \in WorkingFiles
      /\ WorkingFiles' = (WorkingFiles \cup {f}) \ {item.file}
  BY RewriteWorking
<1>2. WorkingFiles \subseteq DOMAIN storage
  BY <1>1, FilesWritten DEF Books
<1>3. PICK order \in [DOMAIN data -> DOMAIN storage[item.file]] :
        \A i \in DOMAIN data : data[i].id = storage[item.file][order[i]].id
  BY DEF Descends
<1>4. Numbering'
  <2> SUFFICES ASSUME NEW g \in DOMAIN storage', NEW i \in DOMAIN storage'[g]
               PROVE  storage'[g][i].id <= rows'
    BY DEF Numbering
  <2>1. CASE g = f
    <3>1. i \in DOMAIN data /\ order[i] \in DOMAIN storage[item.file]
      BY <1>1, <1>3, <2>1
    <3>2. storage[item.file][order[i]].id <= rows
      BY <1>1, <1>2, <3>1 DEF IdsApart, Numbering
    <3> QED
      BY <1>1, <1>3, <2>1, <3>1, <3>2
  <2>2. CASE g \in DOMAIN storage
    BY <1>1, <2>2 DEF IdsApart, Numbering
  <2> QED
    BY <1>1, <2>1, <2>2
<1>5. Apart(storage, WorkingFiles)
  BY <1>1, IdsApartMeans
<1>6. Apart(storage', WorkingFiles')
  <2>1. f \notin WorkingFiles /\ \A g \in WorkingFiles : storage'[g] = storage[g]
    BY <1>1, <1>2
  <2>2. Descends(storage'[f], storage[item.file])
    BY <1>1
  <2> DEFINE F == WorkingFiles
             st == storage
             new == storage'
             g == item.file
  <2>3. g \in F
    BY <1>1
  <2> HIDE DEF F, st, new, g
  <2>4. Apart(new, (F \cup {f}) \ {g})
    BY <1>5, <2>1, <2>2, <2>3, ApartReplaced DEF F, st, new, g
  <2> QED
    BY <1>1, <2>4 DEF F, new, g
<1>7. \A g \in DOMAIN storage' : Apart(storage', {g})
  <2>1. ASSUME NEW g \in DOMAIN storage PROVE Apart(storage', {g})
    <3>1. Apart(storage, {g})
      BY IdsApartMeans
    <3> QED
      BY <1>1, <3>1, ApartSame
  <2>2. {f} \in SUBSET WorkingFiles'
    BY <1>1, <1>2
  <2>3. Apart(storage', {f})
    BY <1>6, <2>2, ApartSubset
  <2> QED
    BY <1>1, <2>1, <2>3
<1>8. \A t \in Table : \A v \in 0 .. Len(manifests'[t]) :
        Apart(storage', Live(Prefix(manifests'[t], v)))
  BY <1>1, VersionsStayApart
<1> QED
  BY <1>4, <1>6, <1>7, <1>8, IdsApartNext

LEMMA IdsCommit ==
  ASSUME Books, IdsApart, Commit
  PROVE  IdsApart'
<1>1. UNCHANGED <<storage, rows>> /\ table_id \in Table /\ table_id # NoTable /\ table_id' = NoTable
  BY CommitWorking
<1>2. Numbering'
  BY <1>1 DEF IdsApart, Numbering
<1>3. \A f \in DOMAIN storage' : Apart(storage', {f})
  BY <1>1, IdsApartMeans
<1>4. ASSUME NEW t \in Table, NEW v \in 0 .. Len(manifests'[t])
      PROVE  Apart(storage', Live(Prefix(manifests'[t], v)))
  <2>1. \A u \in 0 .. Len(manifests[t]) : Apart(storage', Live(Prefix(manifests[t], u)))
    BY <1>1, IdsApartMeans
  <2>2. CASE manifests' = manifests
    BY <2>1, <2>2
  <2>3. CASE /\ \A u \in Table \ {table_id} : manifests'[u] = manifests[u]
             /\ Len(manifests'[table_id]) = Len(manifests[table_id]) + 1
             /\ \A u \in 0 .. Len(manifests[table_id]) :
                  Prefix(manifests'[table_id], u) = Prefix(manifests[table_id], u)
             /\ Live(Prefix(manifests'[table_id], Len(manifests[table_id]) + 1)) = WorkingFiles
    <3>1. CASE t # table_id
      BY <2>1, <2>3, <3>1
    <3>2. CASE t = table_id
      <4>1. Len(manifests[t]) \in Nat
        BY DEF Books, TypeOK
      <4>2. v \in 0 .. Len(manifests[t]) \/ v = Len(manifests[t]) + 1
        BY <2>3, <3>2, <4>1
      <4>3. Apart(storage', WorkingFiles)
        BY <1>1, IdsApartMeans
      <4> QED
        BY <2>1, <2>3, <3>2, <4>2, <4>3
    <3> QED
      BY <3>1, <3>2
  <2> QED
    BY <2>2, <2>3, CommitWorking
<1> QED
  BY <1>1, <1>2, <1>3, <1>4, IdsApartNext

\* A call that begins or fails, and a step of something else, leave the rows alone.
Quiet == UNCHANGED <<storage, manifests, table_id, manifest, rows>>

LEMMA QuietSteps ==
  /\ InsertCall \/ UpdateCall \/ DeleteCall \/ ReadFails \/ WriteFails \/ UNCHANGED vars => Quiet
  /\ Quiet => WorkingFiles' = WorkingFiles
<1>1. InsertCall \/ UpdateCall \/ DeleteCall => Quiet
  BY DEF InsertCall, UpdateCall, DeleteCall, Call, Quiet
<1>2. ReadFails \/ WriteFails \/ UNCHANGED vars => Quiet
  BY DEF ReadFails, WriteFails, vars, Quiet
<1>3. Quiet => WorkingFiles' = WorkingFiles
  <2> SUFFICES ASSUME Quiet PROVE WorkingFiles' = WorkingFiles
    OBVIOUS
  <2>1. manifests' = manifests /\ table_id' = table_id /\ manifest' = manifest
    BY DEF Quiet
  <2>2. WorkingFiles' = (Live(manifests[table_id]) \cup AddedBy(manifest')) \ DeletedBy(manifest')
    BY <2>1, WorkingAfter
  <2> QED
    BY <2>1, <2>2, WorkingFilesAre
<1> QED
  BY <1>1, <1>2, <1>3

LEMMA IdsNext == Books /\ IdsApart /\ [Next]_vars => IdsApart'
<1> SUFFICES ASSUME Books, IdsApart, [Next]_vars PROVE IdsApart'
  OBVIOUS
<1>1. ASSUME NEW t \in Table, StartTableModification(t) PROVE IdsApart'
  BY <1>1, IdsStart
<1>2. CASE Quiet
  <2>1. UNCHANGED <<storage, manifests, table_id, rows>> /\ WorkingFiles' \subseteq WorkingFiles
    BY <1>2, QuietSteps DEF Quiet
  <2> QED
    BY <2>1, IdsSmaller
<1>3. CASE InsertStep
  BY <1>3, IdsInsert
<1>4. CASE UpdateStep
  <2>1. PICK item \in job.rest, f \in FileHandle, data \in Seq(Row) :
          Rewrite(item, f, data) /\ Descends(data, storage[item.file])
    BY <1>4, UpdateRewrites
  <2>2. job.op \in {"update", "delete"}
    BY <1>4 DEF UpdateStep
  <2> QED
    BY <2>1, <2>2, IdsRewrite
<1>5. CASE DeleteStep
  <2>1. job.op \in {"update", "delete"}
    BY <1>5 DEF DeleteStep
  <2>2. PICK item \in job.rest :
          \/ Drop(item)
          \/ \E f \in FileHandle, data \in Seq(Row) :
               Rewrite(item, f, data) /\ Descends(data, storage[item.file])
    BY <1>5, DeleteRewrites
  <2>3. CASE Drop(item)
    BY <2>1, <2>3, DropWorking, IdsSmaller
  <2>4. ASSUME NEW f \in FileHandle, NEW data \in Seq(Row),
               Rewrite(item, f, data), Descends(data, storage[item.file])
        PROVE  IdsApart'
    BY <2>1, <2>4, IdsRewrite
  <2> QED
    BY <2>2, <2>3, <2>4
<1>6. CASE DeleteChunks
  BY <1>6, ChunksWorking, IdsSmaller
<1>7. CASE Commit
  BY <1>7, IdsCommit
<1> QED
  BY <1>1, <1>2, <1>3, <1>4, <1>5, <1>6, <1>7, QuietSteps DEF Next

LEMMA AlwaysIdsApart == Spec => []IdsApart
<1> QED
  BY IdsInit, IdsNext, AlwaysBooks, PTL DEF Spec

(***************************************************************************)
(* No version of a table, and no modification between two steps of its     *)
(* calls, has a row twice: update and delete (db_engine.rs) retire a file  *)
(* in the step that adds its replacement, and only a file that the         *)
(* modification has not changed before.                                    *)
(***************************************************************************)
THEOREM RowsAreUnique == Spec => []NoRowTwice
<1>1. IdsApart => NoRowTwice
  BY DEF IdsApart
<1> QED
  BY <1>1, AlwaysIdsApart, PTL

-----------------------------------------------------------------------------
(***************************************************************************)
(* Refinement: what VersionedTable sees of the engine.                     *)
(***************************************************************************)
\* The rows of data, and of files.
RowsIn(data) == {data[i] : i \in DOMAIN data}
RowsAt(st, files) == UNION {{st[f][i] : i \in DOMAIN st[f]} : f \in files}
Past(st, ms) == [v \in 1 .. Len(ms) |-> RowsAt(st, Live(Prefix(ms, v)))]
TableHistory == [t \in Table |-> Past(storage, manifests[t])]
WorkingRows == IF table_id = NoTable THEN {} ELSE RowsAt(storage, WorkingFiles)

LEMMA RowIsSomewhere ==
  ASSUME NEW st, NEW F
  PROVE  \A r : r \in RowsAt(st, F) <=> \E f \in F : \E i \in DOMAIN st[f] : r = st[f][i]
BY DEF RowsAt

LEMMA RowsSame ==
  ASSUME NEW st, NEW new, NEW F, \A g \in F : new[g] = st[g]
  PROVE  RowsAt(new, F) = RowsAt(st, F)
<1>1. \A r : r \in RowsAt(new, F) <=> \E f \in F : \E i \in DOMAIN new[f] : r = new[f][i]
  BY RowIsSomewhere
<1>2. \A r : r \in RowsAt(st, F) <=> \E f \in F : \E i \in DOMAIN st[f] : r = st[f][i]
  BY RowIsSomewhere
<1> QED
  BY <1>1, <1>2

\* Rows of files that are apart are told apart by their identities.
LEMMA RowsApart ==
  ASSUME NEW st, NEW F, Apart(st, F),
         NEW r \in RowsAt(st, F), NEW s \in RowsAt(st, F), r.id = s.id
  PROVE  r = s
<1>1. PICK f \in F : \E i \in DOMAIN st[f] : r = st[f][i]
  BY RowIsSomewhere
<1>2. PICK i \in DOMAIN st[f] : r = st[f][i]
  BY <1>1
<1>3. PICK g \in F : \E j \in DOMAIN st[g] : s = st[g][j]
  BY RowIsSomewhere
<1>4. PICK j \in DOMAIN st[g] : s = st[g][j]
  BY <1>3
<1>5. f = g /\ i = j
  BY <1>2, <1>4 DEF Apart
<1> QED
  BY <1>2, <1>4, <1>5

\* A file is written: its rows are added.
LEMMA RowsAdded ==
  ASSUME NEW st, NEW new, NEW F, NEW f, \A h \in F : new[h] = st[h], f \notin F
  PROVE  RowsAt(new, F \cup {f}) = RowsAt(st, F) \cup RowsIn(new[f])
<1>1. \A r : r \in RowsAt(new, F \cup {f}) <=>
        \E h \in F \cup {f} : \E i \in DOMAIN new[h] : r = new[h][i]
  BY RowIsSomewhere
<1>2. \A r : r \in RowsAt(st, F) <=> \E h \in F : \E i \in DOMAIN st[h] : r = st[h][i]
  BY RowIsSomewhere
<1>3. ASSUME NEW r
      PROVE  (\E h \in F \cup {f} : \E i \in DOMAIN new[h] : r = new[h][i]) <=>
             \/ \E h \in F : \E i \in DOMAIN st[h] : r = st[h][i]
             \/ \E i \in DOMAIN new[f] : r = new[f][i]
  <2>1. (\E h \in F \cup {f} : \E i \in DOMAIN new[h] : r = new[h][i]) <=>
          \/ \E h \in F : \E i \in DOMAIN new[h] : r = new[h][i]
          \/ \E i \in DOMAIN new[f] : r = new[f][i]
    OBVIOUS
  <2> QED
    BY <2>1
<1>4. \A r : r \in RowsIn(new[f]) <=> \E i \in DOMAIN new[f] : r = new[f][i]
  BY DEF RowsIn
<1> QED
  BY <1>1, <1>2, <1>3, <1>4

-----------------------------------------------------------------------------
\* The versions that were committed keep their rows, whatever is written.
LEMMA HistoryKept ==
  ASSUME Books, manifests' = manifests, \A g \in DOMAIN storage : storage'[g] = storage[g]
  PROVE  TableHistory' = TableHistory
<1>1. ASSUME NEW t \in Table, NEW v \in 1 .. Len(manifests[t])
      PROVE  RowsAt(storage', Live(Prefix(manifests[t], v))) = RowsAt(storage, Live(Prefix(manifests[t], v)))
  <2>1. v \in 0 .. Len(manifests[t])
    <3>1. Len(manifests[t]) \in Nat
      BY DEF Books, TypeOK
    <3> QED
      BY <3>1
  <2> DEFINE F == Live(Prefix(manifests[t], v))
  <2>2. F \subseteq DOMAIN storage
    BY <2>1, FilesWritten, FilesOfPrefix DEF Books
  <2> HIDE DEF F
  <2>3. RowsAt(storage', F) = RowsAt(storage, F)
    BY <2>2, RowsSame
  <2> QED
    BY <2>3 DEF F
<1>2. ASSUME NEW t \in Table
      PROVE  Past(storage', manifests[t]) = Past(storage, manifests[t])
  BY <1>1 DEF Past
<1>3. TableHistory' = [t \in Table |-> Past(storage', manifests'[t])]
  BY DEF TableHistory, Past, RowsAt, Live, Prefix, AddedBy, DeletedBy
<1> QED
  BY <1>2, <1>3 DEF TableHistory

LEMMA HistoryIs ==
  /\ [t \in Table |-> [v \in 1 .. Len(manifests[t]) |-> RowsOf(Files(t, v))]] = TableHistory
  /\ (IF table_id = NoTable THEN {} ELSE RowsOf(WorkingFiles)) = WorkingRows
<1>1. \A F : RowsOf(F) = RowsAt(storage, F)
  BY DEF RowsOf, RowsAt
<1>2. \A t, v : Files(t, v) = Live(Prefix(manifests[t], v))
  BY FilesOfPrefix
<1>3. \A t \in Table : [v \in 1 .. Len(manifests[t]) |-> RowsOf(Files(t, v))] = Past(storage, manifests[t])
  BY <1>1, <1>2 DEF Past
<1> QED
  BY <1>1, <1>3 DEF TableHistory, WorkingRows

LEMMA CurrentRows ==
  ASSUME TypeOK, NEW t \in Table
  PROVE  History!Current(t) = RowsAt(storage, Live(Prefix(manifests[t], Len(manifests[t]))))
<1> DEFINE ms == manifests[t]
           n == Len(ms)
           past == Past(storage, ms)
<1>1. ms \in Seq(Manifest) /\ n \in Nat
  BY DEF TypeOK
<1>2. TableHistory[t] = past
  BY DEF TableHistory
<1>3. History!Current(t) = IF past = <<>> THEN {} ELSE past[Len(past)]
  BY <1>2, HistoryIs DEF History!Current
<1>4. past = [v \in 1 .. n |-> RowsAt(storage, Live(Prefix(ms, v)))]
  BY DEF Past
<1> HIDE DEF past, n
<1>5. DOMAIN past = 1 .. n /\ Len(past) = n
  <2> DEFINE S == {RowsAt(storage, Live(Prefix(ms, v))) : v \in 1 .. n}
  <2>1. past \in [1 .. n -> S]
    BY <1>4
  <2> HIDE DEF S
  <2>2. past \in Seq(S)
    BY <1>1, <2>1, SeqDef
  <2> QED
    BY <1>1, <2>1, <2>2
<1>6. CASE n = 0
  <2>1. past = <<>>
    BY <1>4, <1>6
  <2>2. ms = <<>>
    BY <1>1, <1>6 DEF n
  <2>3. Prefix(ms, n) = <<>>
    BY <1>6, <2>2 DEF Prefix
  <2>4. Live(<<>>) = {}
    BY DEF Live
  <2>5. RowsAt(storage, {}) = {}
    BY DEF RowsAt
  <2> QED
    BY <1>3, <2>1, <2>3, <2>4, <2>5 DEF n
<1>7. CASE n # 0
  <2>1. n \in 1 .. n
    BY <1>1, <1>7
  <2>2. past # <<>>
    BY <1>5, <2>1
  <2>3. past[n] = RowsAt(storage, Live(Prefix(ms, n)))
    BY <1>4, <2>1
  <2> QED
    BY <1>3, <1>5, <2>2, <2>3 DEF n
<1> QED
  BY <1>6, <1>7

LEMMA HistoryIsNext ==
  (/\ [t \in Table |-> [v \in 1 .. Len(manifests[t]) |-> RowsOf(Files(t, v))]] = TableHistory
   /\ (IF table_id = NoTable THEN {} ELSE RowsOf(WorkingFiles)) = WorkingRows)'
BY HistoryIs, PTL

LEMMA ImplementsInit == Init => History!Init
<1> SUFFICES ASSUME Init PROVE History!Init
  OBVIOUS
<1>1. table_id = NoTable /\ \A t \in Table : manifests[t] = <<>>
  BY DEF Init
<1>2. ASSUME NEW t \in Table PROVE Past(storage, manifests[t]) = <<>>
  BY <1>1 DEF Past
<1>3. TableHistory = [t \in Table |-> <<>>]
  BY <1>2 DEF TableHistory
<1>4. WorkingRows = {}
  BY <1>1 DEF WorkingRows
<1> QED
  BY <1>1, <1>3, <1>4, HistoryIs DEF History!Init

\* A step that changes the rows of the modification alone.
LEMMA ModifyStep ==
  ASSUME TableHistory' = TableHistory, table_id' = table_id, table_id # NoTable,
         \/ WorkingRows \subseteq WorkingRows'
            /\ {r.id : r \in WorkingRows' \ WorkingRows} \cap {r.id : r \in WorkingRows} = {}
         \/ {r.id : r \in WorkingRows'} = {r.id : r \in WorkingRows}
         \/ WorkingRows' \subseteq WorkingRows,
         \A r, s \in WorkingRows' : r.id = s.id => r = s
  PROVE  History!Modify
BY HistoryIs, HistoryIsNext DEF History!Modify, History!Ids

LEMMA StutterStep ==
  ASSUME TableHistory' = TableHistory, table_id' = table_id, WorkingRows' = WorkingRows
  PROVE  UNCHANGED History!vars
BY HistoryIs, HistoryIsNext DEF History!vars

\* The rows of the modification after a step have identities of their own.
LEMMA WorkingRowsNext ==
  ASSUME IdsApart', table_id' # NoTable
  PROVE  /\ WorkingRows' = RowsAt(storage', WorkingFiles')
         /\ \A r, s \in WorkingRows' : r.id = s.id => r = s
<1>1. WorkingRows' = RowsAt(storage', WorkingFiles')
  BY DEF WorkingRows, RowsAt
<1>2. Apart(storage', WorkingFiles')
  BY DEF IdsApart, NoRowTwice, Disjoint, Apart
<1> QED
  BY <1>1, <1>2, RowsApart

LEMMA ImplementsStart ==
  ASSUME Books, NEW t \in Table, StartTableModification(t)
  PROVE  History!Start(t)
<1>1. /\ UNCHANGED <<storage, manifests, rows>> /\ table_id = NoTable /\ table_id' = t
      /\ WorkingFiles' = Live(Prefix(manifests[t], Len(manifests[t])))
  BY StartWorking
<1>2. TableHistory' = TableHistory
  BY <1>1, HistoryKept
<1>3. WorkingRows' = RowsAt(storage', WorkingFiles')
  BY <1>1, NoTableAssumption DEF WorkingRows, RowsAt
<1>4. History!Current(t) = RowsAt(storage, Live(Prefix(manifests[t], Len(manifests[t]))))
  BY CurrentRows DEF Books
<1>5. WorkingRows' = History!Current(t)
  BY <1>1, <1>3, <1>4
<1> QED
  BY <1>1, <1>2, <1>5, HistoryIs, HistoryIsNext DEF History!Start

LEMMA ImplementsQuiet ==
  ASSUME Books, Quiet
  PROVE  UNCHANGED History!vars
<1>1. TableHistory' = TableHistory
  BY HistoryKept DEF Quiet
<1>2. WorkingRows' = WorkingRows
  BY QuietSteps DEF Quiet, WorkingRows, RowsAt
<1> QED
  BY <1>1, <1>2, StutterStep DEF Quiet

\* Files are taken out of the modification.
LEMMA ImplementsSmaller ==
  ASSUME Books, IdsApart', UNCHANGED <<storage, manifests, table_id, rows>>, table_id # NoTable,
         WorkingFiles' \subseteq WorkingFiles
  PROVE  History!Modify
<1>1. TableHistory' = TableHistory
  BY HistoryKept
<1>2. /\ WorkingRows' = RowsAt(storage', WorkingFiles')
      /\ \A r, s \in WorkingRows' : r.id = s.id => r = s
  BY WorkingRowsNext
<1>3. WorkingRows' \subseteq WorkingRows
  <2>1. WorkingRows = RowsAt(storage, WorkingFiles) /\ WorkingRows' = RowsAt(storage, WorkingFiles')
    BY <1>2 DEF WorkingRows
  <2> QED
    BY <2>1 DEF RowsAt
<1> QED
  BY <1>1, <1>2, <1>3, ModifyStep

\* Rows are added, with identities the table has not.
LEMMA ImplementsInsert ==
  ASSUME Books, IdsApart', InsertStep
  PROVE  History!Modify
<1>1. UNCHANGED <<manifests, table_id>> /\ table_id # NoTable
  BY InsertWorking
<1>2. PICK chunk \in Chunk, f \in FileHandle :
        /\ f \notin DOMAIN storage /\ DOMAIN storage' = DOMAIN storage \cup {f}
        /\ \A g \in DOMAIN storage : storage'[g] = storage[g]
        /\ WorkingFiles' = WorkingFiles \cup {f}
  BY InsertWorking
<1>3. WorkingFiles \subseteq DOMAIN storage
  BY <1>1, FilesWritten DEF Books
<1>4. TableHistory' = TableHistory
  BY <1>1, <1>2, HistoryKept
<1>5. /\ WorkingRows' = RowsAt(storage', WorkingFiles')
      /\ \A r, s \in WorkingRows' : r.id = s.id => r = s
  BY <1>1, WorkingRowsNext
<1>6. WorkingRows = RowsAt(storage, WorkingFiles)
  BY <1>1 DEF WorkingRows
<1>7. RowsAt(storage', WorkingFiles \cup {f})
        = RowsAt(storage, WorkingFiles) \cup RowsIn(storage'[f])
  <2> DEFINE F == WorkingFiles
             st == storage
             new == storage'
  <2>1. (\A h \in F : new[h] = st[h]) /\ f \notin F
    BY <1>2, <1>3
  <2> HIDE DEF F, st, new
  <2>2. RowsAt(new, F \cup {f}) = RowsAt(st, F) \cup RowsIn(new[f])
    BY <2>1, RowsAdded
  <2> QED
    BY <2>2 DEF F, st, new
<1>8. WorkingRows \subseteq WorkingRows'
  BY <1>2, <1>5, <1>6, <1>7
<1>9. {r.id : r \in WorkingRows' \ WorkingRows} \cap {r.id : r \in WorkingRows} = {}
  <2> SUFFICES ASSUME NEW r \in WorkingRows' \ WorkingRows, NEW s \in WorkingRows, r.id = s.id
               PROVE  FALSE
    OBVIOUS
  <2>1. s \in WorkingRows'
    BY <1>8
  <2> QED
    BY <1>5, <2>1
<1> QED
  BY <1>1, <1>4, <1>5, <1>8, <1>9, ModifyStep

\* What a rewritten file means for the rows.
LEMMA RewriteRows ==
  ASSUME Books, job.op \in {"update", "delete"}, NEW item \in job.rest,
         NEW f \in FileHandle, NEW data \in Seq(Row), Rewrite(item, f, data), IdsApart'
  PROVE  /\ table_id' = table_id /\ table_id # NoTable /\ TableHistory' = TableHistory
         /\ \A r, s \in WorkingRows' : r.id = s.id => r = s
         /\ WorkingRows = RowsAt(storage, WorkingFiles \ {item.file})
                          \cup RowsIn(storage[item.file])
         /\ WorkingRows' = RowsAt(storage, WorkingFiles \ {item.file})
                           \cup RowsIn(data)
<1>1. /\ UNCHANGED <<manifests, table_id, rows>> /\ table_id # NoTable
      /\ f \notin DOMAIN storage
      /\ \A g \in DOMAIN storage : storage'[g] = storage[g]
      /\ storage'[f] = data
      /\ item.file \in WorkingFiles
      /\ WorkingFiles' = (WorkingFiles \cup {f}) \ {item.file}
  BY RewriteWorking
<1>2. WorkingFiles \subseteq DOMAIN storage
  BY <1>1, FilesWritten DEF Books
<1>3. TableHistory' = TableHistory
  BY <1>1, HistoryKept
<1>4. /\ WorkingRows' = RowsAt(storage', WorkingFiles')
      /\ \A r, s \in WorkingRows' : r.id = s.id => r = s
  BY <1>1, WorkingRowsNext
<1>5. WorkingRows = RowsAt(storage, WorkingFiles)
  BY <1>1 DEF WorkingRows
<1> DEFINE F == WorkingFiles
           st == storage
           new == storage'
           g == item.file
<1>6. /\ \A h \in F : new[h] = st[h]
      /\ f \notin F /\ f # g
  BY <1>1, <1>2
<1>7. g \in F /\ new[f] = data
  BY <1>1
<1> HIDE DEF F, st, new, g
<1>8. RowsAt(new, (F \cup {f}) \ {g}) = RowsAt(st, F \ {g}) \cup RowsIn(new[f])
  <2> DEFINE R == F \ {g}
  <2>1. (\A h \in R : new[h] = st[h]) /\ f \notin R
    BY <1>6
  <2>2. R \cup {f} = (F \cup {f}) \ {g}
    BY <1>6
  <2> HIDE DEF R
  <2>3. RowsAt(new, R \cup {f}) = RowsAt(st, R) \cup RowsIn(new[f])
    BY <2>1, RowsAdded
  <2> QED
    BY <2>2, <2>3 DEF R
<1>9. WorkingRows' = RowsAt(st, F \ {g}) \cup RowsIn(data)
  <2>1. WorkingFiles' = (F \cup {f}) \ {g}
    BY <1>1 DEF F, g
  <2>2. RowsAt(storage', (F \cup {f}) \ {g}) = RowsAt(st, F \ {g}) \cup RowsIn(data)
    BY <1>8, <1>7 DEF new
  <2> QED
    BY <1>4, <2>1, <2>2
<1>10. RowsAt(st, F) = RowsAt(st, F \ {g}) \cup RowsIn(st[g])
  <2>1. RowsAt(st, (F \ {g}) \cup {g}) = RowsAt(st, F \ {g}) \cup RowsIn(st[g])
    BY RowsAdded
  <2>2. (F \ {g}) \cup {g} = F
    BY <1>7
  <2> QED
    BY <2>1, <2>2
<1> QED
  BY <1>1, <1>3, <1>4, <1>5, <1>9, <1>10 DEF F, st, g

\* The rows keep their identities.
LEMMA ImplementsUpdate ==
  ASSUME Books, IdsApart', UpdateStep
  PROVE  History!Modify
<1>1. PICK item \in job.rest, f \in FileHandle, data \in Seq(Row) :
        Rewrite(item, f, data) /\ SameIds(data, storage[item.file])
  BY UpdateRewrites
<1>2. job.op \in {"update", "delete"}
  BY DEF UpdateStep
<1> DEFINE old == storage[item.file]
           others == RowsAt(storage, WorkingFiles \ {item.file})
<1>3. /\ table_id' = table_id /\ table_id # NoTable /\ TableHistory' = TableHistory
      /\ \A r, s \in WorkingRows' : r.id = s.id => r = s
      /\ WorkingRows = others \cup RowsIn(old)
      /\ WorkingRows' = others \cup RowsIn(data)
  BY <1>1, <1>2, RewriteRows
<1>4. DOMAIN data = DOMAIN old /\ \A i \in DOMAIN data : data[i].id = old[i].id
  BY <1>1 DEF SameIds
<1>5. {r.id : r \in WorkingRows'} = {r.id : r \in WorkingRows}
  <2> DEFINE now == WorkingRows'
             was == WorkingRows
  <2>1. now = others \cup RowsIn(data) /\ was = others \cup RowsIn(old)
    BY <1>3
  <2> HIDE DEF now, was, others, old
  <2>2. ASSUME NEW r \in now PROVE \E s \in was : r.id = s.id
    BY <1>4, <2>1 DEF RowsIn, old
  <2>3. ASSUME NEW s \in was PROVE \E r \in now : r.id = s.id
    BY <1>4, <2>1 DEF RowsIn, old
  <2>4. {r.id : r \in now} = {r.id : r \in was}
    BY <2>2, <2>3
  <2> QED
    BY <2>4 DEF now, was
<1> QED
  BY <1>3, <1>5, ModifyStep

\* Rows are removed, with their file or from the file that is written in its place.
LEMMA ImplementsDelete ==
  ASSUME Books, IdsApart', DeleteStep
  PROVE  History!Modify
<1>1. job.op \in {"update", "delete"}
  BY DEF DeleteStep
<1>2. PICK item \in job.rest :
        \/ Drop(item)
        \/ \E f \in FileHandle, data \in Seq(Row) :
             Rewrite(item, f, data) /\ SomeRows(data, storage[item.file])
  BY DeleteRewrites
<1>3. CASE Drop(item)
  BY <1>1, <1>3, DropWorking, ImplementsSmaller
<1>4. ASSUME NEW f \in FileHandle, NEW data \in Seq(Row),
             Rewrite(item, f, data), SomeRows(data, storage[item.file])
      PROVE  History!Modify
  <2> DEFINE old == storage[item.file]
             others == RowsAt(storage, WorkingFiles \ {item.file})
  <2>1. /\ table_id' = table_id /\ table_id # NoTable /\ TableHistory' = TableHistory
        /\ \A r, s \in WorkingRows' : r.id = s.id => r = s
        /\ WorkingRows = others \cup RowsIn(old)
        /\ WorkingRows' = others \cup RowsIn(data)
    BY <1>1, <1>4, RewriteRows
  <2>2. \A i \in DOMAIN data : \E j \in DOMAIN old : data[i] = old[j]
    BY <1>4 DEF SomeRows
  <2>3. WorkingRows' \subseteq WorkingRows
    BY <2>1, <2>2 DEF RowsIn
  <2> QED
    BY <2>1, <2>3, ModifyStep
<1> QED
  BY <1>2, <1>3, <1>4

\* The rows of the modification become a version, or they were the last one.
LEMMA ImplementsCommit ==
  ASSUME Books, Commit
  PROVE  History!Commit
<1>1. UNCHANGED <<storage, rows>> /\ table_id \in Table /\ table_id # NoTable /\ table_id' = NoTable
  BY CommitWorking
<1>2. WorkingRows = RowsAt(storage, WorkingFiles) /\ WorkingRows' = {}
  BY <1>1 DEF WorkingRows
<1>3. manifests[table_id] \in Seq(Manifest) /\ Len(manifests[table_id]) \in Nat
  BY <1>1 DEF Books, TypeOK
<1>4. TableHistory' = [t \in Table |-> Past(storage', manifests'[t])]
  BY DEF TableHistory, Past, RowsAt, Live, Prefix, AddedBy, DeletedBy
<1>5. CASE /\ manifests' = manifests
           /\ WorkingFiles = Live(Prefix(manifests[table_id], Len(manifests[table_id])))
  <2>1. TableHistory' = TableHistory
    BY <1>1, <1>4, <1>5 DEF TableHistory
  <2>2. WorkingRows = History!Current(table_id)
    BY <1>1, <1>2, <1>5, CurrentRows DEF Books
  <2> QED
    BY <1>1, <1>2, <2>1, <2>2, HistoryIs, HistoryIsNext DEF History!Commit
<1>6. CASE /\ \A t \in Table \ {table_id} : manifests'[t] = manifests[t]
           /\ Len(manifests'[table_id]) = Len(manifests[table_id]) + 1
           /\ \A v \in 0 .. Len(manifests[table_id]) :
                Prefix(manifests'[table_id], v) = Prefix(manifests[table_id], v)
           /\ Live(Prefix(manifests'[table_id], Len(manifests[table_id]) + 1)) = WorkingFiles
  <2> DEFINE n == Len(manifests[table_id])
             past == Past(storage, manifests[table_id])
             S == {RowsAt(storage, F) : F \in SUBSET FileHandle}
  <2>1. \A F : Live(F) \in SUBSET FileHandle
    BY DEF Live
  <2>2. past \in [1 .. n -> S]
    BY <2>1 DEF Past
  <2>3. WorkingRows \in S
    BY <1>2, <1>6, <2>1
  <2>4. \A v \in 1 .. n : past[v] = RowsAt(storage, Live(Prefix(manifests[table_id], v)))
    BY DEF Past
  <2> DEFINE now == Past(storage, manifests'[table_id])
  <2>5. now = [v \in 1 .. n + 1 |-> RowsAt(storage, Live(Prefix(manifests'[table_id], v)))]
    BY <1>6 DEF Past
  <2>6. \A v \in 1 .. n : Prefix(manifests'[table_id], v) = Prefix(manifests[table_id], v)
    BY <1>3, <1>6
  <2>7. RowsAt(storage, Live(Prefix(manifests'[table_id], n + 1))) = WorkingRows
    BY <1>2, <1>6
  <2>8. n \in Nat
    BY <1>3
  <2> HIDE DEF now, past, S, n
  <2>9. past \in Seq(S) /\ Len(past) = n
    BY <2>2, <2>8, SeqDef
  <2>10. /\ Append(past, WorkingRows) \in Seq(S) /\ Len(Append(past, WorkingRows)) = n + 1
         /\ \A v \in 1 .. n : Append(past, WorkingRows)[v] = past[v]
         /\ Append(past, WorkingRows)[n + 1] = WorkingRows
    BY <2>3, <2>9, AppendProperties
  <2>11. DOMAIN now = 1 .. n + 1 /\ now[n + 1] = WorkingRows /\ \A v \in 1 .. n : now[v] = past[v]
    BY <2>4, <2>5, <2>6, <2>7, <2>8
  <2>12. now \in Seq(S) /\ Len(now) = n + 1
    <3>1. \A v \in 1 .. n : now[v] \in S
      BY <2>2, <2>11
    <3>2. \A v \in 1 .. n + 1 : v \in 1 .. n \/ v = n + 1
      BY <2>8
    <3>3. \A v \in 1 .. n + 1 : now[v] \in S
      BY <2>3, <2>11, <3>1, <3>2
    <3>4. now \in [1 .. n + 1 -> S]
      BY <2>5, <2>11, <3>3
    <3> QED
      BY <2>8, <3>4, SeqDef
  <2>13. now = Append(past, WorkingRows)
    <3>1. \A v \in 1 .. n + 1 : now[v] = Append(past, WorkingRows)[v]
      <4>1. \A v \in 1 .. n + 1 : v \in 1 .. n \/ v = n + 1
        BY <2>8
      <4> QED
        BY <2>10, <2>11, <4>1
    <3> QED
      BY <2>10, <2>12, <3>1, SeqEqual
  <2>14. TableHistory' = [TableHistory EXCEPT ![table_id] = Append(TableHistory[table_id], WorkingRows)]
    <3>1. TableHistory[table_id] = past
      BY <1>1 DEF TableHistory, past
    <3>2. ASSUME NEW t \in Table, t # table_id
          PROVE  Past(storage', manifests'[t]) = TableHistory[t]
      BY <1>1, <1>6, <3>2 DEF TableHistory
    <3>3. Past(storage', manifests'[table_id]) = Append(past, WorkingRows)
      BY <1>1, <2>13 DEF now
    <3>4. \A t \in Table : Past(storage', manifests'[t])
                           = IF t = table_id THEN Append(past, WorkingRows) ELSE TableHistory[t]
      BY <3>2, <3>3
    <3>5. TableHistory = [t \in Table |-> TableHistory[t]]
      BY DEF TableHistory
    <3> QED
      BY <1>1, <1>4, <3>1, <3>4, <3>5
  <2> QED
    BY <1>1, <1>2, <2>14, HistoryIs, HistoryIsNext DEF History!Commit
<1> QED
  BY <1>5, <1>6, CommitWorking

LEMMA ImplementsNext ==
  Books /\ IdsApart' /\ [Next]_vars => [History!Next]_(History!vars)
<1> SUFFICES ASSUME Books, IdsApart', [Next]_vars PROVE History!Next \/ UNCHANGED History!vars
  OBVIOUS
<1>1. ASSUME NEW t \in Table, StartTableModification(t) PROVE History!Next
  BY <1>1, ImplementsStart DEF History!Next
<1>2. CASE Quiet
  BY <1>2, ImplementsQuiet
<1>3. CASE InsertStep
  BY <1>3, ImplementsInsert DEF History!Next
<1>4. CASE UpdateStep
  BY <1>4, ImplementsUpdate DEF History!Next
<1>5. CASE DeleteStep
  BY <1>5, ImplementsDelete DEF History!Next
<1>6. CASE DeleteChunks
  BY <1>6, ChunksWorking, ImplementsSmaller DEF History!Next
<1>7. CASE Commit
  BY <1>7, ImplementsCommit DEF History!Next
<1> QED
  BY <1>1, <1>2, <1>3, <1>4, <1>5, <1>6, <1>7, QuietSteps DEF Next

(***************************************************************************)
(* The engine implements a table with an immutable history (db_engine.rs   *)
(* and src/iceberg): the files, manifests and rewrites of insert, update   *)
(* and delete are seen as rows that are added, changed or removed in the   *)
(* working copy, an interrupted call as one that did less, and commit as   *)
(* the only step that adds a version.                                      *)
(***************************************************************************)
THEOREM HistoryIsImplemented == Spec => Implements
<1> QED
  BY ImplementsInit, ImplementsNext, AlwaysBooks, AlwaysIdsApart, PTL
     DEF Spec, Implements, History!Spec

=============================================================================
