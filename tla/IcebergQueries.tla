---------------------------- MODULE IcebergQueries ----------------------------
(***************************************************************************)
(* Queries over the tables of IcebergEngine: the files of a version that   *)
(* pruning leaves are scanned from their bytes, filtered and aggregated.   *)
(* Nothing here changes a state; the queries run between two               *)
(* modifications.                                                          *)
(***************************************************************************)
EXTENDS IcebergEngine

CONSTANT ColumnType \* the types of the columns, in their order

Format == INSTANCE DataFile

Sum(seq) == Format!FoldLeft(LAMBDA x, y : x + y, 0, seq)

Ops == INSTANCE ColumnOperators WITH Aggregate <- Sum

ASSUME SchemaAssumption == ColumnType \in Seq(Format!TypeID) /\ Column = DOMAIN ColumnType

\* The columns of a sequence of rows.
Columns(data) == [c \in DOMAIN ColumnType |-> [i \in DOMAIN data |-> data[i].rec[c]]]

ReadFile(f) == Format!ToBytes(ColumnType, Columns(storage[f]))

\* Parsing a file gives its columns: ReadsBack, below.
ColumnTableScan(f, sel) == Ops!Project(Columns(storage[f]), sel)

\* The chunks of a scan of the files in F, in some order.
Scan(F, sel) ==
  LET order == Ops!SetToSeq(F) IN [i \in DOMAIN order |-> ColumnTableScan(order[i], sel)]

-----------------------------------------------------------------------------

ValueRange == {r \in [lo : Value, hi : Value] : r.lo <= r.hi}
Predicates == UNION {[C -> ValueRange] : C \in SUBSET Column}

Satisfies(row, pred) ==
  \A c \in DOMAIN pred : pred[c].lo <= row.rec[c] /\ row.rec[c] <= pred[c].hi

\* A file is read back as it was written, whichever of its columns are read.
ReadsBack(f) ==
  /\ Format!Parse(ReadFile(f)) = Columns(storage[f])
  /\ \A sel \in SUBSET Column :
       Format!ParseColumns(ReadFile(f), sel) = Ops!Project(Columns(storage[f]), sel)

\* Of a file of the version, pruning and filtering leave the rows that satisfy the predicates.
FilterExact(t, v, pred) ==
  LET found == ContainsRange(t, pred, v) IN
  /\ found \subseteq Files(t, v)
  /\ \A f \in Files(t, v) :
       LET wanted == SelectSeq(storage[f], LAMBDA row : Satisfies(row, pred)) IN
       IF f \in found
       THEN \A sel \in {DOMAIN pred, Column} :
              Ops!ColumnFilter(ColumnTableScan(f, sel), pred) = Ops!Project(Columns(wanted), sel)
       ELSE wanted = <<>>

\* A sum of the sums per file is the sum of the rows.
AggregateExact(t, v, pred) ==
  LET chunks == Scan(ContainsRange(t, pred, v), Column)
      rowset == {row \in RowsOf(Files(t, v)) : Satisfies(row, pred)}
      row    == Ops!ColumnAggregate([i \in DOMAIN chunks |-> Ops!ColumnFilter(chunks[i], pred)],
                                    Column)
  IN  row # <<>> =>
        row[1] = [c \in DOMAIN ColumnType |->
                    <<Ops!MapThenSumSet(LAMBDA r : r.rec[c], rowset)>>]

(***************************************************************************)
(* A query of a version returns the rows of the version that satisfy its   *)
(* predicates, each once and in their order: pruning leaves out no file    *)
(* with such a row and takes none of another version, a file is read back  *)
(* as it was written, and an aggregate is that of the rows.                *)
(***************************************************************************)
QueryExact ==
  table_id = NoTable =>
    /\ \A f \in DOMAIN storage : ReadsBack(f)
    /\ \A t \in Table : \A v \in 0 .. Len(manifests[t]) : \A pred \in Predicates :
         FilterExact(t, v, pred) /\ AggregateExact(t, v, pred)

=============================================================================
