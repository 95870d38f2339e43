---------------------------- MODULE ColumnOperators ----------------------------
(***************************************************************************)
(* The query operators of columnar-engine (src/engine/operators.rs).  A    *)
(* chunk is a sequence of columns of one length, save that a column that   *)
(* was not projected is empty.  An operator turns the chunks its children  *)
(* return, one after the other, into the chunks it returns.                *)
(***************************************************************************)
EXTENDS Naturals, Sequences, FiniteSets, FiniteSetsExt, SequencesExt

CONSTANT Aggregate(_) \* the AggFunc of an aggregation, of a column

\* The elements of seq at the indices in I, in order.
Picked(seq, I) ==
  LET at == SelectSeq([i \in DOMAIN seq |-> i], LAMBDA i : i \in I)
  IN  [i \in DOMAIN at |-> seq[at[i]]]

\* ColumnTableScan: a column that is not projected is empty.
Project(chunk, sel) == [c \in DOMAIN chunk |-> IF c \in sel THEN chunk[c] ELSE <<>>]

RowsIn(chunk) == 1 .. Max({Len(chunk[c]) : c \in DOMAIN chunk} \cup {0})

Within(v, range) == range.lo <= v /\ v <= range.hi

\* Fault: the last column decides.
Passing_LastColumn(chunk, filters) ==
  {i \in RowsIn(chunk) :
     \A c \in DOMAIN filters :
       (c = Max(DOMAIN filters) /\ i \in DOMAIN chunk[c]) => Within(chunk[c][i], filters[c])}

\* A filter on an empty column removes nothing.
Passing(chunk, filters) ==
  {i \in RowsIn(chunk) :
     \A c \in DOMAIN filters : i \in DOMAIN chunk[c] => Within(chunk[c][i], filters[c])}

ColumnFilter(chunk, filters) ==
  [c \in DOMAIN chunk |-> Picked(chunk[c], Passing(chunk, filters))]

(***************************************************************************)
(* ColumnAggregate: the function of a column of every chunk, and of these  *)
(* results, for the columns in C in ascending order.  No chunk, no row.    *)
(***************************************************************************)
Ascending(C) == Picked([c \in 1 .. Max(C) |-> c], C)

ColumnAggregate(chunks, C) ==
  IF chunks = <<>> THEN <<>>
  ELSE <<[n \in 1 .. Cardinality(C) |->
           <<Aggregate([i \in DOMAIN chunks |-> Aggregate(chunks[i][Ascending(C)[n]])])>>]>>

(***************************************************************************)
(* ColumnEqJoin: the chunks of the left child, of which there is one at    *)
(* least, are put together and indexed by the join column, l.              *)
(***************************************************************************)
Combined(chunks) ==
  [c \in DOMAIN chunks[1] |-> FlattenSeq([i \in DOMAIN chunks |-> chunks[i][c]])]

\* insert replaces: the last row with the value is the one that is found.
HashMap(column) ==
  [v \in ToSet(column) |-> Max({i \in DOMAIN column : column[i] = v})]

\* The left rows that the values of a right column find, one after the other.
Found(map, column) ==
  LET hits == SelectSeq(column, LAMBDA v : v \in DOMAIN map)
  IN  [i \in DOMAIN hits |-> map[hits[i]]]

\* A right chunk with its partners: the columns of the left side come first.
JoinChunk(left, map, chunk, r) ==
  LET found == Found(map, chunk[r])
      hits  == {i \in DOMAIN chunk[r] : chunk[r][i] \in DOMAIN map}
  IN  [c \in DOMAIN left |->
         IF left[c] = <<>> THEN <<>> ELSE [i \in DOMAIN found |-> left[c][found[i]]]]
      \o [c \in DOMAIN chunk |-> Picked(chunk[c], hits)]

ColumnEqJoin(lefts, l, rights, r) ==
  LET left == Combined(lefts)
  IN  [i \in DOMAIN rights |-> JoinChunk(left, HashMap(left[l]), rights[i], r)]

=============================================================================
