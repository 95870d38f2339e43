------------------------------ MODULE ColumnPlans ------------------------------
(***************************************************************************)
(* The operators of columnar-engine (src/engine/operators.rs) at work: the *)
(* plans filter(scan R), scan L join filter(scan R) and an aggregate of    *)
(* that join, and a client that opens a plan, draws chunks until it gets   *)
(* None, and closes and opens it again whenever it likes.                  *)
(*                                                                         *)
(* open of the join draws its left child dry and next of the aggregate its *)
(* child, a chunk per step.  What they do to a chunk is ColumnOperators'.  *)
(***************************************************************************)
EXTENDS ColumnOperators, TLC

CONSTANTS
  TableFiles,   \* the tables that are tried: per side, the chunks of its files
  Projection,   \* per side, the columns that are read
  Filters,      \* of the filter on R: per column, a range
  JoinColumn,   \* per side
  Aggregated    \* columns of the join

ColumnSide == {"left", "right"}

\* open of the join panics when the left child has no chunk.
ASSUME TableFilesAssumption == \A tables \in TableFiles : tables["left"] # <<>>

VARIABLES
  files,      \* per side, the chunks in the files of the scan
  root,       \* the root operator
  file_index, \* per side, the index of the scan
  plan_open,  \* the root is open, and with it what is below it
  left_data,
  join_map,   \* the hash_map of the join
  drawing,    \* the loop that is running: of open of the join, or of next of the aggregate
  aggregates, \* per aggregated column, the results for the chunks drawn so far
  chunks,     \* what the client has got since it opened the plan
  exhausted   \* it has got None

columnPlan == <<files, root, file_index, plan_open, left_data, join_map,
                drawing, aggregates, chunks, exhausted>>

-----------------------------------------------------------------------------

ColumnPlanInit ==
  /\ files \in TableFiles
  /\ root \in {"filter", "join", "aggregate"}
  /\ file_index = [s \in ColumnSide |-> 0]
  /\ plan_open = FALSE
  /\ left_data = <<>> /\ join_map = <<>>
  /\ drawing = "nothing"
  /\ aggregates = <<>>
  /\ chunks = <<>>
  /\ exhausted = FALSE

\* What next() of a scan returns, no chunk or one, and its index behind the call.
FileChunk(s) ==
  IF file_index[s] < Len(files[s])
  THEN {Project(files[s][file_index[s] + 1], Projection[s])} ELSE {}

NextFile(s) == file_index' = [file_index EXCEPT ![s] = @ + 1]

\* What next() of the filter returns, and of the join.
Filtered == {ColumnFilter(chunk, Filters) : chunk \in FileChunk("right")}

JoinedChunk ==
  {JoinChunk(left_data, join_map, chunk, JoinColumn["right"]) : chunk \in Filtered}

-----------------------------------------------------------------------------

OpenPlan ==
  /\ ~plan_open
  /\ plan_open' = TRUE
  /\ IF root = "filter"
     THEN /\ file_index' = [file_index EXCEPT !["right"] = 0]
          /\ UNCHANGED <<left_data, drawing>>
     ELSE /\ file_index' = [s \in ColumnSide |-> 0]
          /\ left_data' = <<>>
          /\ drawing' = "left"
  /\ chunks' = <<>> /\ exhausted' = FALSE
  /\ UNCHANGED <<files, root, join_map, aggregates>>

\* Fault: a chunk replaces the ones before it.
Appended_Replaces(left, chunk) == chunk

\* The first chunk says how many columns there are.
Appended(left, chunk) ==
  IF left = <<>> THEN chunk ELSE [c \in DOMAIN left |-> left[c] \o chunk[c]]

\* A value that is in the map already gets its new position.
DrawLeft ==
  /\ drawing = "left"
  /\ NextFile("left")
  /\ IF FileChunk("left") # {}
     THEN /\ \E chunk \in FileChunk("left") : left_data' = Appended(left_data, chunk)
          /\ UNCHANGED <<join_map, drawing>>
     ELSE /\ join_map' = HashMap(left_data[JoinColumn["left"]]) @@ join_map
          /\ drawing' = "nothing"
          /\ UNCHANGED left_data
  /\ UNCHANGED <<files, root, plan_open, aggregates, chunks, exhausted>>

CallNextChunk == plan_open /\ drawing = "nothing" /\ ~exhausted

\* The client gets a chunk, or None.
Give(result) ==
  /\ chunks' = chunks \o SetToSeq(result)
  /\ exhausted' = (result = {})

NextChunk ==
  /\ CallNextChunk /\ root # "aggregate"
  /\ NextFile("right")
  /\ Give(IF root = "filter" THEN Filtered ELSE JoinedChunk)
  /\ UNCHANGED <<files, root, plan_open, left_data, join_map, drawing, aggregates>>

\* Without a first chunk there is no row.
BeginAggregate ==
  /\ CallNextChunk /\ root = "aggregate"
  /\ IF FileChunk("right") = {}
     THEN /\ NextFile("right")
          /\ Give({})
          /\ UNCHANGED <<drawing, aggregates>>
     ELSE /\ drawing' = "right"
          /\ aggregates' = [n \in 1 .. Cardinality(Aggregated) |-> <<>>]
          /\ UNCHANGED <<file_index, chunks, exhausted>>
  /\ UNCHANGED <<files, root, plan_open, left_data, join_map>>

\* After the last chunk, the function of the results.
DrawAggregate ==
  /\ drawing = "right"
  /\ NextFile("right")
  /\ IF FileChunk("right") # {}
     THEN /\ \E chunk \in JoinedChunk :
               aggregates' = [n \in DOMAIN aggregates |->
                 Append(aggregates[n], Aggregate(chunk[Ascending(Aggregated)[n]]))]
          /\ UNCHANGED <<drawing, chunks, exhausted>>
     ELSE /\ Give({[n \in DOMAIN aggregates |-> <<Aggregate(aggregates[n])>>]})
          /\ aggregates' = <<>>
          /\ drawing' = "nothing"
  /\ UNCHANGED <<files, root, plan_open, left_data, join_map>>

ClosePlan ==
  /\ plan_open /\ drawing = "nothing"
  /\ plan_open' = FALSE
  /\ file_index' = IF root = "filter" THEN [file_index EXCEPT !["right"] = 0]
                   ELSE [s \in ColumnSide |-> 0]
  /\ left_data' = <<>> /\ join_map' = <<>>
  /\ UNCHANGED <<files, root, drawing, aggregates, chunks, exhausted>>

ColumnPlanNext ==
  \/ OpenPlan \/ DrawLeft
  \/ NextChunk \/ BeginAggregate \/ DrawAggregate
  \/ ClosePlan

-----------------------------------------------------------------------------

AllFiles(s) == [i \in DOMAIN files[s] |-> Project(files[s][i], Projection[s])]
AllFiltered == [i \in DOMAIN files["right"] |-> ColumnFilter(AllFiles("right")[i], Filters)]

\* The chunks the plan owes its client.
Owed ==
  LET joined == ColumnEqJoin(AllFiles("left"), JoinColumn["left"],
                             AllFiltered, JoinColumn["right"])
  IN  CASE root = "filter"    -> AllFiltered
        [] root = "join"      -> joined
        [] root = "aggregate" -> ColumnAggregate(joined, Aggregated)

\* Row i of the columns in C.
RowAt(chunk, C, i) == [c \in C |-> chunk[c][i]]

LeftRows ==
  UNION {{RowAt(chunk, Projection["left"], i) : i \in RowsIn(chunk)} : chunk \in ToSet(files["left"])}

\* Chunk i lines up left and right rows of one join value, all right rows with a partner in order.
Paired(i) ==
  LET l == JoinColumn["left"]
      r == JoinColumn["right"]
      n == Len(files["left"][1])
      partners == {k \in DOMAIN AllFiltered[i][r] :
                     \E row \in LeftRows : row[l] = AllFiltered[i][r][k]}
  IN  /\ SubSeq(chunks[i], n + 1, Len(chunks[i])) =
           [c \in DOMAIN AllFiltered[i] |-> Picked(AllFiltered[i][c], partners)]
      /\ \A c \in 1 .. n :
           Len(chunks[i][c]) = IF c \in Projection["left"] THEN Cardinality(partners) ELSE 0
      /\ \A k \in DOMAIN chunks[i][l] :
           /\ RowAt(chunks[i], Projection["left"], k) \in LeftRows
           /\ chunks[i][l][k] = chunks[i][n + r][k]

\* The chunks an aggregate gives: one of one row, and none without a file on the right.
AggregateRows ==
  /\ \A i \in DOMAIN chunks : \A n \in DOMAIN chunks[i] : Len(chunks[i][n]) = 1
  /\ exhausted => Len(chunks) = IF files["right"] = <<>> THEN 0 ELSE 1

(***************************************************************************)
(* From open to the first None a plan gives its client the chunks it owes, *)
(* in their order, as if every operator saw its whole input at once,       *)
(* however often the plan was opened, left half way and closed before.     *)
(* The join pairs every right row whose value is on the left side with a   *)
(* whole left row of that value, once.                                     *)
(*                                                                         *)
(* An aggregate gives one row over all its chunks, also when a filter has  *)
(* emptied every one of them, but it gives no row when its child has no    *)
(* chunk at all, which is every table without a file: operators.rs:187-189 *)
(* return None there, against "Returns exactly one row" of                 *)
(* operators.rs:180.                                                       *)
(***************************************************************************)
ColumnPlanExact ==
  /\ IsPrefix(chunks, Owed)
  /\ exhausted => chunks = Owed
  /\ root = "join" => \A i \in DOMAIN chunks : Paired(i)
  /\ root = "aggregate" => AggregateRows

=============================================================================
