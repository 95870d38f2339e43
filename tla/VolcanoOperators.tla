--------------------------- MODULE VolcanoOperators ---------------------------
(***************************************************************************)
(* The operators of index-and-operators (src/operator): TableScan,         *)
(* EquiHashJoin and Sort, in the plans scan R, L join R and sort(L join R),*)
(* and a client that opens a plan, draws records until it gets None, and   *)
(* closes and opens it again whenever it likes.                            *)
(*                                                                         *)
(* A call of a child's next() is a step: open of a join draws its left     *)
(* child dry, open of a sort its only child, next of a join draws its      *)
(* right child until a record has a partner.  The buffer pool is external: *)
(* a scan holds one pin at most and gives it back within the call.         *)
(***************************************************************************)
EXTENDS Naturals, Sequences, FiniteSets, FiniteSetsExt, SequencesExt

CONSTANTS
  Page,      \* the pages that exist, sequences of join keys
  TablePages \* the tables that are tried: the page lists of L and R

Side == {"L", "R"}

\* A scan reads slot 0 of the page it enters: an empty page can only be the first.
ASSUME TablePagesAssumption ==
  \A lists \in TablePages : lists \in [Side -> Seq(Page) \ {<<>>}] /\
    \A s \in Side : \A p \in DOMAIN lists[s] : p > 1 => lists[s][p] # <<>>

VARIABLES
  table,      \* per side, the pages of the table
  plan,       \* the root operator
  scan,       \* per side, the fields of the TableScan
  hash_map,   \* of the join: build records by their key
  vec,        \* of the sort
  at,         \* the loop that is running: of join's or sort's open, or of a next
  emitted,    \* records the client has got since it opened the plan
  ended       \* it has got None

volcano == <<table, plan, scan, hash_map, vec, at, emitted, ended>>

\* A record: its side, page, position on the page and key.
Rec(s, p, i) == [side |-> s, page |-> p, index |-> i, key |-> table[s][p][i]]

Closed == [open |-> FALSE, page_index |-> 1, page |-> 1, index |-> 1]

\* open() of a scan; the current page is set with the index.
Opened == [Closed EXCEPT !.open = TRUE]

\* close() leaves the current page as it is.
Closing(s) == [Closed EXCEPT !.page = scan[s].page]

\* What next() of a scan returns: no record or one.
ScanRecord(s) ==
  IF scan[s].index <= Len(table[s][scan[s].page]) THEN {Rec(s, scan[s].page, scan[s].index)}
  ELSE IF scan[s].page_index < Len(table[s]) THEN {Rec(s, scan[s].page_index + 1, 1)}
  ELSE {}

\* And what it leaves behind: after the last record, the start of the last page.
ScanAfter(s) ==
  IF scan[s].index <= Len(table[s][scan[s].page]) THEN [scan[s] EXCEPT !.index = @ + 1]
  ELSE IF scan[s].page_index < Len(table[s])
  THEN [scan[s] EXCEPT !.page_index = @ + 1, !.page = scan[s].page_index + 1, !.index = 2]
  ELSE [scan[s] EXCEPT !.page_index = @ + 1, !.index = 1]

DrawFrom(s) == scan[s].open /\ scan' = [scan EXCEPT ![s] = ScanAfter(s)]

-----------------------------------------------------------------------------

VolcanoInit ==
  /\ table \in TablePages
  /\ plan \in {"scan", "join", "sort"}
  /\ scan = [s \in Side |-> Closed]
  /\ hash_map = <<>>
  /\ vec = <<>>
  /\ at = "client"
  /\ emitted = <<>>
  /\ ended = FALSE

IsOpen == scan["R"].open

\* open() of the root: the scans are opened, and the loops of open begin.
Open ==
  /\ at = "client" /\ ~IsOpen
  /\ IF plan = "scan"
     THEN /\ scan' = [scan EXCEPT !["R"] = Opened]
          /\ UNCHANGED at
     ELSE /\ scan' = [s \in Side |-> Opened]
          /\ at' = "build"
  /\ emitted' = <<>> /\ ended' = FALSE
  /\ UNCHANGED <<table, plan, hash_map, vec>>

\* A later record replaces one of the same key.
Build ==
  /\ at = "build"
  /\ DrawFrom("L")
  /\ hash_map' = [k \in DOMAIN hash_map \cup {r.key : r \in ScanRecord("L")} |->
       IF \E r \in ScanRecord("L") : r.key = k
       THEN CHOOSE r \in ScanRecord("L") : TRUE ELSE hash_map[k]]
  /\ at' = IF ScanRecord("L") # {} THEN "build" ELSE IF plan = "sort" THEN "fill" ELSE "client"
  /\ UNCHANGED <<table, plan, vec, emitted, ended>>

\* The record the client gets, or None.
Emit(records) ==
  /\ emitted' = emitted \o SetToSeq(records)
  /\ ended' = (records = {})

CallNext == at = "client" /\ IsOpen /\ ~ended

NextOfScan ==
  /\ CallNext /\ plan = "scan"
  /\ DrawFrom("R")
  /\ Emit(ScanRecord("R"))
  /\ UNCHANGED <<table, plan, hash_map, vec, at>>

NextOfJoin ==
  /\ CallNext /\ plan = "join"
  /\ at' = "probe"
  /\ UNCHANGED <<table, plan, scan, hash_map, vec, emitted, ended>>

Joined(r) == [left |-> hash_map[r.key], right |-> r]

\* Sort::open sorts, stably, with the arguments of cmp swapped; next takes from the end.
Later(r, q) == r.page > q.page \/ (r.page = q.page /\ r.index > q.index)
ByKey(a, b) ==
  a.right.key > b.right.key \/ (a.right.key = b.right.key /\ Later(b.right, a.right))

\* One round of the loop in next of the join, drawn by the client or by open of the sort.
Probe ==
  /\ at \in {"probe", "fill"}
  /\ DrawFrom("R")
  /\ LET hits == {Joined(r) : r \in {r \in ScanRecord("R") : r.key \in DOMAIN hash_map}}
         none == ScanRecord("R") = {}
     IN  IF at = "probe"
         THEN /\ IF hits # {} \/ none
                 THEN Emit(hits) /\ at' = "client"
                 ELSE UNCHANGED <<emitted, ended, at>>
              /\ UNCHANGED vec
         ELSE /\ vec' = IF none THEN SortSeq(vec, ByKey) ELSE vec \o SetToSeq(hits)
              /\ at' = IF none THEN "client" ELSE "fill"
              /\ UNCHANGED <<emitted, ended>>
  /\ UNCHANGED <<table, plan, hash_map>>

\* pop.
NextOfSort ==
  /\ CallNext /\ plan = "sort"
  /\ IF vec = <<>> THEN Emit({}) ELSE Emit({vec[Len(vec)]})
  /\ vec' = IF vec = <<>> THEN vec ELSE Front(vec)
  /\ UNCHANGED <<table, plan, scan, hash_map, at>>

\* Fault: the records of the sort outlive the plan.
Close_KeepsVec ==
  /\ at = "client" /\ IsOpen
  /\ scan' = [s \in Side |-> IF scan[s].open THEN Closing(s) ELSE scan[s]]
  /\ hash_map' = <<>>
  /\ UNCHANGED <<table, plan, vec, at, emitted, ended>>

Close ==
  /\ at = "client" /\ IsOpen
  /\ scan' = [s \in Side |-> IF scan[s].open THEN Closing(s) ELSE scan[s]]
  /\ hash_map' = <<>> /\ vec' = <<>>
  /\ UNCHANGED <<table, plan, at, emitted, ended>>

VolcanoNext ==
  \/ Open \/ Build \/ Probe
  \/ NextOfScan \/ NextOfJoin \/ NextOfSort
  \/ Close

-----------------------------------------------------------------------------

\* The records of a table, page after page.
TableRecords(s) ==
  FlattenSeq([p \in DOMAIN table[s] |-> [i \in DOMAIN table[s][p] |-> Rec(s, p, i)]])

\* The last left record with the key of r.
PartnerOf(r) ==
  {l \in ToSet(TableRecords("L")) :
     /\ l.key = r.key
     /\ \A m \in ToSet(TableRecords("L")) : m.key = r.key => ~Later(m, l)}

\* The join of the tables, in the order of R.
JoinOf ==
  LET hits == SelectSeq(TableRecords("R"), LAMBDA r : PartnerOf(r) # {})
  IN  [i \in DOMAIN hits |-> [left |-> CHOOSE l \in PartnerOf(hits[i]) : TRUE, right |-> hits[i]]]

(***************************************************************************)
(* From open to the first None a plan emits exactly its result, however    *)
(* often it was opened, left half way and closed before: the records of R  *)
(* in order, those with a partner joined to it, and these in the order of  *)
(* their keys.                                                             *)
(***************************************************************************)
PlanExact ==
  /\ plan = "scan" => IsPrefix(emitted, TableRecords("R")) /\
                      (ended => emitted = TableRecords("R"))
  /\ plan = "join" => IsPrefix(emitted, JoinOf) /\ (ended => emitted = JoinOf)
  /\ plan = "sort" =>
       /\ \A i, j \in DOMAIN emitted :
            i < j => emitted[i] # emitted[j] /\ emitted[i].right.key <= emitted[j].right.key
       /\ ToSet(emitted) \subseteq ToSet(JoinOf)
       /\ ended => ToSet(emitted) = ToSet(JoinOf)

=============================================================================
