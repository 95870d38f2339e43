--------------------------- MODULE SequentialLibrary ---------------------------
(***************************************************************************)
(* The parts of the library that one caller uses by itself, and that share *)
(* nothing: the external sort, the operators of a query plan, those of a   *)
(* columnar one and the bitmap indexes.  A behaviour is one use of one of  *)
(* them; the others stay as they are at first.                             *)
(***************************************************************************)
EXTENDS KWayMerge, VolcanoOperators, ColumnPlans, BitmapIndexes

VARIABLE part \* what is used

library == <<part, sortVars, volcano, columnPlan, bitmaps>>

\* The parts that are not used have one initial state each.
AnySort == sorting = CHOOSE call \in SortCall : TRUE
AnyPlan == plan = "scan" /\ table = CHOOSE lists \in TablePages : TRUE
AnyColumnPlan == root = "filter" /\ files = CHOOSE tables \in TableFiles : TRUE
AnyColumn == column = CHOOSE c \in IndexedColumn : TRUE

Init ==
  /\ part \in {"sort", "plan", "column plan", "index"}
  /\ part = "sort" \/ AnySort
  /\ part = "plan" \/ AnyPlan
  /\ part = "column plan" \/ AnyColumnPlan
  /\ part = "index" \/ AnyColumn
  /\ SortInit /\ VolcanoInit /\ ColumnPlanInit /\ BitmapInit

Next ==
  \/ /\ part = "sort" /\ SortNext
     /\ UNCHANGED <<part, volcano, columnPlan, bitmaps>>
  \/ /\ part = "plan" /\ VolcanoNext
     /\ UNCHANGED <<part, sortVars, columnPlan, bitmaps>>
  \/ /\ part = "column plan" /\ ColumnPlanNext
     /\ UNCHANGED <<part, sortVars, volcano, bitmaps>>
  \/ /\ part = "index" /\ BitmapNext
     /\ UNCHANGED <<part, sortVars, volcano, columnPlan>>

Spec == Init /\ [][Next]_library

=============================================================================
