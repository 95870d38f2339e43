---------------------- MODULE MCMultiGranularityLockTree ----------------------
(***************************************************************************)
(* Constants for checking MultiGranularityLockTree: two top-level tables,  *)
(* one of them with two pages, one of which has a row below it.            *)
(***************************************************************************)
EXTENDS MultiGranularityLockTree, TLC

CONSTANTS t1, t2, t3, table1, table2, page1, page2, row1

MCTID == {t1, t2, t3}
MCTwoTID == {t1, t2}
MCNode == {table1, table2, page1, page2, row1}
MCAbove ==
     table1 :> {} @@ table2 :> {}
  @@ page1 :> {table1} @@ page2 :> {table1}
  @@ row1 :> {table1, page1}

\* Transactions are compared for equality only.
MCSymmetry == Permutations(MCTID)

=============================================================================
