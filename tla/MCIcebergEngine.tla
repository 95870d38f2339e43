--------------------------- MODULE MCIcebergEngine ---------------------------
(***************************************************************************)
(* Constants for checking IcebergEngine and its queries: two tables of two *)
(* columns, strings and numbers, a chunk whose rows span a range in both   *)
(* columns and a chunk of one row.                                         *)
(***************************************************************************)
EXTENDS IcebergQueries, TLC

CONSTANTS sales, items

MCTable == {sales, items}
MCColumn == 1 .. 2
MCColumnType == <<Format!Varchar, Format!UInt32>>
MCValue == 1 .. 2

Rec(x, y) == <<x, y>>

MCChunk == {<<Rec(1, 2), Rec(2, 1)>>, <<Rec(1, 1)>>}
MCChange == {Rec(2, 2)}

MCSymmetry == Permutations(MCTable)

=============================================================================
