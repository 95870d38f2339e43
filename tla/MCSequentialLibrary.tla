-------------------------- MODULE MCSequentialLibrary --------------------------
(***************************************************************************)
(* Constants for checking SequentialLibrary: all inputs of up to four      *)
(* small pages for a two- and a three-way sort and two longer ones; tables *)
(* with an empty first page, duplicate keys and keys without a partner;    *)
(* column files that a filter empties, with a column that is not read;     *)
(* columns of one and two bytes of rows, whose largest keys have one to    *)
(* three digits.                                                           *)
(***************************************************************************)
EXTENDS SequentialLibrary

SmallPage == {<<1>>, <<0, 2>>, <<2, 1>>}

MCSortCall ==
  [k : 2 .. 3, pages : UNION {[1 .. n -> SmallPage] : n \in 1 .. 4}] \cup
  { [k |-> 2, pages |-> <<<<9>>, <<2>>, <<3, 4>>, <<1>>, <<0, 5>>, <<8>>, <<7>>>>],
    [k |-> 3, pages |-> <<<<5, 4>>, <<1, 7>>, <<3, 4>>, <<9, 2>>, <<8, 2>>, <<6, 5>>, <<0, 0>>, <<1>>>>] }

MCPage == {<<>>, <<1>>, <<2, 1>>, <<3, 2>>}

MCTablePages == {
  [s \in Side |-> IF s = "L" THEN l ELSE r] :
    l \in {<<<<>>>>, <<<<2, 1>>>>, <<<<1>>, <<3, 2>>>>, <<<<>>, <<2, 1>>, <<1>>>>},
    r \in {<<<<>>>>, <<<<1>>>>, <<<<2, 1>>, <<3, 2>>, <<1>>>>, <<<<>>, <<3, 2>>, <<3, 2>>>>} }

Total(seq) == FoldLeft(LAMBDA x, y : x + y, 0, seq)

LeftFile == {<<<<1, 2>>, <<10, 20>>, <<5, 6>>>>, <<<<2, 4>>, <<30, 40>>, <<7, 8>>>>}
RightFile == {<<<<2, 1, 2>>, <<1, 2, 3>>>>, <<<<4>>, <<9>>>>, <<<<3, 4>>, <<2, 2>>>>}

MCTableFiles == {
  [s \in ColumnSide |-> IF s = "left" THEN l ELSE r] :
    l \in UNION {[1 .. n -> LeftFile] : n \in 1 .. 2},
    r \in UNION {[1 .. n -> RightFile] : n \in 0 .. 2} }

MCProjection == [s \in ColumnSide |-> {1, 2}]
MCFilters == [c \in {2} |-> [lo |-> 2, hi |-> 3]]
MCJoinColumn == [s \in ColumnSide |-> 1]

MCIndexedColumn == {
  <<3>>, <<0, 0>>, <<5, 1, 5>>, <<2, 7, 4, 2>>,
  <<6, 1, 3, 3, 0, 9, 5, 2, 2>> }

=============================================================================
