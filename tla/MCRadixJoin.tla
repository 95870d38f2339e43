------------------------------ MODULE MCRadixJoin ------------------------------
(***************************************************************************)
(* Constants for checking RadixJoin: three threads, and inputs that need   *)
(* no, one and two bits.  Key 7 stands for UINT64_MAX.  The even keys and  *)
(* 7 collide in every table, and so do 1, 3 and 5, which start at the last *)
(* slot, so that probing wraps around.                                     *)
(***************************************************************************)
EXTENDS RadixJoin

MCHash == [k \in Key |-> IF k \in {1, 3, 5} THEN 31 ELSE 32]

Pair(r, s) == [rel \in Relation |-> IF rel = "R" THEN r ELSE s]

MCInput == {
  Pair(<<>>, <<1, 2>>),
  Pair(<<4>>, <<2, 4, 4>>),
  Pair(<<1, 2, 3>>, <<3, 5, 1, 3>>),
  Pair(<<4, 2, 4, 0>>, <<2, 4, 7, 6, 0>>),
  Pair(<<7, 3, 7, 5>>, <<5, 7, 1, 3>>),
  Pair(<<0, 4, 0, 4>>, <<4, 0>>) }

=============================================================================
