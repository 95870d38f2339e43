------------------------------ MODULE MCShuffle ------------------------------
(***************************************************************************)
(* Constants for checking Shuffle: two nodes with five rows each and four  *)
(* threads, so that one thread starts past the last row.  The rows of node *)
(* 0 belong anywhere; those of node 1 all to itself, or to both in turn.   *)
(***************************************************************************)
EXTENDS Shuffle

MCPlacement ==
  {[n \in Node |-> IF n = 0 THEN d ELSE e] :
     d \in [Index -> Node], e \in {[i \in Index |-> 1], [i \in Index |-> i % 2]}}

=============================================================================
