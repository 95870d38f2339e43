------------------------------ MODULE OrderedMap ------------------------------
(***************************************************************************)
(* What the unique index of index-and-operators promises, pages left out:  *)
(* a map from keys to record identifiers.  An insert gives one key a value *)
(* and leaves every other key as it is.                                    *)
(***************************************************************************)
CONSTANTS Key, Rid, NoRid

VARIABLE map

Init == map = [k \in Key |-> NoRid]

Insert(k, r) == map' = [map EXCEPT ![k] = r]

Next == \E k \in Key, r \in Rid : Insert(k, r)

Spec == Init /\ [][Next]_map

=============================================================================
