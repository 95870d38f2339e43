------------------------------ MODULE MCExchange ------------------------------
(***************************************************************************)
(* Constants for checking Exchange: three peers; one row on the left that  *)
(* matches one of the two on the right, with a negative key.               *)
(***************************************************************************)
EXTENDS Exchange

MCLeftRow == {1}
MCRightRow == {2, 3}
MCKey == [r \in MCLeftRow \cup MCRightRow |-> IF r = 3 THEN 1 ELSE -1]

=============================================================================
