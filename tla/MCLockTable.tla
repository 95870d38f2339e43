----------------------------- MODULE MCLockTable -----------------------------
(***************************************************************************)
(* Constants for checking LockTable: three transactions that compete for   *)
(* one object.  Objects share nothing but the fact that only one release   *)
(* runs at a time.                                                         *)
(***************************************************************************)
EXTENDS LockTable

CONSTANTS t1, t2, t3, o1

MCTID == {t1, t2, t3}
MCRowID == {o1}

=============================================================================
