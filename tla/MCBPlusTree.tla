----------------------------- MODULE MCBPlusTree -----------------------------
(***************************************************************************)
(* Constants for checking BPlusTree: keys on both sides of the default     *)
(* key, which is one of them and the one that is inserted with two values. *)
(***************************************************************************)
EXTENDS BPlusTree, TLC

CONSTANTS r1, r2

MCKey == -3 .. 4
MCRid == {r1, r2}
MCRequest == (MCKey \X {r1}) \cup {<<DefaultKey, r2>>}

=============================================================================
