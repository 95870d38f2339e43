--------------------------- MODULE MCBufferManager ---------------------------
(***************************************************************************)
(* Constants for checking BufferManager: two clients that may pin the same *)
(* page and two frames for three pages, so that every third page evicts.   *)
(***************************************************************************)
EXTENDS BufferManager, TLC

CONSTANTS c1, c2, v1, v2

MCClient == {c1, c2}
MCContent == {Blank, v1, v2}

\* Clients and written values are compared for equality only.
MCSymmetry == Permutations(MCClient) \cup Permutations({v1, v2})

=============================================================================
