---------------------------- MODULE Redistribution ----------------------------
(***************************************************************************)
(* What an exchange of distributed-operators promises, messages and        *)
(* threads left out: every peer is owed a set of rows, each of them        *)
(* reaches it exactly once and in any order, and a peer is told that there *)
(* are no more rows only when it is owed none.                             *)
(***************************************************************************)
EXTENDS Naturals, Sequences

CONSTANTS Peer, Row

VARIABLES
  owed,      \* per peer, the rows that have not reached it
  returned,  \* per peer, the rows that have, in order
  ended      \* the peers that were told the end

vars == <<owed, returned, ended>>

Init ==
  /\ owed \in [Peer -> SUBSET Row]
  /\ returned = [p \in Peer |-> <<>>]
  /\ ended = {}

Deliver(p, r) ==
  /\ p \notin ended
  /\ r \in owed[p]
  /\ owed' = [owed EXCEPT ![p] = @ \ {r}]
  /\ returned' = [returned EXCEPT ![p] = Append(@, r)]
  /\ UNCHANGED ended

End(p) ==
  /\ owed[p] = {}
  /\ ended' = ended \cup {p}
  /\ UNCHANGED <<owed, returned>>

Next == \E p \in Peer : End(p) \/ \E r \in Row : Deliver(p, r)

Spec == Init /\ [][Next]_vars

=============================================================================
