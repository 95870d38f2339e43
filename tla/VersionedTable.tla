---------------------------- MODULE VersionedTable ----------------------------
(***************************************************************************)
(* What the engine of columnar-engine promises, files and manifests left   *)
(* out: every table has a history of versions, each the set of rows the    *)
(* table had, and at most one table is being modified.  A modification     *)
(* works on a copy of the last version and may end by appending the copy   *)
(* to the history.  Versions in the history never change.                  *)
(***************************************************************************)
EXTENDS Naturals, Sequences

CONSTANTS Table, NoTable

VARIABLES
  history,    \* per table, the rows of its versions 1, 2, ...
  open,       \* the table being modified, or NoTable
  working     \* the rows it has in the modification, {} when none is going on

vars == <<history, open, working>>

\* Version 0 is the empty table.
Current(t) == IF history[t] = <<>> THEN {} ELSE history[t][Len(history[t])]

Ids(rows) == {r.id : r \in rows}

Init ==
  /\ history = [t \in Table |-> <<>>]
  /\ open = NoTable
  /\ working = {}

Start(t) ==
  /\ open = NoTable
  /\ open' = t
  /\ working' = Current(t)
  /\ UNCHANGED history

\* Rows are added, or rows are given new values, or rows are removed.
Modify ==
  /\ open # NoTable
  /\ \/ working \subseteq working' /\ Ids(working' \ working) \cap Ids(working) = {}
     \/ Ids(working') = Ids(working)
     \/ working' \subseteq working
  /\ \A r, s \in working' : r.id = s.id => r = s
  /\ UNCHANGED <<history, open>>

Commit ==
  /\ open # NoTable
  /\ \/ history' = [history EXCEPT ![open] = Append(@, working)]
     \/ working = Current(open) /\ UNCHANGED history
  /\ open' = NoTable
  /\ working' = {}

Next == (\E t \in Table : Start(t)) \/ Modify \/ Commit

Spec == Init /\ [][Next]_vars

=============================================================================
