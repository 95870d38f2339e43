----------------------------- MODULE RdmaBarrier -----------------------------
(***************************************************************************)
(* The barrier of rdma-shuffle (Shuffle::rdma_barrier in src/shuffle.cpp). *)
(* Every node adds 1 to a counter in the memory of node 0.  Node 0 spins   *)
(* until all have, then writes the number of the phase into a flag of each *)
(* other node, one after the other; the others spin on their flag.  The    *)
(* counter is never reset.                                                 *)
(*                                                                         *)
(* fetch_add is atomic and the flag is a word, so both are steps of their  *)
(* own.  run() does not clear the counter and the flags: they start with   *)
(* whatever the registered memory, a plain malloc, held before.            *)
(***************************************************************************)
EXTENDS Naturals, FiniteSets

CONSTANTS
  N,          \* num_nodes
  InitialWord \* what a word of the registered memory may hold at first

ASSUME NAssumption == N \in Nat \ {0}
ASSUME InitialWordAssumption == InitialWord \subseteq Nat

Node == 0 .. N - 1

VARIABLES
  counter,    \* in the memory of node 0
  ok,         \* per node, the flag
  phase,      \* per node, the barrier it is at or was at last
  at,         \* per node, where in rdma_barrier it is
  unnotified  \* the nodes that node 0 has still to write to

barrierVars == <<counter, ok, phase, at, unnotified>>

BarrierInit ==
  /\ counter \in InitialWord
  /\ ok \in [Node -> InitialWord]
  /\ phase = [n \in Node |-> 0]
  /\ at = [n \in Node |-> "outside"]
  /\ unnotified = {}

\* fetch_add
Arrive(n) ==
  /\ at[n] = "outside"
  /\ counter' = counter + 1
  /\ phase' = [phase EXCEPT ![n] = @ + 1]
  /\ at' = [at EXCEPT ![n] = "waiting"]
  /\ UNCHANGED <<ok, unnotified>>

\* Fault: node 0 waits for one node less.
AllArrived_OneLess == counter + 1 >= N * phase[0]

AllArrived == counter >= N * phase[0]

\* Fault: node 0 resets the counter when it has seen it.
StopSpinning_Reset ==
  /\ at[0] = "waiting"
  /\ AllArrived
  /\ at' = [at EXCEPT ![0] = IF N = 1 THEN "outside" ELSE "notifying"]
  /\ unnotified' = Node \ {0}
  /\ counter' = 0
  /\ UNCHANGED <<ok, phase>>

\* Node 0 has seen the counter.
StopSpinning ==
  /\ at[0] = "waiting"
  /\ AllArrived
  /\ at' = [at EXCEPT ![0] = IF N = 1 THEN "outside" ELSE "notifying"]
  /\ unnotified' = Node \ {0}
  /\ UNCHANGED <<counter, ok, phase>>

Notify(n) ==
  /\ at[0] = "notifying"
  /\ n \in unnotified
  /\ \A m \in unnotified : n <= m
  /\ ok' = [ok EXCEPT ![n] = phase[0]]
  /\ unnotified' = unnotified \ {n}
  /\ at' = [at EXCEPT ![0] = IF unnotified = {n} THEN "outside" ELSE @]
  /\ UNCHANGED <<counter, phase>>

\* Another node has seen its flag.
SeeFlag(n) ==
  /\ n # 0
  /\ at[n] = "waiting"
  /\ ok[n] = phase[n]
  /\ at' = [at EXCEPT ![n] = "outside"]
  /\ UNCHANGED <<counter, ok, phase, unnotified>>

\* A step of node n inside the barrier.
BarrierStep(n) ==
  \/ n = 0 /\ (StopSpinning \/ \E m \in Node : Notify(m))
  \/ SeeFlag(n)

BarrierNext == \E n \in Node : Arrive(n) \/ BarrierStep(n)

\* The barrier on its own: nodes arrive whenever they are outside.
BarrierSpec == BarrierInit /\ [][BarrierNext]_barrierVars

-----------------------------------------------------------------------------

BarrierTypeOK ==
  /\ counter \in Nat
  /\ ok \in [Node -> Nat]
  /\ phase \in [Node -> Nat]
  /\ at \in [Node -> {"outside", "waiting", "notifying"}]
  /\ unnotified \subseteq Node \ {0}

\* The last barrier node n has left.
Left(n) == IF at[n] = "outside" THEN phase[n] ELSE phase[n] - 1

(***************************************************************************)
(* Nobody leaves a barrier before everybody has arrived at it, in any      *)
(* phase, on memory that starts as zeros: the counter that is never reset  *)
(* is enough, and no node can run so far ahead that a flag another still   *)
(* waits for is overwritten.                                               *)
(***************************************************************************)
BarrierSeparates == \A n \in Node, m \in Node : Left(n) <= phase[m]

=============================================================================
