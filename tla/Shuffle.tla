------------------------------- MODULE Shuffle -------------------------------
(***************************************************************************)
(* Shuffle::run of rdma-shuffle (src/shuffle.cpp): every node counts its   *)
(* rows per destination, scatters them into zones of its registered memory *)
(* with several threads, writes each zone into the memory of its           *)
(* destination with one-sided RDMA writes, and returns its own zone        *)
(* together with what the peers wrote behind it.  Barriers separate the    *)
(* phases.                                                                 *)
(*                                                                         *)
(* Memory is counted in rows.  The input rows, which nothing writes, are   *)
(* left out of it.  A row is named by its node and its index; Config,      *)
(* which maps keys to nodes, is external and any mapping is taken.  The    *)
(* histogram threads share nothing and are no steps here.  An RDMA write is     *)
(* taken at its completion, which the code waits for each time.            *)
(***************************************************************************)
EXTENDS RdmaBarrier, Sequences, Functions

CONSTANTS
  R,        \* num_rows, of each node
  T,        \* number of threads, 4 in the code
  Empty,    \* memory that the run has not written
  Placement \* where the rows may belong: functions from nodes and indices to nodes

Index == 0 .. R - 1
Thread == 0 .. T - 1
RowName == Node \X Index
Slot == R .. 3 * R - 1

ASSUME RAssumption == R \in Nat \ {0}
ASSUME TAssumption == T \in Nat \ {0}
ASSUME EmptyAssumption == Empty \notin RowName
ASSUME PlacementAssumption == Placement \subseteq [Node -> [Index -> Node]]

\* N is 2: transfer_data subtracts node_pos[0] and node_pos[1], and all senders write to one place.

VARIABLES
  dest,           \* the node each row belongs to
  memory,         \* per node, from the first zone on
  transfer_size,  \* per node, the count that a peer writes
  stage,          \* per node, what run() does between two barriers
  next,           \* per node and thread, the next row to scatter
  local_pos,      \* per node and thread, where the next row of each zone goes
  result          \* per node, the rows of the span run() returned

vars == <<barrierVars, dest, memory, transfer_size, stage, next, local_pos, result>>

-----------------------------------------------------------------------------
(***************************************************************************)
(* The arithmetic of histogram and partition_data.                         *)
(***************************************************************************)
\* Fault: the rows that are left over belong to no thread.
RowsPerThread_Floor == R \div T

RowsPerThread == R \div T + (IF R % T # 0 THEN 1 ELSE 0)

Least(a, b) == IF a < b THEN a ELSE b
Start(t) == t * RowsPerThread
End(t) == Least(Start(t) + RowsPerThread, R)

\* Rows of thread t that go to node d.
Histogram(n, t, d) ==
  Cardinality({i \in Index : Start(t) <= i /\ i < End(t) /\ dest[n][i] = d})

NodeTotal(n, d) == SumFunction([t \in Thread |-> Histogram(n, t, d)])

TotalOf(n, nodes) == SumFunctionOnSet([d \in Node |-> NodeTotal(n, d)], nodes)

\* The zones of the other nodes in their order, then the local one.
NodePos(n, d) ==
  R + TotalOf(n, IF d = n THEN Node \ {n} ELSE {m \in Node \ {n} : m < d})

\* Fault: all threads start at the beginning of the zone.
ThreadPos_Same(n, t, d) == NodePos(n, d)

ThreadPos(n, t, d) ==
  NodePos(n, d) + SumFunctionOnSet([u \in Thread |-> Histogram(n, u, d)], 0 .. t - 1)

\* send_bytes / sizeof(Row)
SendRows(n) == IF n = 0 THEN NodePos(0, 0) - NodePos(0, 1) ELSE NodePos(1, 1) - NodePos(1, 0)

-----------------------------------------------------------------------------

Init ==
  /\ BarrierInit
  /\ dest \in Placement
  /\ memory = [n \in Node |-> [k \in Slot |-> Empty]]
  /\ transfer_size \in [Node -> {0, R + 1}]
  /\ stage = [n \in Node |-> "clear"]
  /\ next = [n \in Node |-> [t \in Thread |-> Start(t)]]
  /\ local_pos = [n \in Node |-> [t \in Thread |-> [d \in Node |-> 0]]]
  /\ result = [n \in Node |-> <<>>]

\* Node n is outside of the barriers and about to do s.
About(n, s) == at[n] = "outside" /\ stage[n] = s

Go(n, s) == stage' = [stage EXCEPT ![n] = s]

\* The slot of the count holds anything before.
Clear(n) ==
  /\ About(n, "clear")
  /\ transfer_size' = [transfer_size EXCEPT ![n] = 0]
  /\ Go(n, "connected")
  /\ UNCHANGED <<barrierVars, dest, memory, next, local_pos, result>>

Enter(n) ==
  /\ \/ About(n, "connected") /\ Go(n, "partition")
     \/ About(n, "scattered") /\ Go(n, "transfer")
     \/ About(n, "transferred") /\ Go(n, "return")
  /\ Arrive(n)
  /\ UNCHANGED <<dest, memory, transfer_size, next, local_pos, result>>

Wait(n) ==
  /\ BarrierStep(n)
  /\ UNCHANGED <<dest, memory, transfer_size, stage, next, local_pos, result>>

Partition(n) ==
  /\ About(n, "partition")
  /\ local_pos' = [local_pos EXCEPT ![n] =
       [t \in Thread |-> [d \in Node |-> ThreadPos(n, t, d)]]]
  /\ Go(n, "scatter")
  /\ UNCHANGED <<barrierVars, dest, memory, transfer_size, next, result>>

\* Thread t copies one row.
Scatter(n, t) ==
  /\ About(n, "scatter")
  /\ next[n][t] < End(t)
  /\ LET d == dest[n][next[n][t]] IN
       /\ memory' = [memory EXCEPT ![n][local_pos[n][t][d]] = <<n, next[n][t]>>]
       /\ local_pos' = [local_pos EXCEPT ![n][t][d] = @ + 1]
  /\ next' = [next EXCEPT ![n][t] = @ + 1]
  /\ UNCHANGED <<barrierVars, dest, transfer_size, stage, result>>

\* pool.join()
Join(n) ==
  /\ About(n, "scatter")
  /\ \A t \in Thread : next[n][t] >= End(t)
  /\ Go(n, "scattered")
  /\ UNCHANGED <<barrierVars, dest, memory, transfer_size, next, local_pos, result>>

WriteSize(n, m) ==
  /\ About(n, "transfer")
  /\ m # n
  /\ transfer_size' = [transfer_size EXCEPT ![m] = SendRows(n)]
  /\ Go(n, IF SendRows(n) > 0 THEN "payload" ELSE "transferred")
  /\ UNCHANGED <<barrierVars, dest, memory, next, local_pos, result>>

WritePayload(n, m) ==
  /\ About(n, "payload")
  /\ m # n
  /\ memory' = [memory EXCEPT ![m] =
       [k \in Slot |-> IF k \in 2 * R .. 2 * R + SendRows(n) - 1
                       THEN memory[n][NodePos(n, m) + k - 2 * R] ELSE @[k]]]
  /\ Go(n, "transferred")
  /\ UNCHANGED <<barrierVars, dest, transfer_size, next, local_pos, result>>

\* The span begins with the local zone, which ends where the rows of the peer begin.
Return(n) ==
  /\ About(n, "return")
  /\ LET total == 2 * R - NodePos(n, n) + transfer_size[n] IN
       result' = [result EXCEPT ![n] = [i \in 1 .. total |-> memory[n][NodePos(n, n) + i - 1]]]
  /\ Go(n, "done")
  /\ UNCHANGED <<barrierVars, dest, memory, transfer_size, next, local_pos>>

Main(n) ==
  \/ Clear(n) \/ Enter(n) \/ Wait(n) \/ Partition(n) \/ Join(n) \/ Return(n)
  \/ \E m \in Node : WriteSize(n, m) \/ WritePayload(n, m)

Next == \E n \in Node : Main(n) \/ \E t \in Thread : Scatter(n, t)

\* The processes and their threads are scheduled.
Fairness ==
  \A n \in Node : WF_vars(Main(n)) /\ \A t \in Thread : WF_vars(Scatter(n, t))

Spec == Init /\ [][Next]_vars /\ Fairness

-----------------------------------------------------------------------------

(***************************************************************************)
(* No byte of the zones is written twice: the threads, which take no lock, *)
(* and the peer's write stay out of each other's way whatever the order.   *)
(***************************************************************************)
WrittenOnce ==
  [][\A n \in Node, k \in Slot : memory[n][k] # Empty => memory'[n][k] = memory[n][k]]_vars

(***************************************************************************)
(* A node returns the rows that belong to it, of all nodes, each exactly   *)
(* once: what it reads after the last barrier is all there, local zone and *)
(* incoming rows adjoin, and the count is the one the peer wrote.          *)
(***************************************************************************)
ResultExact ==
  \A n \in Node : stage[n] = "done" =>
    /\ Range(result[n]) = {r \in RowName : dest[r[1]][r[2]] = n}
    /\ IsInjective(result[n])

(***************************************************************************)
(* Every node returns: nobody spins for ever on the counter or on a flag,  *)
(* which a node that is a phase ahead could change under it.               *)
(***************************************************************************)
EveryNodeReturns == <>(\A n \in Node : stage[n] = "done")

=============================================================================
