---------------------------- MODULE ShuffleProofs ----------------------------
(***************************************************************************)
(* The barrier separates the phases, for every number of nodes and phases, *)
(* by itself and in the shuffle, each of whose steps is a step of the      *)
(* barrier or leaves it alone.                                             *)
(*                                                                         *)
(* Within the phases, with two nodes, every row has one slot that is its   *)
(* own: its rank among the rows of its destination, counted from the start *)
(* of the zone, in the memory of its node, and behind the zones in that of *)
(* its destination.  The sums over histograms that the code computes are   *)
(* these ranks, for every number of rows and threads.                      *)
(***************************************************************************)
EXTENDS Shuffle, FiniteSetTheorems, WellFoundedInduction, TLAPS

-----------------------------------------------------------------------------
(***************************************************************************)
(* The barrier.                                                            *)
(*                                                                         *)
(* Opened is the last barrier that node 0 has seen complete.  Every node   *)
(* has arrived at it, no flag is ahead of it and no node is ahead of its   *)
(* flag.  The counter counts tickets, one per node and phase it arrived    *)
(* at.  While node 0 waits at phase P, nobody is past P, so the tickets    *)
(* are among those of N nodes and P phases; N * P of them are all, and     *)
(* everybody is at P.                                                      *)
(***************************************************************************)
Opened == IF at[0] = "waiting" THEN phase[0] - 1 ELSE phase[0]

Tickets == {tk \in Node \X Nat : 1 <= tk[2] /\ tk[2] <= phase[tk[1]]}

IInv ==
  /\ BarrierTypeOK
  /\ IsFiniteSet(Tickets)
  /\ counter = Cardinality(Tickets)
  /\ \A m \in Node : Opened <= phase[m]
  /\ \A n \in Node \ {0} : ok[n] <= Opened /\ Left(n) <= ok[n]

\* Node 0 exists.
LEMMA ZeroIsNode == 0 \in Node
BY NAssumption DEF Node

\* The invariant holds before anybody has arrived.
LEMMA InitEstablishes == ASSUME InitialWord = {0} PROVE BarrierInit => IInv
<1> SUFFICES ASSUME BarrierInit PROVE IInv
  OBVIOUS
<1> USE ZeroIsNode DEF BarrierInit
<1>1. BarrierTypeOK
  BY DEF BarrierTypeOK
<1>2. Tickets = {}
  BY DEF Tickets
<1>3. IsFiniteSet(Tickets) /\ counter = Cardinality(Tickets)
  BY <1>2, FS_EmptySet
<1>4. \A m \in Node : Opened <= phase[m]
  BY DEF Opened
<1>5. \A n \in Node \ {0} : ok[n] <= Opened /\ Left(n) <= ok[n]
  BY DEF Opened, Left
<1> QED
  BY <1>1, <1>3, <1>4, <1>5 DEF IInv

\* Arriving adds one ticket and changes nothing else that the invariant sees.
LEMMA ArriveKeeps == ASSUME IInv, NEW n \in Node, Arrive(n) PROVE IInv'
<1> USE ZeroIsNode DEF IInv, Arrive
<1> DEFINE new == <<n, phase[n] + 1>>
<1>t. BarrierTypeOK
  OBVIOUS
<1>1. BarrierTypeOK'
  BY <1>t DEF BarrierTypeOK
<1>2. Tickets' = Tickets \cup {new} /\ new \notin Tickets
  BY <1>t DEF Tickets, BarrierTypeOK
<1>3. IsFiniteSet(Tickets)' /\ counter' = Cardinality(Tickets)'
  BY <1>2, FS_AddElement
<1>4. Opened' = Opened
  BY <1>t DEF Opened, BarrierTypeOK
<1>5. \A m \in Node : (Opened <= phase[m])'
  BY <1>t, <1>4 DEF BarrierTypeOK, Opened
<1>6. \A m \in Node \ {0} : Left(m)' = Left(m)
  BY <1>t DEF Left, BarrierTypeOK
<1>7. \A m \in Node \ {0} : (ok[m] <= Opened /\ Left(m) <= ok[m])'
  BY <1>4, <1>6
<1> QED
  BY <1>1, <1>3, <1>5, <1>7

\* When node 0 sees the counter at N * P, every node has arrived at phase P.
LEMMA CounterMeansAll ==
  ASSUME IInv, at[0] = "waiting", AllArrived
  PROVE  \A m \in Node : phase[0] <= phase[m]
<1> DEFINE P == phase[0]
<1> DEFINE All == Node \X (1 .. P)
<1> USE ZeroIsNode
<1>1. P \in Nat /\ N \in Nat
  BY NAssumption DEF IInv, BarrierTypeOK
<1>2. \A m \in Node : phase[m] <= P
  BY <1>1 DEF IInv, BarrierTypeOK, Opened, Left
<1>3. Tickets \subseteq All
  BY <1>1, <1>2 DEF Tickets, IInv, BarrierTypeOK
<1>4. IsFiniteSet(Node) /\ Cardinality(Node) = N
  <2>1. 0 \in Int /\ N - 1 \in Int
    BY <1>1
  <2>2. Cardinality(0 .. N - 1) = IF 0 > N - 1 THEN 0 ELSE N - 1 - 0 + 1
    BY <2>1, FS_Interval
  <2>3. IsFiniteSet(0 .. N - 1)
    BY <2>1, FS_Interval
  <2> QED
    BY <1>1, <2>2, <2>3, NAssumption DEF Node
<1>5. IsFiniteSet(1 .. P) /\ Cardinality(1 .. P) = P
  <2>1. 1 \in Int /\ P \in Int
    BY <1>1
  <2>2. Cardinality(1 .. P) = IF 1 > P THEN 0 ELSE P - 1 + 1
    BY <2>1, FS_Interval
  <2>3. IsFiniteSet(1 .. P)
    BY <2>1, FS_Interval
  <2> QED
    BY <1>1, <2>2, <2>3
<1>6. IsFiniteSet(All) /\ Cardinality(All) = N * P
  BY <1>4, <1>5, FS_Product
<1>7. Cardinality(Tickets) >= N * P
  BY DEF IInv, AllArrived
<1>8. Cardinality(Tickets) \in Nat /\ N * P \in Nat
  BY <1>1, FS_CardinalityType DEF IInv
<1>9. Tickets = All
  BY <1>3, <1>6, <1>7, <1>8, FS_Subset
<1>10. ASSUME NEW m \in Node PROVE P <= phase[m]
  <2>1. CASE P = 0
    BY <2>1 DEF IInv, BarrierTypeOK
  <2>2. CASE P # 0
    <3>1. <<m, P>> \in Tickets
      BY <1>1, <1>9, <2>2
    <3> QED
      BY <3>1 DEF Tickets
  <2> QED
    BY <2>1, <2>2
<1> QED
  BY <1>10

LEMMA StopSpinningKeeps == ASSUME IInv, StopSpinning PROVE IInv'
<1> USE ZeroIsNode DEF IInv, StopSpinning
<1>t. BarrierTypeOK
  OBVIOUS
<1>1. BarrierTypeOK'
  BY <1>t DEF BarrierTypeOK
<1>2. Tickets' = Tickets
  BY DEF Tickets
<1>3. \A m \in Node : phase[0] <= phase[m]
  BY CounterMeansAll
<1>4. Opened' = phase[0] /\ Opened <= Opened'
  BY <1>t DEF Opened, BarrierTypeOK
<1>5. \A m \in Node \ {0} : Left(m)' = Left(m)
  BY <1>t DEF Left, BarrierTypeOK
<1>6. Opened \in Int /\ \A m \in Node : ok[m] \in Int /\ Left(m) \in Int
  BY <1>t DEF BarrierTypeOK, Left, Opened
<1>7. \A m \in Node \ {0} : (ok[m] <= Opened /\ Left(m) <= ok[m])'
  BY <1>t, <1>4, <1>5, <1>6 DEF BarrierTypeOK
<1> QED
  BY <1>1, <1>2, <1>3, <1>4, <1>7

LEMMA NotifyKeeps == ASSUME IInv, NEW n \in Node, Notify(n) PROVE IInv'
<1> USE ZeroIsNode DEF IInv, Notify
<1>t. BarrierTypeOK
  OBVIOUS
<1>1. BarrierTypeOK'
  BY <1>t DEF BarrierTypeOK
<1>2. Tickets' = Tickets
  BY DEF Tickets
<1>3. Opened' = Opened /\ Opened = phase[0]
  BY <1>t DEF Opened, BarrierTypeOK
<1>4. \A m \in Node \ {0} : Left(m)' = Left(m) /\ Left(m) \in Int
  BY <1>t DEF Left, BarrierTypeOK
<1>5. \A m \in Node \ {0} : (ok[m] <= Opened /\ Left(m) <= ok[m])'
  BY <1>t, <1>3, <1>4 DEF BarrierTypeOK
<1> QED
  BY <1>1, <1>2, <1>3, <1>5

LEMMA SeeFlagKeeps == ASSUME IInv, NEW n \in Node, SeeFlag(n) PROVE IInv'
<1> USE ZeroIsNode DEF IInv, SeeFlag
<1>t. BarrierTypeOK
  OBVIOUS
<1>1. BarrierTypeOK'
  BY <1>t DEF BarrierTypeOK
<1>2. Tickets' = Tickets
  BY DEF Tickets
<1>3. Opened' = Opened
  BY <1>t DEF Opened, BarrierTypeOK
<1>4. \A m \in Node \ {0} : (ok[m] <= Opened /\ Left(m) <= ok[m])'
  BY <1>t, <1>3 DEF BarrierTypeOK, Left
<1> QED
  BY <1>1, <1>2, <1>3, <1>4

LEMMA StutterKeeps == ASSUME IInv, UNCHANGED barrierVars PROVE IInv'
BY DEF IInv, barrierVars, BarrierTypeOK, Tickets, Opened, Left

\* The invariant is inductive.
LEMMA NextKeeps == IInv /\ [BarrierNext]_barrierVars => IInv'
<1> SUFFICES ASSUME IInv, [BarrierNext]_barrierVars PROVE IInv'
  OBVIOUS
<1>1. ASSUME NEW n \in Node, Arrive(n) PROVE IInv'
  BY <1>1, ArriveKeeps
<1>2. CASE StopSpinning
  BY <1>2, StopSpinningKeeps
<1>3. ASSUME NEW n \in Node, Notify(n) PROVE IInv'
  BY <1>3, NotifyKeeps
<1>4. ASSUME NEW n \in Node, SeeFlag(n) PROVE IInv'
  BY <1>4, SeeFlagKeeps
<1>5. CASE UNCHANGED barrierVars
  BY <1>5, StutterKeeps
<1> QED
  BY <1>1, <1>2, <1>3, <1>4, <1>5 DEF BarrierNext, BarrierStep

\* The invariant says what the barrier is for.
LEMMA InvSeparates == IInv => BarrierSeparates
<1> SUFFICES ASSUME IInv, NEW n \in Node, NEW m \in Node PROVE Left(n) <= phase[m]
  BY DEF BarrierSeparates
<1> USE ZeroIsNode DEF IInv, BarrierTypeOK
<1>1. Left(0) <= Opened
  BY DEF Left, Opened
<1>2. Opened <= phase[m] /\ Opened \in Int /\ phase[m] \in Int
  BY DEF Opened
<1>3. Left(n) \in Int
  BY DEF Left
<1>4. CASE n = 0
  BY <1>1, <1>2, <1>3, <1>4
<1>5. CASE n # 0
  <2>1. Left(n) <= ok[n] /\ ok[n] <= Opened /\ ok[n] \in Int
    BY <1>5
  <2> QED
    BY <2>1, <1>2, <1>3
<1> QED
  BY <1>4, <1>5

(***************************************************************************)
(* Nobody leaves rdma_barrier before everybody has arrived, for every      *)
(* number of nodes and phases, when the memory starts as zeros.            *)
(***************************************************************************)
THEOREM PhasesSeparated ==
  ASSUME InitialWord = {0}
  PROVE  BarrierSpec => []BarrierSeparates
<1>1. BarrierInit => IInv
  BY InitEstablishes
<1>2. IInv /\ [BarrierNext]_barrierVars => IInv'
  BY NextKeeps
<1>3. IInv => BarrierSeparates
  BY InvSeparates
<1> QED
  BY <1>1, <1>2, <1>3, PTL DEF BarrierSpec

-----------------------------------------------------------------------------
(***************************************************************************)
(* A sum of counts is a count.                                             *)
(***************************************************************************)

\* A set of numbers has a least one.
LEMMA LeastNumber ==
  ASSUME NEW S \in SUBSET Nat, S # {}
  PROVE  \E x \in S : \A y \in S : x <= y
<1>1. PICK x \in S : \A y \in S : ~(<<y, x>> \in OpToRel(<, Nat))
  BY WFMin, NatLessThanWellFounded
<1>2. \A y \in S : ~(y < x)
  BY <1>1, Zenon DEF OpToRel
<1> QED
  BY <1>2

\* The members of A that c gives to a member of Q.
Shared(A, c, Q) == {a \in A : c[a] \in Q}

\* Taking one share away takes its members away.
LEMMA ShareCounts ==
  ASSUME NEW A, IsFiniteSet(A), NEW c, NEW Q, NEW x \in Q
  PROVE  /\ Cardinality(Shared(A, c, Q)) \in Nat
         /\ Cardinality(Shared(A, c, Q)) =
              Cardinality(Shared(A, c, {x})) + Cardinality(Shared(A, c, Q \ {x}))
<1> DEFINE X == Shared(A, c, {x})
           Y == Shared(A, c, Q \ {x})
<1>1. \A P : Shared(A, c, P) \in SUBSET A
  BY DEF Shared
<1>2. \A P : IsFiniteSet(Shared(A, c, P))
  <2> TAKE P
  <2>1. Shared(A, c, P) \in SUBSET A
    BY <1>1
  <2> QED
    BY <2>1, FS_Subset
<1>3. Shared(A, c, Q) = X \cup Y /\ X \cap Y = {}
  BY DEF Shared
<1>4. Cardinality(X \cup Y) = Cardinality(X) + Cardinality(Y) - Cardinality(X \cap Y)
  BY <1>2, FS_Union
<1>5. Cardinality(X) \in Nat /\ Cardinality(Y) \in Nat /\ Cardinality(Shared(A, c, Q)) \in Nat
  BY <1>2, FS_CardinalityType
<1>6. Cardinality({}) = 0
  BY FS_EmptySet
<1> HIDE DEF X, Y
<1>7. Cardinality(Shared(A, c, Q)) = Cardinality(X \cup Y) /\ Cardinality(X \cap Y) = 0
  BY <1>3, <1>6
<1>8. Cardinality(Shared(A, c, Q)) = Cardinality(X) + Cardinality(Y)
  BY <1>4, <1>5, <1>7
<1> QED
  BY <1>5, <1>8 DEF X, Y

\* What the fold of the community module computes on the subsets of Q.
SumOver(f, Q) ==
  CHOOSE iter : iter = [s \in SUBSET Q |->
    IF s = {} THEN 0 ELSE f[CHOOSE x \in s : TRUE] + iter[s \ {CHOOSE x \in s : TRUE}]]

LEMMA SumIsFold == ASSUME NEW f, NEW Q PROVE SumFunctionOnSet(f, Q) = SumOver(f, Q)[Q]
BY DEF SumFunctionOnSet, FoldFunctionOnSet, MapThenFoldSet, SumOver

\* If f counts the share of each, the sum over Q counts the share of Q.
LEMMA SumOfCounts ==
  ASSUME NEW A, IsFiniteSet(A), NEW c, NEW Q, IsFiniteSet(Q), NEW f,
         \A q \in Q : f[q] = Cardinality(Shared(A, c, {q}))
  PROVE  SumFunctionOnSet(f, Q) = Cardinality(Shared(A, c, Q))
<1> DEFINE some(s) == CHOOSE x \in s : TRUE
           count == [s \in SUBSET Q |-> Cardinality(Shared(A, c, s))]
           Sums(g) == g = [s \in SUBSET Q |->
             IF s = {} THEN 0 ELSE f[some(s)] + g[s \ {some(s)}]]
           iter == SumOver(f, Q)
<1>1. \A s \in SUBSET Q : s # {} => some(s) \in s
  OBVIOUS
<1>2. Cardinality(Shared(A, c, {})) = 0
  <2>1. Shared(A, c, {}) = {}
    BY DEF Shared
  <2> QED
    BY <2>1, FS_EmptySet
<1>3. \A s \in SUBSET Q : s # {} =>
        Cardinality(Shared(A, c, s)) = f[some(s)] + Cardinality(Shared(A, c, s \ {some(s)}))
  <2> SUFFICES ASSUME NEW s \in SUBSET Q, s # {}
               PROVE  Cardinality(Shared(A, c, s)) =
                        f[some(s)] + Cardinality(Shared(A, c, s \ {some(s)}))
    OBVIOUS
  <2>1. some(s) \in s /\ some(s) \in Q
    BY <1>1
  <2> HIDE DEF some
  <2>2. Cardinality(Shared(A, c, s)) =
          Cardinality(Shared(A, c, {some(s)})) + Cardinality(Shared(A, c, s \ {some(s)}))
    BY <2>1, ShareCounts
  <2>3. f[some(s)] = Cardinality(Shared(A, c, {some(s)}))
    BY <2>1
  <2> QED
    BY <2>2, <2>3
<1>4. Sums(count)
  <2>1. \A s \in SUBSET Q :
          count[s] = IF s = {} THEN 0 ELSE f[some(s)] + count[s \ {some(s)}]
    <3> SUFFICES ASSUME NEW s \in SUBSET Q
                 PROVE  count[s] = IF s = {} THEN 0 ELSE f[some(s)] + count[s \ {some(s)}]
      OBVIOUS
    <3>1. CASE s = {}
      BY <3>1, <1>2
    <3>2. CASE s # {}
      <4>1. count[s \ {some(s)}] = Cardinality(Shared(A, c, s \ {some(s)}))
        OBVIOUS
      <4> QED
        BY <3>2, <4>1, <1>3
    <3> QED
      BY <3>1, <3>2
  <2> QED
    BY <2>1, Zenon
<1>5. Sums(iter)
  BY <1>4 DEF SumOver
<1> HIDE DEF iter, some
<1>6. \A s \in SUBSET Q : iter[s] = IF s = {} THEN 0 ELSE f[some(s)] + iter[s \ {some(s)}]
  BY <1>5
<1>7. \A s \in SUBSET Q : IsFiniteSet(s) /\ Cardinality(s) \in Nat
  BY FS_Subset, FS_CardinalityType
<1>8. \A s \in SUBSET Q : iter[s] = Cardinality(Shared(A, c, s))
  <2> DEFINE Wrong == {s \in SUBSET Q : iter[s] # Cardinality(Shared(A, c, s))}
             Sizes == {Cardinality(s) : s \in Wrong}
  <2> SUFFICES ASSUME Wrong # {} PROVE FALSE
    OBVIOUS
  <2>1. Sizes \in SUBSET Nat /\ Sizes # {}
    BY <1>7
  <2>2. PICK k \in Sizes : \A j \in Sizes : k <= j
    BY <2>1, LeastNumber
  <2>3. PICK s \in Wrong : Cardinality(s) = k
    BY <2>2
  <2>4. s # {}
    BY <2>3, <1>6, <1>2
  <2>5. s \ {some(s)} \in SUBSET Q /\ some(s) \in s
    BY <1>1, <2>4
  <2>6. Cardinality(s \ {some(s)}) = k - 1 /\ k \in Nat
    BY <2>3, <2>5, <1>7, FS_RemoveElement
  <2>7. s \ {some(s)} \notin Wrong
    BY <2>6, <2>2
  <2>8. iter[s \ {some(s)}] = Cardinality(Shared(A, c, s \ {some(s)}))
    BY <2>7, <2>5
  <2> QED
    BY <2>8, <2>4, <2>3, <1>6, <1>3
<1> QED
  BY <1>8, SumIsFold DEF iter


-----------------------------------------------------------------------------
(***************************************************************************)
(* Counting the rows of a node, in the order of the input.  D maps the     *)
(* rows of one node to where they belong.                                  *)
(***************************************************************************)

\* The rows before row k that belong to d, and how many they are.
Before(D, d, k) == {i \in Index : i < k /\ D[i] = d}
Rank(D, d, k) == Cardinality(Before(D, d, k))

LEMMA IndexIsFinite == IsFiniteSet(Index) /\ Cardinality(Index) = R
<1>1. R - 1 \in Int /\ 0 \in Int
  BY RAssumption
<1>2. /\ IsFiniteSet(0 .. (R - 1))
      /\ Cardinality(0 .. (R - 1)) = IF 0 > R - 1 THEN 0 ELSE (R - 1) - 0 + 1
  BY <1>1, FS_Interval
<1> QED
  BY <1>2, RAssumption DEF Index

LEMMA RankType ==
  ASSUME NEW D, NEW d, NEW k
  PROVE  IsFiniteSet(Before(D, d, k)) /\ Rank(D, d, k) \in Nat
<1>1. Before(D, d, k) \in SUBSET Index
  BY DEF Before
<1> QED
  BY <1>1, IndexIsFinite, FS_Subset, FS_CardinalityType DEF Rank

LEMMA RankOfNone == ASSUME NEW D, NEW d PROVE Rank(D, d, 0) = 0
<1>1. Before(D, d, 0) = {}
  BY RAssumption DEF Before, Index
<1> QED
  BY <1>1, FS_EmptySet DEF Rank

LEMMA RankStep ==
  ASSUME NEW D, NEW d, NEW i \in Index
  PROVE  Rank(D, d, i + 1) = IF D[i] = d THEN Rank(D, d, i) + 1 ELSE Rank(D, d, i)
<1>1. Before(D, d, i + 1) = IF D[i] = d THEN Before(D, d, i) \cup {i} ELSE Before(D, d, i)
  BY RAssumption DEF Before, Index
<1>2. i \notin Before(D, d, i)
  BY RAssumption DEF Before, Index
<1>3. IsFiniteSet(Before(D, d, i))
  BY RankType
<1>4. Cardinality(Before(D, d, i) \cup {i}) = Cardinality(Before(D, d, i)) + 1
  BY <1>2, <1>3, FS_AddElement
<1> QED
  BY <1>1, <1>4 DEF Rank

LEMMA RankGrows ==
  ASSUME NEW D, NEW d, NEW j \in Nat, NEW k \in Nat, j <= k
  PROVE  Rank(D, d, j) <= Rank(D, d, k)
<1>1. Before(D, d, j) \in SUBSET Before(D, d, k)
  BY RAssumption DEF Before, Index
<1> QED
  BY <1>1, RankType, FS_Subset DEF Rank

LEMMA RankRises ==
  ASSUME NEW D, NEW i \in Index, NEW k \in Nat, i < k
  PROVE  Rank(D, D[i], i) < Rank(D, D[i], k)
<1>1. i \in Nat /\ i + 1 \in Nat /\ i + 1 <= k
  BY RAssumption DEF Index
<1>2. Rank(D, D[i], i + 1) <= Rank(D, D[i], k)
  BY <1>1, RankGrows
<1>3. Rank(D, D[i], i + 1) = Rank(D, D[i], i) + 1
  BY RankStep
<1>4. Rank(D, D[i], i) \in Nat /\ Rank(D, D[i], k) \in Nat
  BY RankType
<1> QED
  BY <1>2, <1>3, <1>4

\* Rows of one destination have different ranks.
LEMMA RankTellsApart ==
  ASSUME NEW D, NEW i \in Index, NEW j \in Index, D[i] = D[j],
         Rank(D, D[i], i) = Rank(D, D[j], j)
  PROVE  i = j
<1>1. i \in Nat /\ j \in Nat
  BY RAssumption DEF Index
<1>2. Rank(D, D[i], i) \in Nat
  BY RankType
<1>3. ASSUME i < j PROVE FALSE
  BY <1>1, <1>2, <1>3, RankRises
<1>4. ASSUME j < i PROVE FALSE
  BY <1>1, <1>2, <1>4, RankRises
<1> QED
  BY <1>1, <1>3, <1>4

\* Every number below the count is the rank of one of the rows.
LEMMA RankIsTaken ==
  ASSUME NEW D, NEW d, NEW x \in Nat, x < Rank(D, d, R)
  PROVE  \E i \in Index : D[i] = d /\ Rank(D, d, i) = x
<1> DEFINE B == Before(D, d, R)
           n == Rank(D, d, R)
           rank == [i \in B |-> Rank(D, d, i)]
<1>1. n \in Nat /\ IsFiniteSet(B) /\ Cardinality(B) = n
  BY RankType DEF Rank
<1>2. IsFiniteSet(0 .. (n - 1)) /\ Cardinality(0 .. (n - 1)) = n
  <2> HIDE DEF n
  <2>1. n - 1 \in Int /\ 0 \in Int
    BY <1>1
  <2>2. /\ IsFiniteSet(0 .. (n - 1))
        /\ Cardinality(0 .. (n - 1)) = IF 0 > n - 1 THEN 0 ELSE (n - 1) - 0 + 1
    BY <2>1, FS_Interval
  <2> QED
    BY <2>2, <1>1
<1>3. \A i \in B : i \in Index /\ D[i] = d /\ i < R
  BY DEF Before
<1>4. \A i \in B : Rank(D, d, i) \in 0 .. (n - 1)
  <2> TAKE i \in B
  <2>1. i \in Index /\ D[i] = d /\ i < R
    BY <1>3
  <2>2. Rank(D, D[i], i) < Rank(D, D[i], R)
    BY <2>1, RAssumption, RankRises
  <2>3. Rank(D, d, i) \in Nat
    BY RankType
  <2> QED
    BY <2>1, <2>2, <2>3, <1>1
<1>5. \A i, j \in B : Rank(D, d, i) = Rank(D, d, j) => i = j
  BY <1>3, RankTellsApart
<1>6. rank \in Injection(B, 0 .. (n - 1))
  <2> HIDE DEF B, n
  <2>1. rank \in [B -> 0 .. (n - 1)]
    BY <1>4
  <2>2. \A i, j \in B : rank[i] = rank[j] => i = j
    BY <1>5
  <2> QED
    BY <2>1, <2>2 DEF Injection, IsInjective
<1>7. rank \in Surjection(B, 0 .. (n - 1))
  <2> HIDE DEF B, n, rank
  <2> QED
    BY <1>6, <1>1, <1>2, FS_Injection
<1>8. \E i \in B : rank[i] = x
  <2>1. x \in 0 .. (n - 1)
    BY <1>1
  <2> HIDE DEF B, n, rank
  <2> QED
    BY <2>1, <1>7 DEF Surjection
<1> QED
  BY <1>8, <1>3

-----------------------------------------------------------------------------
(***************************************************************************)
(* The arithmetic of histogram and partition_data: the slices of the       *)
(* threads divide the rows, and the sums over threads and nodes are ranks. *)
(***************************************************************************)

LEMMA Products ==
  ASSUME NEW a \in Nat, NEW b \in Nat, NEW q \in Nat
  PROVE  /\ a * q \in Nat
         /\ (a + 1) * q = a * q + q
         /\ a < b => a * q + q <= b * q
<1>1. a * q \in Nat /\ (a + 1) * q = a * q + q
  BY SMT
<1>2. ASSUME a < b PROVE a * q + q <= b * q
  <2>1. PICK c \in Nat : b = a + 1 + c
    <3>1. b - (a + 1) \in Nat /\ b = a + 1 + (b - (a + 1))
      BY <1>2
    <3> QED
      BY <3>1
  <2>2. b * q = a * q + q + c * q /\ c * q \in Nat
    BY <2>1
  <2> QED
    BY <2>2, <1>1
<1> QED
  BY <1>1, <1>2

LEMMA SliceSize == RowsPerThread \in Nat \ {0} /\ R <= T * RowsPerThread
<1> DEFINE q == R \div T
           r == R % T
<1>1. /\ q \in Nat /\ r \in Nat
      /\ R = T * q + r /\ r < T
  BY RAssumption, TAssumption
<1> HIDE DEF q, r
<1>2. CASE r = 0
  <2>1. RowsPerThread = q
    BY <1>1, <1>2 DEF RowsPerThread, q, r
  <2>2. q # 0
    BY <1>1, <1>2, RAssumption, TAssumption
  <2>3. T * q \in Nat /\ R = T * q
    BY <1>1, <1>2, RAssumption, TAssumption
  <2>4. RowsPerThread \in Nat \ {0}
    BY <1>1, <2>1, <2>2
  <2>5. R <= T * q
    BY <2>3
  <2> QED
    BY <2>1, <2>4, <2>5
<1>3. CASE r # 0
  <2>1. RowsPerThread = q + 1
    BY <1>1, <1>3 DEF RowsPerThread, q, r
  <2>2. T * (q + 1) = T * q + T
    BY <1>1, TAssumption
  <2> QED
    BY <1>1, <2>1, <2>2, RAssumption, TAssumption
<1> QED
  BY <1>2, <1>3

\* The thread a row is given to.
Owner(i) == i \div RowsPerThread

LEMMA Slices ==
  /\ \A t \in Thread : Start(t) \in Nat /\ End(t) \in Nat /\ End(t) <= R
  /\ \A t \in Thread : Start(t) < R => Start(t) < End(t)
  /\ \A i \in Index : Owner(i) \in Thread
  /\ \A i \in Index, t \in Nat : Start(t) \in Nat /\ (Owner(i) < t <=> i < Start(t))
  /\ \A i \in Index, t \in Thread : Owner(i) = t <=> Start(t) <= i /\ i < End(t)
<1> DEFINE q == RowsPerThread
<1>q. q \in Nat \ {0} /\ R <= T * q
  BY SliceSize
<1> HIDE DEF q
<1>0. \A t \in Nat : Start(t) = t * q /\ Start(t) \in Nat /\ End(t) = Least(t * q + q, R)
  BY <1>q DEF Start, End, q
<1>t. \A t \in Thread : t \in Nat /\ t < T
  BY TAssumption DEF Thread
<1>i. \A i \in Index : i \in Nat /\ i < R
  BY RAssumption DEF Index
<1>1. \A t \in Thread : Start(t) \in Nat /\ End(t) \in Nat /\ End(t) <= R
  BY <1>q, <1>0, <1>t, RAssumption DEF Least
<1>2. \A t \in Thread : Start(t) < R => Start(t) < End(t)
  <2> TAKE t \in Thread
  <2>1. Start(t) \in Nat /\ End(t) = Least(Start(t) + q, R)
    BY <1>0, <1>t
  <2> QED
    BY <2>1, <1>q, RAssumption DEF Least
<1>3. \A i \in Index : Owner(i) \in Nat /\ Owner(i) * q <= i /\ i < Owner(i) * q + q
  <2> TAKE i \in Index
  <2>1. i \in Nat
    BY <1>i
  <2> DEFINE o == i \div q
             r == i % q
  <2>2. o \in Int /\ r \in Nat /\ r < q /\ i = q * o + r
    BY <2>1, <1>q
  <2>3. Owner(i) = o
    BY DEF Owner, q
  <2> HIDE DEF o, r
  <2>4. q * o = o * q /\ o * q \in Int
    BY <1>q, <2>2
  <2>5. o * q <= i /\ i < o * q + q
    BY <2>1, <2>2, <2>4, <1>q
  <2>6. o \in Nat
    <3> SUFFICES ASSUME o < 0 PROVE FALSE
      BY <2>2
    <3>1. (o + 1) * q <= 0
      BY <2>2, <1>q
    <3>2. (o + 1) * q = o * q + q
      BY <2>2, <1>q
    <3> QED
      BY <3>1, <3>2, <2>4, <2>5, <2>1, <1>q
  <2> QED
    BY <2>3, <2>5, <2>6
<1>4. \A i \in Index, t \in Nat : Start(t) \in Nat /\ (Owner(i) < t <=> i < Start(t))
  <2> TAKE i \in Index, t \in Nat
  <2> DEFINE o == Owner(i)
  <2>1. o \in Nat /\ o * q <= i /\ i < o * q + q /\ i \in Nat /\ Start(t) = t * q /\ Start(t) \in Nat
    BY <1>3, <1>i, <1>0
  <2> HIDE DEF o
  <2>2. o * q \in Nat /\ t * q \in Nat /\ (o < t => o * q + q <= t * q) /\ (t < o => t * q + q <= o * q)
    BY <2>1, <1>q, Products
  <2>3. t = o => t * q = o * q
    OBVIOUS
  <2>4. o < t \/ t < o \/ t = o
    BY <2>1
  <2>5. o < t <=> i < Start(t)
    BY <2>1, <2>2, <2>3, <2>4, <1>q
  <2> QED
    BY <2>1, <2>5 DEF o
<1>5. \A i \in Index : Owner(i) \in Thread
  <2> TAKE i \in Index
  <2>1. Owner(i) < T <=> i < Start(T)
    BY <1>4, TAssumption
  <2>2. Start(T) = T * q /\ Start(T) \in Nat
    BY <1>0, TAssumption
  <2>3. i < Start(T)
    BY <2>2, <1>q, <1>i, RAssumption
  <2> QED
    BY <2>1, <2>3, <1>3, TAssumption DEF Thread
<1>6. \A i \in Index, t \in Thread : Owner(i) = t <=> Start(t) <= i /\ i < End(t)
  <2> TAKE i \in Index, t \in Thread
  <2>1. t \in Nat /\ t + 1 \in Nat /\ i \in Nat /\ i < R /\ Owner(i) \in Nat
    BY <1>t, <1>i, <1>3
  <2>2. /\ Owner(i) < t <=> i < Start(t)
        /\ Owner(i) < t + 1 <=> i < Start(t + 1)
    BY <2>1, <1>4
  <2>3. Start(t + 1) = Start(t) + q /\ Start(t) \in Nat
    BY <2>1, <1>0, <1>q, Products
  <2>4. End(t) = Least(Start(t) + q, R)
    BY <2>1, <1>0
  <2>5. i < End(t) <=> i < Start(t + 1)
    BY <2>1, <2>3, <2>4, <1>q, RAssumption DEF Least
  <2> QED
    BY <2>1, <2>2, <2>3, <2>5
<1> QED
  BY <1>1, <1>2, <1>4, <1>5, <1>6

LEMMA IntervalsAreFinite == \A t \in Nat : IsFiniteSet(0 .. t - 1)
<1> TAKE t \in Nat
<1>1. 0 \in Int /\ t - 1 \in Int
  OBVIOUS
<1> QED
  BY <1>1, FS_Interval

\* What the histograms of some threads add up to.
LEMMA HistogramsAddUp ==
  ASSUME NEW n \in Node, NEW d \in Node, NEW Q \in SUBSET Thread, IsFiniteSet(Q)
  PROVE  SumFunctionOnSet([u \in Thread |-> Histogram(n, u, d)], Q) =
           Cardinality({i \in Index : Owner(i) \in Q /\ dest[n][i] = d})
<1> DEFINE A == {i \in Index : dest[n][i] = d}
           c == [i \in Index |-> Owner(i)]
           f == [u \in Thread |-> Histogram(n, u, d)]
<1>1. IsFiniteSet(A)
  <2>1. A \in SUBSET Index
    OBVIOUS
  <2> QED
    BY <2>1, IndexIsFinite, FS_Subset
<1>2. \A u \in Q : f[u] = Cardinality(Shared(A, c, {u}))
  <2> TAKE u \in Q
  <2>1. Shared(A, c, {u}) = {i \in Index : Start(u) <= i /\ i < End(u) /\ dest[n][i] = d}
    BY Slices DEF Shared
  <2>2. f[u] = Histogram(n, u, d)
    OBVIOUS
  <2> QED
    BY <2>1, <2>2 DEF Histogram
<1>3. Shared(A, c, Q) = {i \in Index : Owner(i) \in Q /\ dest[n][i] = d}
  BY DEF Shared
<1>4. SumFunctionOnSet(f, Q) = Cardinality(Shared(A, c, Q))
  <2> HIDE DEF A, c, f
  <2> QED
    BY <1>1, <1>2, SumOfCounts
<1> QED
  BY <1>3, <1>4

\* Before its slice, as many rows of a destination as the threads before it have.
LEMMA ThreadPosIs ==
  ASSUME NEW n \in Node, NEW d \in Node, NEW t \in Thread
  PROVE  ThreadPos(n, t, d) = NodePos(n, d) + Rank(dest[n], d, Start(t))
<1> DEFINE Q == 0 .. t - 1
<1>1. t \in Nat /\ Q \in SUBSET Thread /\ IsFiniteSet(Q)
  BY TAssumption, IntervalsAreFinite DEF Thread
<1>2. SumFunctionOnSet([u \in Thread |-> Histogram(n, u, d)], Q) =
        Cardinality({i \in Index : Owner(i) \in Q /\ dest[n][i] = d})
  <2> HIDE DEF Q
  <2> QED
    BY <1>1, HistogramsAddUp
<1>3. \A i \in Index : Owner(i) \in Q <=> i < Start(t)
  <2> TAKE i \in Index
  <2>1. Owner(i) \in Nat
    BY Slices, TAssumption DEF Thread
  <2>2. Owner(i) < t <=> i < Start(t)
    BY <1>1, Slices
  <2>3. Owner(i) \in Q <=> Owner(i) < t
    BY <1>1, <2>1
  <2> QED
    BY <2>2, <2>3
<1>4. {i \in Index : Owner(i) \in Q /\ dest[n][i] = d} = Before(dest[n], d, Start(t))
  <2> HIDE DEF Q
  <2> QED
    BY <1>3 DEF Before
<1> QED
  BY <1>2, <1>4 DEF ThreadPos, Rank

LEMMA NodeTotalIs ==
  ASSUME NEW n \in Node, NEW d \in Node
  PROVE  NodeTotal(n, d) = Rank(dest[n], d, R)
<1>1. IsFiniteSet(Thread)
  BY TAssumption, IntervalsAreFinite DEF Thread
<1>2. SumFunctionOnSet([u \in Thread |-> Histogram(n, u, d)], Thread) =
        Cardinality({i \in Index : Owner(i) \in Thread /\ dest[n][i] = d})
  BY <1>1, HistogramsAddUp
<1>3. {i \in Index : Owner(i) \in Thread /\ dest[n][i] = d} = Before(dest[n], d, R)
  BY Slices, RAssumption DEF Before, Index
<1> QED
  BY <1>2, <1>3 DEF NodeTotal, SumFunction, Rank

\* What the totals of some nodes add up to.
LEMMA TotalsAddUp ==
  ASSUME NEW n \in Node, NEW Q \in SUBSET Node, IsFiniteSet(Q)
  PROVE  TotalOf(n, Q) = Cardinality({i \in Index : dest[n][i] \in Q})
<1> DEFINE D == dest[n]
           f == [d \in Node |-> NodeTotal(n, d)]
<1>1. \A d \in Q : f[d] = Cardinality(Shared(Index, D, {d}))
  <2> TAKE d \in Q
  <2>1. Shared(Index, D, {d}) = Before(D, d, R)
    BY RAssumption DEF Shared, Before, Index
  <2>2. f[d] = Rank(D, d, R)
    BY NodeTotalIs
  <2> QED
    BY <2>1, <2>2 DEF Rank
<1>2. Shared(Index, D, Q) = {i \in Index : D[i] \in Q}
  BY DEF Shared
<1>3. SumFunctionOnSet(f, Q) = Cardinality(Shared(Index, D, Q))
  <2> HIDE DEF D, f
  <2> QED
    BY <1>1, IndexIsFinite, SumOfCounts
<1> QED
  BY <1>2, <1>3 DEF TotalOf

-----------------------------------------------------------------------------
(***************************************************************************)
(* The zones of a node with one peer: first the rows for the peer, then    *)
(* its own.                                                                *)
(***************************************************************************)

Other(n) == 1 - n

LEMMA Peers ==
  ASSUME N = 2
  PROVE  /\ Node = {0, 1}
         /\ \A n \in Node : Other(n) \in Node /\ Other(n) # n /\ Other(Other(n)) = n
         /\ \A n \in Node : Node \ {n} = {Other(n)}
         /\ \A n, m \in Node : m # n => m = Other(n)
<1>1. Node = {0, 1}
  BY DEF Node
<1> QED
  BY <1>1 DEF Other

\* The rows of a node that leave it, and the first slot of each of its zones.
Leaving(D, n) == Rank(D, Other(n), R)
Zone(D, n, d) == IF d = n THEN R + Leaving(D, n) ELSE R

LEMMA RowsAddUp ==
  ASSUME N = 2, NEW n \in Node, NEW D \in [Index -> Node]
  PROVE  /\ Leaving(D, n) \in Nat
         /\ Rank(D, n, R) \in Nat
         /\ Rank(D, n, R) + Leaving(D, n) = R
<1> DEFINE A == Before(D, n, R)
           B == Before(D, Other(n), R)
<1>1. A \cup B = Index /\ A \cap B = {}
  BY Peers, RAssumption DEF Before, Index
<1>2. IsFiniteSet(A) /\ IsFiniteSet(B) /\ Rank(D, n, R) \in Nat /\ Leaving(D, n) \in Nat
  BY RankType DEF Leaving
<1> HIDE DEF A, B
<1>3. Cardinality(A \cup B) = Cardinality(A) + Cardinality(B) - Cardinality(A \cap B)
  BY <1>2, FS_Union
<1>4. Cardinality(A \cup B) = R /\ Cardinality(A \cap B) = 0
  BY <1>1, IndexIsFinite, FS_EmptySet
<1>5. Cardinality(A) = Rank(D, n, R) /\ Cardinality(B) = Leaving(D, n)
  BY DEF A, B, Rank, Leaving
<1>6. R = Rank(D, n, R) + Leaving(D, n) - 0
  BY <1>3, <1>4, <1>5
<1> QED
  BY <1>2, <1>6

LEMMA ZoneType ==
  ASSUME N = 2, NEW n \in Node, NEW D \in [Index -> Node]
  PROVE  \A d \in Node : Zone(D, n, d) \in Nat
BY RowsAddUp, RAssumption DEF Zone

\* The offsets the code computes are the zones, and it sends what leaves.
LEMMA Offsets ==
  ASSUME N = 2, dest \in [Node -> [Index -> Node]], NEW n \in Node
  PROVE  /\ \A d \in Node : NodePos(n, d) = Zone(dest[n], n, d)
         /\ SendRows(n) = Leaving(dest[n], n)
<1> DEFINE o == Other(n)
<1>1. TotalOf(n, {o}) = Leaving(dest[n], n)
  <2>1. {o} \in SUBSET Node /\ IsFiniteSet({o})
    BY Peers, FS_Singleton
  <2>2. TotalOf(n, {o}) = Cardinality({i \in Index : dest[n][i] \in {o}})
    <3> HIDE DEF o
    <3> QED
      BY <2>1, TotalsAddUp
  <2>3. {i \in Index : dest[n][i] \in {o}} = Before(dest[n], o, R)
    BY RAssumption DEF Before, Index
  <2> QED
    BY <2>2, <2>3 DEF Leaving, Rank
<1>2. TotalOf(n, {}) = 0
  <2>1. {} \in SUBSET Node /\ IsFiniteSet({})
    BY FS_EmptySet
  <2>2. TotalOf(n, {}) = Cardinality({i \in Index : dest[n][i] \in {}})
    BY <2>1, TotalsAddUp
  <2>3. {i \in Index : dest[n][i] \in {}} = {}
    OBVIOUS
  <2> QED
    BY <2>2, <2>3, FS_EmptySet
<1>3. NodePos(n, n) = R + Leaving(dest[n], n)
  <2>1. Node \ {n} = {o}
    BY Peers
  <2> QED
    BY <1>1, <2>1 DEF NodePos
<1>4. NodePos(n, o) = R
  <2>1. {m \in Node \ {n} : m < o} = {} /\ o # n
    BY Peers
  <2>2. NodePos(n, o) = R + TotalOf(n, {m \in Node \ {n} : m < o})
    BY <2>1 DEF NodePos
  <2>3. NodePos(n, o) = R + TotalOf(n, {})
    BY <2>1, <2>2
  <2> QED
    BY <1>2, <2>3, RAssumption
<1>5. \A d \in Node : NodePos(n, d) = Zone(dest[n], n, d)
  BY <1>3, <1>4, Peers DEF Zone
<1>6. Leaving(dest[n], n) \in Nat
  BY RowsAddUp
<1>7. SendRows(n) = NodePos(n, n) - NodePos(n, o)
  BY Peers DEF SendRows, Other
<1>8. SendRows(n) = Leaving(dest[n], n)
  BY <1>3, <1>4, <1>6, <1>7, RAssumption
<1> QED
  BY <1>5, <1>8

\* The slot of a row in the zones of its own node, and the one it arrives in at the peer.
HomeSlot(D, n, i) == Zone(D, n, D[i]) + Rank(D, D[i], i)
AwaySlot(D, i) == 2 * R + Rank(D, D[i], i)

LEMMA RankBelowTotal ==
  ASSUME NEW D, NEW i \in Index
  PROVE  Rank(D, D[i], i) \in Nat /\ Rank(D, D[i], i) < Rank(D, D[i], R)
<1>1. i < R /\ R \in Nat
  BY RAssumption DEF Index
<1> QED
  BY <1>1, RankType, RankRises

LEMMA HomeSlots ==
  ASSUME N = 2, NEW n \in Node, NEW D \in [Index -> Node]
  PROVE  /\ \A i \in Index : HomeSlot(D, n, i) \in R .. (2 * R - 1)
         /\ \A i, j \in Index : HomeSlot(D, n, i) = HomeSlot(D, n, j) => i = j
<1> DEFINE L == Leaving(D, n)
           M == Rank(D, n, R)
           rank(i) == Rank(D, D[i], i)
<1>1. L \in Nat /\ M \in Nat /\ M + L = R /\ R \in Nat
  BY RowsAddUp, RAssumption
<1>2. \A i \in Index : D[i] = n => /\ rank(i) \in Nat /\ rank(i) < M
                                   /\ HomeSlot(D, n, i) = R + L + rank(i)
  BY RankBelowTotal DEF HomeSlot, Zone
<1>3. \A i \in Index : D[i] # n => /\ rank(i) \in Nat /\ rank(i) < L
                                   /\ HomeSlot(D, n, i) = R + rank(i)
  <2> TAKE i \in Index
  <2> HAVE D[i] # n
  <2>1. D[i] = Other(n)
    BY Peers
  <2>2. rank(i) \in Nat /\ rank(i) < Rank(D, D[i], R)
    BY RankBelowTotal
  <2>3. HomeSlot(D, n, i) = R + rank(i)
    BY <2>1, Peers DEF HomeSlot, Zone
  <2> QED
    BY <2>1, <2>2, <2>3 DEF Leaving
<1>4. \A i, j \in Index : D[i] = D[j] /\ rank(i) = rank(j) => i = j
  BY RankTellsApart
<1> HIDE DEF L, M, rank
<1>5. \A i \in Index : HomeSlot(D, n, i) \in R .. (2 * R - 1)
  <2> TAKE i \in Index
  <2>1. CASE D[i] = n
    BY <1>1, <1>2, <2>1
  <2>2. CASE D[i] # n
    BY <1>1, <1>3, <2>2
  <2> QED
    BY <2>1, <2>2
<1>6. \A i, j \in Index : HomeSlot(D, n, i) = HomeSlot(D, n, j) => i = j
  <2> TAKE i, j \in Index
  <2> HAVE HomeSlot(D, n, i) = HomeSlot(D, n, j)
  <2>1. CASE D[i] = n /\ D[j] = n
    <3>1. rank(i) = rank(j)
      BY <1>1, <1>2, <2>1
    <3> QED
      BY <3>1, <2>1, <1>4
  <2>2. CASE D[i] # n /\ D[j] # n
    <3>1. rank(i) = rank(j)
      BY <1>1, <1>3, <2>2
    <3>2. D[i] = D[j]
      BY <2>2, Peers
    <3> QED
      BY <3>1, <3>2, <1>4
  <2>3. CASE D[i] = n /\ D[j] # n
    BY <1>1, <1>2, <1>3, <2>3
  <2>4. CASE D[i] # n /\ D[j] = n
    BY <1>1, <1>2, <1>3, <2>4
  <2> QED
    BY <2>1, <2>2, <2>3, <2>4
<1> QED
  BY <1>5, <1>6

LEMMA AwaySlots ==
  ASSUME N = 2, NEW n \in Node, NEW D \in [Index -> Node], NEW i \in Index, D[i] # n
  PROVE  /\ Leaving(D, n) \in Nat /\ Leaving(D, n) <= R
         /\ AwaySlot(D, i) \in (2 * R) .. (2 * R + Leaving(D, n) - 1)
         /\ AwaySlot(D, i) \in (2 * R) .. (3 * R - 1)
         /\ AwaySlot(D, i) - 2 * R = Rank(D, D[i], i)
<1>1. Leaving(D, n) \in Nat /\ Leaving(D, n) <= R /\ R \in Nat
  BY RowsAddUp, RAssumption
<1>2. D[i] = Other(n)
  BY Peers
<1>3. Rank(D, D[i], i) \in Nat /\ Rank(D, D[i], i) < Leaving(D, n)
  BY <1>2, RankBelowTotal DEF Leaving
<1> HIDE DEF Leaving
<1> QED
  BY <1>1, <1>3 DEF AwaySlot

-----------------------------------------------------------------------------
(***************************************************************************)
(* The invariant.                                                          *)
(***************************************************************************)

Stages == {"clear", "connected", "partition", "scatter", "scattered", "transfer",
           "payload", "transferred", "return", "done"}

ShuffleTypes ==
  /\ dest \in [Node -> [Index -> Node]]
  /\ memory \in [Node -> [Slot -> RowName \cup {Empty}]]
  /\ transfer_size \in [Node -> Nat]
  /\ stage \in [Node -> Stages]
  /\ next \in [Node -> [Thread -> Nat]]
  /\ local_pos \in [Node -> [Thread -> [Node -> Nat]]]
  /\ result \in [Node -> Seq(RowName \cup {Empty})]

\* What a node does follows from the barriers it has arrived at.
PhaseOf(s) ==
  IF s \in {"clear", "connected"} THEN 0
  ELSE IF s \in {"partition", "scatter", "scattered"} THEN 1
  ELSE IF s \in {"transfer", "payload", "transferred"} THEN 2 ELSE 3

InStep ==
  \A n \in Node :
    /\ phase[n] = PhaseOf(stage[n])
    /\ at[n] # "outside" => stage[n] \in {"partition", "transfer", "return"}

\* Before and after a node scatters.
Early == {"clear", "connected", "partition"}
Late == {"scattered", "transfer", "payload", "transferred", "return", "done"}

\* The rows a thread has copied are the first ones of its slice.
Copied(nx, t, i) == Start(t) <= i /\ i < nx[t]

ThreadsInSlices ==
  \A n \in Node, t \in Thread :
    /\ Start(t) <= next[n][t] /\ (next[n][t] <= End(t) \/ next[n][t] = Start(t))
    /\ stage[n] \in Early => next[n][t] = Start(t)
    /\ stage[n] \in Late => next[n][t] >= End(t)
    /\ stage[n] = "scatter" =>
         \A d \in Node :
           local_pos[n][t][d] = Zone(dest[n], n, d) + Rank(dest[n], d, next[n][t])

\* The zones of a node hold exactly the rows its threads have copied, each at its slot.
HomeRows ==
  \A n \in Node, t \in Thread, i \in Index :
    Owner(i) = t =>
      memory[n][HomeSlot(dest[n], n, i)] = IF Copied(next[n], t, i) THEN <<n, i>> ELSE Empty

Sized == {"payload", "transferred", "return", "done"}
Sent == {"transferred", "return", "done"}

\* Behind them nothing, until the peer has sent its rows: then all of them.
AwayRows ==
  \A n \in Node :
    /\ stage[n] \notin Sent =>
         \A k \in (2 * R) .. (3 * R - 1) : memory[Other(n)][k] = Empty
    /\ stage[n] \in Sent =>
         \A i \in Index : dest[n][i] # n =>
           memory[Other(n)][AwaySlot(dest[n], i)] = <<n, i>>
    /\ stage[n] \in Sized => transfer_size[Other(n)] = Leaving(dest[n], n)

DataInv ==
  ShuffleTypes /\ InStep /\ ThreadsInSlices /\ HomeRows /\ AwayRows /\ ResultExact

\* A step that moves no data and keeps every node in its part of the run.
LEMMA StageKeeps ==
  ASSUME DataInv, InStep', stage' \in [Node -> Stages],
         UNCHANGED <<dest, memory, transfer_size, next, local_pos, result>>,
         \A n \in Node :
           /\ stage'[n] \in Early => stage[n] \in Early
           /\ stage'[n] = "scatter" => stage[n] = "scatter"
           /\ stage'[n] \in Late =>
                stage[n] \in Late \/ \A t \in Thread : next[n][t] >= End(t)
           /\ stage'[n] \in Sent <=> stage[n] \in Sent
           /\ stage'[n] \in Sized => stage[n] \in Sized
           /\ stage'[n] = "done" => stage[n] = "done"
  PROVE  DataInv'
<1> USE DEF DataInv
<1>1. ShuffleTypes'
  BY DEF ShuffleTypes
<1>2. ThreadsInSlices'
  BY DEF ThreadsInSlices, Early, Late
<1>3. HomeRows'
  BY DEF HomeRows, Copied
<1>4. AwayRows'
  BY DEF AwayRows
<1>5. ResultExact'
  BY DEF ResultExact
<1> QED
  BY <1>1, <1>2, <1>3, <1>4, <1>5

LEMMA InitHolds == ASSUME N = 2 PROVE Init => DataInv
<1> SUFFICES ASSUME Init PROVE DataInv
  OBVIOUS
<1> USE DEF Init
<1>0. dest \in [Node -> [Index -> Node]]
  BY PlacementAssumption
<1>1. ShuffleTypes
  <2>1. memory \in [Node -> [Slot -> RowName \cup {Empty}]]
    OBVIOUS
  <2>2. transfer_size \in [Node -> Nat]
    BY RAssumption
  <2>3. stage \in [Node -> Stages]
    BY DEF Stages
  <2>4. next \in [Node -> [Thread -> Nat]]
    BY Slices
  <2>5. local_pos \in [Node -> [Thread -> [Node -> Nat]]]
    OBVIOUS
  <2>6. result \in [Node -> Seq(RowName \cup {Empty})]
    OBVIOUS
  <2> QED
    BY <1>0, <2>1, <2>2, <2>3, <2>4, <2>5, <2>6 DEF ShuffleTypes
<1>2. InStep
  BY DEF InStep, PhaseOf, BarrierInit
<1>3. ThreadsInSlices
  BY Slices DEF ThreadsInSlices, Early, Late
<1>4. HomeRows
  <2> SUFFICES ASSUME NEW n \in Node, NEW t \in Thread, NEW i \in Index, Owner(i) = t
               PROVE  memory[n][HomeSlot(dest[n], n, i)] =
                        IF Copied(next[n], t, i) THEN <<n, i>> ELSE Empty
    BY DEF HomeRows
  <2>1. ~Copied(next[n], t, i)
    BY Slices, RAssumption DEF Copied, Index
  <2>2. HomeSlot(dest[n], n, i) \in Slot
    <3>1. HomeSlot(dest[n], n, i) \in R .. (2 * R - 1)
      BY <1>0, HomeSlots
    <3> QED
      BY <3>1, RAssumption DEF Slot
  <2> QED
    BY <2>1, <2>2
<1>5. AwayRows
  <2> SUFFICES ASSUME NEW n \in Node, NEW k \in (2 * R) .. (3 * R - 1)
               PROVE  memory[Other(n)][k] = Empty
    BY DEF AwayRows, Sent, Sized
  <2>1. k \in Slot
    BY RAssumption DEF Slot
  <2> QED
    BY <2>1, Peers
<1>6. ResultExact
  BY DEF ResultExact
<1> QED
  BY <1>1, <1>2, <1>3, <1>4, <1>5, <1>6 DEF DataInv

LEMMA ClearKeeps ==
  ASSUME N = 2, DataInv, BarrierTypeOK, BarrierSeparates, NEW n \in Node, Clear(n)
  PROVE  DataInv'
<1> USE DEF DataInv, Clear, About, Go
<1>0. stage \in [Node -> Stages] /\ stage[n] = "clear" /\ at[n] = "outside"
  BY DEF ShuffleTypes
<1>1. ShuffleTypes'
  BY DEF ShuffleTypes, Stages
<1>2. InStep'
  BY <1>0 DEF InStep, PhaseOf, barrierVars
<1>3. ThreadsInSlices'
  <2>1. \A m \in Node : /\ stage'[m] \in Early => stage[m] \in Early
                        /\ stage'[m] \in Late => stage[m] \in Late
                        /\ stage'[m] = "scatter" => stage[m] = "scatter"
    BY <1>0 DEF Early, Late
  <2> QED
    BY <2>1 DEF ThreadsInSlices
<1>4. HomeRows'
  BY DEF HomeRows, Copied
<1>5. AwayRows'
  <2>1. stage[Other(n)] \notin Sized
    <3>1. phase[n] = 0 /\ phase[Other(n)] = PhaseOf(stage[Other(n)])
      BY <1>0, Peers DEF InStep, PhaseOf
    <3>2. Left(Other(n)) <= phase[n]
      BY Peers DEF BarrierSeparates
    <3>3. at[Other(n)] # "outside" => stage[Other(n)] \in {"partition", "transfer", "return"}
      BY Peers DEF InStep
    <3> QED
      BY <3>1, <3>2, <3>3 DEF Left, PhaseOf, Sized
  <2>2. \A m \in Node : stage'[m] \in Sent <=> stage[m] \in Sent
    BY <1>0 DEF Sent
  <2>3. \A m \in Node : stage'[m] \in Sized => m # n /\ m # Other(n) /\ stage[m] \in Sized
    BY <1>0, <2>1 DEF Sized
  <2>4. \A m \in Node : stage'[m] \notin Sized
    BY <2>3, Peers
  <2> QED
    BY <2>2, <2>4 DEF AwayRows
<1>6. ResultExact'
  BY <1>0 DEF ResultExact
<1> QED
  BY <1>1, <1>2, <1>3, <1>4, <1>5, <1>6

LEMMA EnterKeeps ==
  ASSUME DataInv, BarrierTypeOK, NEW n \in Node, Enter(n)
  PROVE  DataInv'
<1>0. /\ stage \in [Node -> Stages] /\ phase \in [Node -> Nat]
      /\ at \in [Node -> {"outside", "waiting", "notifying"}]
  BY DEF DataInv, ShuffleTypes, BarrierTypeOK
<1>1. PICK s \in {"partition", "transfer", "return"} :
        /\ Go(n, s)
        /\ \/ stage[n] = "connected" /\ s = "partition"
           \/ stage[n] = "scattered" /\ s = "transfer"
           \/ stage[n] = "transferred" /\ s = "return"
  BY DEF Enter, About
<1>2. stage' = [stage EXCEPT ![n] = s] /\ stage' \in [Node -> Stages]
  BY <1>0, <1>1 DEF Go, Stages
<1>3. InStep'
  BY <1>0, <1>1, <1>2 DEF Enter, Arrive, DataInv, InStep, PhaseOf
<1>4. UNCHANGED <<dest, memory, transfer_size, next, local_pos, result>>
  BY DEF Enter
<1>5. \A m \in Node :
        /\ stage'[m] \in Early => stage[m] \in Early
        /\ stage'[m] # "scatter" \/ stage[m] = "scatter"
        /\ stage'[m] \in Late => stage[m] \in Late
        /\ stage'[m] \in Sent <=> stage[m] \in Sent
        /\ stage'[m] \in Sized => stage[m] \in Sized
        /\ stage'[m] = "done" => stage[m] = "done"
  BY <1>0, <1>1, <1>2 DEF Early, Late, Sent, Sized
<1> QED
  BY <1>2, <1>3, <1>4, <1>5, StageKeeps

LEMMA WaitKeeps ==
  ASSUME DataInv, BarrierTypeOK, NEW n \in Node, Wait(n)
  PROVE  DataInv'
<1>0. UNCHANGED <<dest, memory, transfer_size, next, local_pos, result, stage>> /\ BarrierStep(n)
  BY DEF Wait
<1>1. phase' = phase /\ \A m \in Node : at'[m] # "outside" => at[m] # "outside"
  BY <1>0, ZeroIsNode DEF BarrierStep, StopSpinning, Notify, SeeFlag, BarrierTypeOK
<1>2. InStep'
  BY <1>0, <1>1 DEF DataInv, InStep
<1>3. stage' \in [Node -> Stages]
  BY <1>0 DEF DataInv, ShuffleTypes
<1> QED
  BY <1>0, <1>2, <1>3, StageKeeps

LEMMA JoinKeeps ==
  ASSUME DataInv, NEW n \in Node, Join(n)
  PROVE  DataInv'
<1>0. stage \in [Node -> Stages] /\ stage[n] = "scatter" /\ stage' = [stage EXCEPT ![n] = "scattered"]
  BY DEF DataInv, ShuffleTypes, Join, About, Go
<1>1. stage' \in [Node -> Stages]
  BY <1>0 DEF Stages
<1>2. UNCHANGED <<dest, memory, transfer_size, next, local_pos, result>>
  BY DEF Join
<1>3. InStep'
  BY <1>0 DEF DataInv, Join, About, InStep, PhaseOf, barrierVars
<1>4. \A t \in Thread : next[n][t] >= End(t)
  BY DEF Join
<1>5. \A m \in Node :
        /\ stage'[m] \in Early => stage[m] \in Early
        /\ stage'[m] = "scatter" => stage[m] = "scatter"
        /\ stage'[m] \in Late => stage[m] \in Late \/ m = n
        /\ stage'[m] \in Sent <=> stage[m] \in Sent
        /\ stage'[m] \in Sized => stage[m] \in Sized
        /\ stage'[m] = "done" => stage[m] = "done"
  BY <1>0 DEF Early, Late, Sent, Sized
<1> QED
  BY <1>1, <1>2, <1>3, <1>4, <1>5, StageKeeps

LEMMA PartitionKeeps ==
  ASSUME N = 2, DataInv, NEW n \in Node, Partition(n)
  PROVE  DataInv'
<1> DEFINE pos == [t \in Thread |-> [d \in Node |-> ThreadPos(n, t, d)]]
<1>0. /\ stage \in [Node -> Stages] /\ stage[n] = "partition" /\ at[n] = "outside"
      /\ stage' = [stage EXCEPT ![n] = "scatter"]
      /\ local_pos' = [local_pos EXCEPT ![n] = pos]
      /\ UNCHANGED <<dest, memory, transfer_size, next, result>>
      /\ UNCHANGED <<phase, at>>
      /\ dest \in [Node -> [Index -> Node]]
      /\ local_pos \in [Node -> [Thread -> [Node -> Nat]]]
  BY DEF DataInv, ShuffleTypes, Partition, About, Go, barrierVars
<1>1. \A t \in Thread, d \in Node :
        pos[t][d] = Zone(dest[n], n, d) + Rank(dest[n], d, Start(t))
  BY <1>0, ThreadPosIs, Offsets
<1> HIDE DEF pos
<1>2. \A d \in Node : Zone(dest[n], n, d) \in Nat
  BY <1>0, ZoneType
<1>3. \A t \in Thread, d \in Node : Rank(dest[n], d, Start(t)) \in Nat
  BY RankType
<1>4. pos \in [Thread -> [Node -> Nat]]
  <2>1. \A t \in Thread, d \in Node : pos[t][d] \in Nat
    BY <1>1, <1>2, <1>3
  <2>2. pos = [t \in Thread |-> [d \in Node |-> ThreadPos(n, t, d)]]
    BY DEF pos
  <2>3. \A t \in Thread : pos[t] = [d \in Node |-> ThreadPos(n, t, d)]
    BY <2>2
  <2>4. \A t \in Thread : pos[t] \in [Node -> Nat]
    BY <2>1, <2>3
  <2> QED
    BY <2>2, <2>4
<1>5. ShuffleTypes'
  <2>1. stage' \in [Node -> Stages]
    BY <1>0 DEF Stages
  <2>2. local_pos' \in [Node -> [Thread -> [Node -> Nat]]]
    BY <1>0, <1>4
  <2> QED
    BY <1>0, <2>1, <2>2 DEF DataInv, ShuffleTypes
<1>6. InStep'
  BY <1>0 DEF DataInv, InStep, PhaseOf
<1>7. ThreadsInSlices'
  <2> SUFFICES ASSUME NEW m \in Node, NEW t \in Thread
               PROVE  ( /\ Start(t) <= next[m][t] /\ (next[m][t] <= End(t) \/ next[m][t] = Start(t))
                        /\ stage[m] \in Early => next[m][t] = Start(t)
                        /\ stage[m] \in Late => next[m][t] >= End(t)
                        /\ stage[m] = "scatter" =>
                             \A d \in Node :
                               local_pos[m][t][d] =
                                 Zone(dest[m], m, d) + Rank(dest[m], d, next[m][t]) )'
    BY DEF ThreadsInSlices
  <2>0. ThreadsInSlices
    BY DEF DataInv
  <2>1. CASE m = n
    <3>1. next[n][t] = Start(t)
      BY <1>0, <2>0 DEF ThreadsInSlices, Early
    <3>2. stage'[n] = "scatter" /\ local_pos'[n] = pos
      BY <1>0
    <3>3. \A d \in Node : local_pos'[n][t][d] =
                            Zone(dest[n], n, d) + Rank(dest[n], d, next[n][t])
      BY <1>1, <3>1, <3>2
    <3>4. Start(t) \in Nat
      BY Slices
    <3> QED
      BY <1>0, <2>1, <3>1, <3>2, <3>3, <3>4 DEF Early, Late
  <2>2. CASE m # n
    BY <1>0, <2>0, <2>2 DEF ThreadsInSlices
  <2> QED
    BY <2>1, <2>2
<1>8. HomeRows'
  BY <1>0 DEF DataInv, HomeRows, Copied
<1>9. AwayRows'
  <2>1. \A m \in Node : /\ stage'[m] \in Sent <=> stage[m] \in Sent
                        /\ stage'[m] \in Sized => stage[m] \in Sized
    BY <1>0 DEF Sent, Sized
  <2> QED
    BY <1>0, <2>1 DEF DataInv, AwayRows
<1>10. ResultExact'
  BY <1>0 DEF DataInv, ResultExact
<1> QED
  BY <1>5, <1>6, <1>7, <1>8, <1>9, <1>10 DEF DataInv

\* A thread writes the next row of its slice to the slot of that row, which was empty.
LEMMA ScatterWrites ==
  ASSUME N = 2, DataInv, NEW n \in Node, NEW t \in Thread, Scatter(n, t), NEW i, i = next[n][t]
  PROVE  /\ i \in Index /\ Owner(i) = t
         /\ dest[n][i] \in Node
         /\ local_pos[n][t][dest[n][i]] = HomeSlot(dest[n], n, i)
         /\ HomeSlot(dest[n], n, i) \in R .. (2 * R - 1)
         /\ HomeSlot(dest[n], n, i) \in Slot
         /\ memory[n][HomeSlot(dest[n], n, i)] = Empty
         /\ memory' = [memory EXCEPT ![n][HomeSlot(dest[n], n, i)] = <<n, i>>]
<1>0. /\ dest \in [Node -> [Index -> Node]] /\ next \in [Node -> [Thread -> Nat]]
      /\ ThreadsInSlices /\ HomeRows /\ stage[n] = "scatter"
  BY DEF DataInv, ShuffleTypes, Scatter, About
<1>1. i \in Nat /\ Start(t) <= i /\ i < End(t) /\ End(t) <= R
  BY <1>0, Slices DEF ThreadsInSlices, Scatter
<1>2. i \in Index /\ Owner(i) = t
  <2>1. i \in Index
    BY <1>1, RAssumption, Slices DEF Index
  <2> QED
    BY <2>1, <1>1, Slices
<1>3. dest[n] \in [Index -> Node] /\ dest[n][i] \in Node
  BY <1>0, <1>2
<1>4. local_pos[n][t][dest[n][i]] = HomeSlot(dest[n], n, i)
  <2>1. \A d \in Node : local_pos[n][t][d] = Zone(dest[n], n, d) + Rank(dest[n], d, next[n][t])
    BY <1>0 DEF ThreadsInSlices
  <2> QED
    BY <2>1, <1>3 DEF HomeSlot
<1>5. HomeSlot(dest[n], n, i) \in R .. (2 * R - 1)
  BY <1>2, <1>3, HomeSlots
<1>6. HomeSlot(dest[n], n, i) \in Slot
  BY <1>5, RAssumption DEF Slot
<1>7. memory[n][HomeSlot(dest[n], n, i)] = Empty
  <2>1. ~Copied(next[n], t, i)
    BY <1>1 DEF Copied
  <2> QED
    BY <2>1, <1>0, <1>2 DEF HomeRows
<1>8. memory' = [memory EXCEPT ![n][local_pos[n][t][dest[n][next[n][t]]]] = <<n, next[n][t]>>]
  BY DEF Scatter
<1> QED
  BY <1>2, <1>3, <1>4, <1>5, <1>6, <1>7, <1>8

LEMMA ScatterKeeps ==
  ASSUME N = 2, DataInv, NEW n \in Node, NEW t \in Thread, Scatter(n, t)
  PROVE  DataInv'
<1> DEFINE i == next[n][t]
           d == dest[n][i]
           home == HomeSlot(dest[n], n, i)
<1>0. /\ stage \in [Node -> Stages] /\ stage[n] = "scatter"
      /\ memory \in [Node -> [Slot -> RowName \cup {Empty}]]
      /\ dest \in [Node -> [Index -> Node]]
      /\ next \in [Node -> [Thread -> Nat]]
      /\ local_pos \in [Node -> [Thread -> [Node -> Nat]]]
      /\ local_pos' = [local_pos EXCEPT ![n][t][d] = @ + 1]
      /\ next' = [next EXCEPT ![n][t] = i + 1]
      /\ UNCHANGED <<dest, transfer_size, stage, result>>
      /\ UNCHANGED <<phase, at>>
  BY DEF DataInv, ShuffleTypes, Scatter, About, barrierVars
<1>1. /\ i \in Index /\ Owner(i) = t /\ d \in Node
      /\ local_pos[n][t][d] = home
      /\ home \in R .. (2 * R - 1) /\ home \in Slot
      /\ memory' = [memory EXCEPT ![n][home] = <<n, i>>]
  BY ScatterWrites
<1>2. i \in Nat /\ Start(t) \in Nat /\ End(t) \in Nat /\ Start(t) <= i /\ i < End(t)
  BY <1>1, Slices, RAssumption DEF Index
<1> HIDE DEF i, d, home
<1>i. i = next[n][t] /\ d = dest[n][i] /\ home = HomeSlot(dest[n], n, i)
  BY DEF i, d, home
<1>3. ShuffleTypes'
  <2>1. <<n, i>> \in RowName
    BY <1>1 DEF RowName
  <2>2. memory' \in [Node -> [Slot -> RowName \cup {Empty}]]
    BY <1>0, <1>1, <2>1
  <2>3. next' \in [Node -> [Thread -> Nat]]
    BY <1>0, <1>2
  <2>4. local_pos' \in [Node -> [Thread -> [Node -> Nat]]]
    BY <1>0, <1>1
  <2> QED
    BY <1>0, <2>2, <2>3, <2>4 DEF DataInv, ShuffleTypes
<1>4. InStep'
  BY <1>0 DEF DataInv, InStep
<1>5. ThreadsInSlices'
  <2> SUFFICES ASSUME NEW m \in Node, NEW u \in Thread
               PROVE  ( /\ Start(u) <= next[m][u] /\ (next[m][u] <= End(u) \/ next[m][u] = Start(u))
                        /\ stage[m] \in Early => next[m][u] = Start(u)
                        /\ stage[m] \in Late => next[m][u] >= End(u)
                        /\ stage[m] = "scatter" =>
                             \A e \in Node :
                               local_pos[m][u][e] =
                                 Zone(dest[m], m, e) + Rank(dest[m], e, next[m][u]) )'
    BY DEF ThreadsInSlices
  <2>0. ThreadsInSlices
    BY DEF DataInv
  <2>1. CASE m = n /\ u = t
    <3>1. next'[n][t] = i + 1
      BY <1>0
    <3>2. \A e \in Node : local_pos[n][t][e] = Zone(dest[n], n, e) + Rank(dest[n], e, i)
      BY <1>0, <2>0, <1>i DEF ThreadsInSlices
    <3>3. \A e \in Node : local_pos'[n][t][e] = IF e = d THEN local_pos[n][t][e] + 1
                                                          ELSE local_pos[n][t][e]
      BY <1>0
    <3>4. \A e \in Node :
            Rank(dest[n], e, i + 1) = IF e = d THEN Rank(dest[n], e, i) + 1
                                                ELSE Rank(dest[n], e, i)
      BY <1>1, <1>i, RankStep
    <3>5. \A e \in Node : Rank(dest[n], e, i) \in Nat /\ Zone(dest[n], n, e) \in Nat
      <4>1. \A e \in Node : Rank(dest[n], e, i) \in Nat
        BY RankType
      <4>2. \A e \in Node : Zone(dest[n], n, e) \in Nat
        BY <1>0, ZoneType
      <4> QED
        BY <4>1, <4>2
    <3>6. \A e \in Node :
            local_pos'[n][t][e] = Zone(dest[n], n, e) + Rank(dest[n], e, i + 1)
      <4> TAKE e \in Node
      <4> DEFINE r == Rank(dest[n], e, i)
                 z == Zone(dest[n], n, e)
      <4>1. r \in Nat /\ z \in Nat /\ local_pos[n][t][e] = z + r
        BY <3>2, <3>5
      <4>2. Rank(dest[n], e, i + 1) = IF e = d THEN r + 1 ELSE r
        BY <3>4
      <4> HIDE DEF r, z
      <4> QED
        BY <3>3, <4>1, <4>2 DEF z
    <3>7. stage'[n] = "scatter"
      BY <1>0
    <3>8. Start(t) <= i + 1 /\ i + 1 <= End(t)
      BY <1>2
    <3> QED
      BY <1>0, <2>1, <3>1, <3>6, <3>7, <3>8 DEF Early, Late
  <2>2. CASE ~(m = n /\ u = t)
    <3>1. next'[m][u] = next[m][u] /\ local_pos'[m][u] = local_pos[m][u]
      BY <1>0, <2>2
    <3> QED
      BY <1>0, <2>0, <3>1 DEF ThreadsInSlices
  <2> QED
    BY <2>1, <2>2
<1>6. HomeRows'
  <2> SUFFICES ASSUME NEW m \in Node, NEW u \in Thread, NEW j \in Index, Owner(j) = u
               PROVE  ( memory[m][HomeSlot(dest[m], m, j)] =
                          IF Copied(next[m], u, j) THEN <<m, j>> ELSE Empty )'
    BY DEF HomeRows
  <2>0. memory[m][HomeSlot(dest[m], m, j)] =
          IF Copied(next[m], u, j) THEN <<m, j>> ELSE Empty
    BY DEF DataInv, HomeRows
  <2>1. CASE m = n /\ j = i
    <3>1. u = t
      BY <1>1, <2>1
    <3>2. next'[n][t] = i + 1
      BY <1>0
    <3>3. Copied(next'[n], t, i)
      BY <3>2, <1>2 DEF Copied
    <3>4. memory'[n][home] = <<n, i>>
      BY <1>0, <1>1
    <3> QED
      BY <1>0, <1>i, <2>1, <3>1, <3>3, <3>4
  <2>2. CASE ~(m = n /\ j = i)
    <3>1. memory'[m][HomeSlot(dest[m], m, j)] = memory[m][HomeSlot(dest[m], m, j)]
      <4>1. CASE m = n
        <5>1. dest[n] \in [Index -> Node] /\ j # i
          BY <1>0, <2>2, <4>1
        <5>2. HomeSlot(dest[n], n, j) # HomeSlot(dest[n], n, i)
          BY <5>1, <1>1, HomeSlots
        <5>3. HomeSlot(dest[n], n, j) # home
          BY <5>2, <1>i
        <5> QED
          BY <1>0, <1>1, <4>1, <5>3
      <4>2. CASE m # n
        BY <1>0, <1>1, <4>2
      <4> QED
        BY <4>1, <4>2
    <3>2. Copied(next'[m], u, j) <=> Copied(next[m], u, j)
      <4>1. CASE m = n /\ u = t
        <5>1. next'[n][t] = i + 1 /\ j # i /\ j \in Nat
          BY <1>0, <2>2, <4>1, RAssumption DEF Index
        <5> QED
          BY <5>1, <1>2, <1>i, <4>1 DEF Copied
      <4>2. CASE ~(m = n /\ u = t)
        <5>1. next'[m][u] = next[m][u]
          BY <1>0, <4>2
        <5> QED
          BY <5>1 DEF Copied
      <4> QED
        BY <4>1, <4>2
    <3> QED
      BY <1>0, <2>0, <3>1, <3>2
  <2> QED
    BY <2>1, <2>2
<1>7. AwayRows'
  <2>1. \A m \in Node : \A k \in (2 * R) .. (3 * R - 1) : memory'[m][k] = memory[m][k]
    BY <1>0, <1>1, RAssumption
  <2>2. \A m \in Node : \A j \in Index : dest[m][j] # m =>
          AwaySlot(dest[m], j) \in (2 * R) .. (3 * R - 1)
    BY <1>0, AwaySlots
  <2>3. AwayRows
    BY DEF DataInv
  <2>4. \A m \in Node : \A k \in (2 * R) .. (3 * R - 1) : memory'[Other(m)][k] = memory[Other(m)][k]
    BY <2>1, Peers
  <2>5. stage' = stage /\ dest' = dest /\ transfer_size' = transfer_size
    BY <1>0
  <2>6. \A m \in Node : stage'[m] \notin Sent =>
          \A k \in (2 * R) .. (3 * R - 1) : memory'[Other(m)][k] = Empty
    BY <2>3, <2>4, <2>5 DEF AwayRows
  <2>7. \A m \in Node : stage'[m] \in Sent =>
          \A j \in Index : dest[m][j] # m =>
            memory'[Other(m)][AwaySlot(dest[m], j)] = <<m, j>>
    BY <2>2, <2>3, <2>4, <2>5 DEF AwayRows
  <2>8. \A m \in Node : stage'[m] \in Sized => transfer_size[Other(m)] = Leaving(dest[m], m)
    BY <2>3, <2>5 DEF AwayRows
  <2> QED
    BY <2>5, <2>6, <2>7, <2>8 DEF AwayRows
<1>8. ResultExact'
  BY <1>0 DEF DataInv, ResultExact
<1> QED
  BY <1>3, <1>4, <1>5, <1>6, <1>7, <1>8 DEF DataInv

LEMMA WriteSizeKeeps ==
  ASSUME N = 2, DataInv, NEW n \in Node, NEW m \in Node, WriteSize(n, m)
  PROVE  DataInv'
<1> DEFINE L == Leaving(dest[n], n)
<1>0. /\ stage \in [Node -> Stages] /\ stage[n] = "transfer" /\ m # n /\ m = Other(n)
      /\ dest \in [Node -> [Index -> Node]] /\ transfer_size \in [Node -> Nat]
      /\ UNCHANGED <<dest, memory, next, local_pos, result>>
      /\ UNCHANGED <<phase, at>>
  BY Peers DEF DataInv, ShuffleTypes, WriteSize, About, barrierVars
<1>1. SendRows(n) = L /\ L \in Nat
  BY <1>0, Offsets, RowsAddUp
<1>2. PICK s \in {"payload", "transferred"} :
        /\ stage' = [stage EXCEPT ![n] = s]
        /\ s = "transferred" => L = 0
  <2>1. stage' = [stage EXCEPT ![n] = IF L > 0 THEN "payload" ELSE "transferred"]
    BY <1>1 DEF WriteSize, Go
  <2> HIDE DEF L
  <2>2. CASE L > 0
    BY <2>1, <2>2
  <2>3. CASE ~(L > 0)
    <3>1. L = 0
      BY <1>1, <2>3
    <3> QED
      BY <2>1, <2>3, <3>1
  <2> QED
    BY <2>2, <2>3
<1>3. transfer_size' = [transfer_size EXCEPT ![m] = L]
  BY <1>1 DEF WriteSize
<1> HIDE DEF L
<1>4. ShuffleTypes'
  <2>1. stage' \in [Node -> Stages]
    BY <1>0, <1>2 DEF Stages
  <2>2. transfer_size' \in [Node -> Nat]
    BY <1>0, <1>1, <1>3
  <2> QED
    BY <1>0, <2>1, <2>2 DEF DataInv, ShuffleTypes
<1>5. InStep'
  <2>1. stage'[n] = s /\ PhaseOf(s) = 2 /\ PhaseOf("transfer") = 2
    BY <1>0, <1>2 DEF PhaseOf
  <2>2. \A x \in Node : x # n => stage'[x] = stage[x]
    BY <1>0, <1>2
  <2>3. at[n] = "outside"
    BY DEF WriteSize, About
  <2>4. InStep
    BY DEF DataInv
  <2>5. phase[n] = PhaseOf(stage'[n])
    BY <1>0, <2>1, <2>4 DEF InStep
  <2> QED
    BY <1>0, <2>2, <2>3, <2>4, <2>5 DEF InStep
<1>6. ThreadsInSlices'
  <2>1. \A x \in Node : /\ stage'[x] \in Early => stage[x] \in Early
                        /\ stage'[x] \in Late => stage[x] \in Late
                        /\ stage'[x] = "scatter" => stage[x] = "scatter"
    BY <1>0, <1>2 DEF Early, Late
  <2> QED
    BY <1>0, <2>1 DEF DataInv, ThreadsInSlices
<1>7. HomeRows'
  BY <1>0 DEF DataInv, HomeRows, Copied
<1>8. AwayRows'
  <2>0. AwayRows
    BY DEF DataInv
  <2>1. \A x \in Node : stage'[x] \notin Sent =>
          \A k \in (2 * R) .. (3 * R - 1) : memory[Other(x)][k] = Empty
    <3>1. \A x \in Node : stage'[x] \notin Sent => stage[x] \notin Sent
      BY <1>0, <1>2 DEF Sent
    <3> QED
      BY <2>0, <3>1 DEF AwayRows
  <2>2. \A x \in Node : stage'[x] \in Sent =>
          \A i \in Index : dest[x][i] # x =>
            memory[Other(x)][AwaySlot(dest[x], i)] = <<x, i>>
    <3> SUFFICES ASSUME NEW x \in Node, stage'[x] \in Sent, NEW i \in Index, dest[x][i] # x
                 PROVE  memory[Other(x)][AwaySlot(dest[x], i)] = <<x, i>>
      OBVIOUS
    <3>1. CASE x = n
      <4>1. L = 0
        BY <1>0, <1>2, <3>1 DEF Sent
      <4>2. AwaySlot(dest[n], i) \in (2 * R) .. (2 * R + Leaving(dest[n], n) - 1)
        BY <1>0, <3>1, AwaySlots
      <4> QED
        BY <4>1, <4>2, RAssumption DEF L
    <3>2. CASE x # n
      BY <1>0, <1>2, <2>0, <3>2 DEF AwayRows
    <3> QED
      BY <3>1, <3>2
  <2>3. \A x \in Node : stage'[x] \in Sized => transfer_size'[Other(x)] = Leaving(dest[x], x)
    <3> TAKE x \in Node
    <3> HAVE stage'[x] \in Sized
    <3>1. CASE x = n
      BY <1>0, <1>3, <3>1 DEF L
    <3>2. CASE x # n
      <4>1. stage[x] \in Sized /\ Other(x) # m
        BY <1>0, <1>2, <3>2, Peers
      <4> QED
        BY <1>3, <2>0, <4>1 DEF AwayRows
    <3> QED
      BY <3>1, <3>2
  <2> QED
    BY <1>0, <2>1, <2>2, <2>3 DEF AwayRows
<1>9. ResultExact'
  <2>1. \A x \in Node : stage'[x] = "done" => stage[x] = "done"
    BY <1>0, <1>2
  <2> QED
    BY <1>0, <2>1 DEF DataInv, ResultExact
<1> QED
  BY <1>4, <1>5, <1>6, <1>7, <1>8, <1>9 DEF DataInv

\* After it has scattered, a node holds all of its rows.
LEMMA AllCopied ==
  ASSUME DataInv, NEW n \in Node, stage[n] \in Late
  PROVE  \A i \in Index : memory[n][HomeSlot(dest[n], n, i)] = <<n, i>>
<1> TAKE i \in Index
<1>1. Owner(i) \in Thread /\ Start(Owner(i)) <= i /\ i < End(Owner(i)) /\ End(Owner(i)) \in Nat
  BY Slices
<1>2. next[n][Owner(i)] >= End(Owner(i)) /\ next[n][Owner(i)] \in Nat
  BY <1>1 DEF DataInv, ShuffleTypes, ThreadsInSlices
<1>3. Copied(next[n], Owner(i), i)
  <2>1. i \in Nat
    BY RAssumption DEF Index
  <2> QED
    BY <2>1, <1>1, <1>2 DEF Copied
<1> QED
  BY <1>1, <1>3 DEF DataInv, HomeRows

\* The payload goes behind the zones of the peer, where nothing was.
LEMMA PayloadWrites ==
  ASSUME N = 2, DataInv, NEW n \in Node, NEW m \in Node, WritePayload(n, m)
  PROVE  /\ m = Other(n) /\ m # n /\ n = Other(m)
         /\ Leaving(dest[n], n) \in Nat /\ Leaving(dest[n], n) <= R
         /\ \A k \in (2 * R) .. (3 * R - 1) : memory[m][k] = Empty
         /\ memory' = [memory EXCEPT ![m] =
              [k \in Slot |-> IF k \in (2 * R) .. (2 * R + Leaving(dest[n], n) - 1)
                              THEN memory[n][k - R] ELSE memory[m][k]]]
<1>0. /\ stage \in [Node -> Stages] /\ stage[n] = "payload"
      /\ memory \in [Node -> [Slot -> RowName \cup {Empty}]]
      /\ dest \in [Node -> [Index -> Node]]
  BY DEF DataInv, ShuffleTypes, WritePayload, About
<1>1. m = Other(n) /\ m # n /\ n = Other(m)
  BY Peers DEF WritePayload
<1>2. Leaving(dest[n], n) \in Nat /\ Leaving(dest[n], n) <= R
  BY <1>0, RowsAddUp, RAssumption
<1>3. \A k \in (2 * R) .. (3 * R - 1) : memory[m][k] = Empty
  BY <1>0, <1>1 DEF DataInv, AwayRows, Sent
<1>4. SendRows(n) = Leaving(dest[n], n) /\ NodePos(n, m) = R
  BY <1>0, <1>1, Offsets DEF Zone
<1>5. memory' = [memory EXCEPT ![m] =
        [k \in Slot |-> IF k \in 2 * R .. 2 * R + SendRows(n) - 1
                        THEN memory[n][NodePos(n, m) + k - 2 * R] ELSE memory[m][k]]]
  BY <1>0 DEF WritePayload
<1>6. \A k \in Slot : R + k - 2 * R = k - R
  BY RAssumption DEF Slot
<1>7. \A k \in Slot : memory[n][NodePos(n, m) + k - 2 * R] = memory[n][k - R]
  BY <1>4, <1>6
<1>8. [k \in Slot |-> IF k \in 2 * R .. 2 * R + SendRows(n) - 1
                      THEN memory[n][NodePos(n, m) + k - 2 * R] ELSE memory[m][k]]
      = [k \in Slot |-> IF k \in (2 * R) .. (2 * R + Leaving(dest[n], n) - 1)
                        THEN memory[n][k - R] ELSE memory[m][k]]
  BY <1>4, <1>7
<1> QED
  BY <1>1, <1>2, <1>3, <1>5, <1>8

LEMMA WritePayloadKeeps ==
  ASSUME N = 2, DataInv, NEW n \in Node, NEW m \in Node, WritePayload(n, m)
  PROVE  DataInv'
<1> DEFINE L == Leaving(dest[n], n)
<1>0. /\ stage \in [Node -> Stages] /\ stage[n] = "payload"
      /\ stage' = [stage EXCEPT ![n] = "transferred"]
      /\ memory \in [Node -> [Slot -> RowName \cup {Empty}]]
      /\ dest \in [Node -> [Index -> Node]]
      /\ UNCHANGED <<dest, transfer_size, next, local_pos, result>>
      /\ UNCHANGED <<phase, at>>
  BY DEF DataInv, ShuffleTypes, WritePayload, About, Go, barrierVars
<1>1. /\ m = Other(n) /\ m # n /\ n = Other(m)
      /\ L \in Nat /\ L <= R /\ R \in Nat
      /\ memory' = [memory EXCEPT ![m] =
           [k \in Slot |-> IF k \in (2 * R) .. (2 * R + L - 1)
                           THEN memory[n][k - R] ELSE memory[m][k]]]
  BY PayloadWrites, RAssumption
<1> HIDE DEF L
<1>2. memory'[n] = memory[n] /\ \A x \in Node : x # m => memory'[x] = memory[x]
  BY <1>0, <1>1
<1>3. \A k \in Slot : memory'[m][k] = IF k \in (2 * R) .. (2 * R + L - 1)
                                      THEN memory[n][k - R] ELSE memory[m][k]
  BY <1>0, <1>1
<1>4. \A x \in Node : \A k \in R .. (2 * R - 1) : memory'[x][k] = memory[x][k]
  <2> TAKE x \in Node
  <2> TAKE k \in R .. (2 * R - 1)
  <2>1. k \in Slot /\ k \notin (2 * R) .. (2 * R + L - 1)
    BY <1>1 DEF Slot
  <2> QED
    BY <1>2, <1>3, <2>1
<1>5. ShuffleTypes'
  <2>1. \A k \in Slot : k \in (2 * R) .. (2 * R + L - 1) => k - R \in Slot
    BY <1>1 DEF Slot
  <2>2. [k \in Slot |-> IF k \in (2 * R) .. (2 * R + L - 1)
                        THEN memory[n][k - R] ELSE memory[m][k]] \in [Slot -> RowName \cup {Empty}]
    BY <1>0, <2>1
  <2>3. memory' \in [Node -> [Slot -> RowName \cup {Empty}]]
    BY <1>0, <1>1, <2>2
  <2>4. stage' \in [Node -> Stages]
    BY <1>0 DEF Stages
  <2> QED
    BY <1>0, <2>3, <2>4 DEF DataInv, ShuffleTypes
<1>6. InStep'
  BY <1>0 DEF DataInv, InStep, PhaseOf
<1>7. ThreadsInSlices'
  <2>1. \A x \in Node : /\ stage'[x] \in Early => stage[x] \in Early
                        /\ stage'[x] \in Late => stage[x] \in Late
                        /\ stage'[x] = "scatter" => stage[x] = "scatter"
    BY <1>0 DEF Early, Late
  <2> QED
    BY <1>0, <2>1 DEF DataInv, ThreadsInSlices
<1>8. HomeRows'
  <2>1. \A x \in Node, i \in Index :
          memory'[x][HomeSlot(dest[x], x, i)] = memory[x][HomeSlot(dest[x], x, i)]
    <3> TAKE x \in Node, i \in Index
    <3>1. HomeSlot(dest[x], x, i) \in R .. (2 * R - 1)
      BY <1>0, HomeSlots
    <3> QED
      BY <3>1, <1>4
  <2> QED
    BY <1>0, <2>1 DEF DataInv, HomeRows, Copied
<1>9. AwayRows'
  <2>0. AwayRows
    BY DEF DataInv
  <2>1. \A i \in Index : dest[n][i] # n => memory'[m][AwaySlot(dest[n], i)] = <<n, i>>
    <3> TAKE i \in Index
    <3> HAVE dest[n][i] # n
    <3> DEFINE k == AwaySlot(dest[n], i)
               r == Rank(dest[n], dest[n][i], i)
    <3>1. /\ k \in (2 * R) .. (2 * R + L - 1) /\ k \in (2 * R) .. (3 * R - 1)
          /\ k - 2 * R = r /\ r \in Nat
      BY <1>0, AwaySlots, RankBelowTotal DEF L
    <3>2. HomeSlot(dest[n], n, i) = R + r
      BY DEF HomeSlot, Zone
    <3> HIDE DEF k, r
    <3>3. k \in Slot /\ k - R = R + r
      BY <1>1, <3>1 DEF Slot
    <3>4. memory'[m][k] = memory[n][R + r]
      BY <1>3, <3>1, <3>3
    <3>5. memory[n][HomeSlot(dest[n], n, i)] = <<n, i>>
      BY <1>0, AllCopied DEF Late
    <3> QED
      BY <3>2, <3>4, <3>5 DEF k
  <2>2. \A x \in Node : x # n =>
          /\ Other(x) = n
          /\ stage'[x] = stage[x]
          /\ memory'[Other(x)] = memory[Other(x)]
    BY <1>0, <1>2, Peers
  <2>3. stage'[n] = "transferred" /\ stage[n] \in Sized
    BY <1>0 DEF Sized
  <2>4. \A x \in Node : stage'[x] \notin Sent =>
          \A k \in (2 * R) .. (3 * R - 1) : memory'[Other(x)][k] = Empty
    BY <2>0, <2>2, <2>3 DEF AwayRows, Sent
  <2>5. \A x \in Node : stage'[x] \in Sent =>
          \A i \in Index : dest[x][i] # x =>
            memory'[Other(x)][AwaySlot(dest[x], i)] = <<x, i>>
    BY <1>1, <2>0, <2>1, <2>2 DEF AwayRows
  <2>6. \A x \in Node : stage'[x] \in Sized => transfer_size[Other(x)] = Leaving(dest[x], x)
    BY <2>0, <2>2, <2>3 DEF AwayRows
  <2> QED
    BY <1>0, <2>4, <2>5, <2>6 DEF AwayRows
<1>10. ResultExact'
  <2>1. \A x \in Node : stage'[x] = "done" => stage[x] = "done"
    BY <1>0
  <2> QED
    BY <1>0, <2>1 DEF DataInv, ResultExact
<1> QED
  BY <1>5, <1>6, <1>7, <1>8, <1>9, <1>10 DEF DataInv

\* A node returns when the peer has sent its rows.
LEMMA PeerHasSent ==
  ASSUME N = 2, DataInv, BarrierTypeOK, BarrierSeparates, NEW n \in Node, About(n, "return")
  PROVE  stage[Other(n)] \in Sent /\ stage[Other(n)] \in Sized
<1>1. phase[n] = 3 /\ Left(n) = phase[n]
  BY DEF About, DataInv, InStep, PhaseOf, Left
<1>2. Left(n) <= phase[Other(n)]
  BY Peers DEF BarrierSeparates
<1>3. stage[Other(n)] \in Stages /\ phase[Other(n)] = PhaseOf(stage[Other(n)])
  BY Peers DEF DataInv, ShuffleTypes, InStep
<1>4. PhaseOf(stage[Other(n)]) >= 3
  BY <1>1, <1>2, <1>3
<1> QED
  BY <1>3, <1>4 DEF PhaseOf, Stages, Sent, Sized

\* Where a row of d stands in the span that d returns.
Position(D, n, i, local) == IF D[i] = n THEN Rank(D, D[i], i) + 1 ELSE local + Rank(D, D[i], i) + 1

LEMMA ReturnIsExact ==
  ASSUME N = 2, DataInv, BarrierTypeOK, BarrierSeparates, NEW n \in Node, Return(n)
  PROVE  /\ result' = [result EXCEPT ![n] = result'[n]]
         /\ result'[n] \in Seq(RowName \cup {Empty})
         /\ Range(result'[n]) = {r \in RowName : dest[r[1]][r[2]] = n}
         /\ IsInjective(result'[n])
<1> DEFINE o == Other(n)
           M == Rank(dest[n], n, R)
           L == Leaving(dest[n], n)
           I == Leaving(dest[o], o)
           first == R + L
           res == [k \in 1 .. (M + I) |-> memory[n][first + k - 1]]
           Mine == {r \in RowName : dest[r[1]][r[2]] = n}
<1>0. /\ memory \in [Node -> [Slot -> RowName \cup {Empty}]]
      /\ dest \in [Node -> [Index -> Node]]
      /\ result \in [Node -> Seq(RowName \cup {Empty})]
      /\ stage[n] = "return"
      /\ o \in Node /\ o # n /\ n = Other(o)
  BY Peers DEF DataInv, ShuffleTypes, Return, About
<1>1. /\ M \in Nat /\ L \in Nat /\ I \in Nat /\ R \in Nat
      /\ M + L = R /\ I <= R
  BY <1>0, RowsAddUp, RAssumption
<1>2. transfer_size[n] = I /\ stage[o] \in Sent
  <2>1. stage[o] \in Sent /\ stage[o] \in Sized
    BY PeerHasSent DEF Return
  <2> QED
    BY <2>1, <1>0 DEF DataInv, AwayRows
<1>3. NodePos(n, n) = first
  BY <1>0, Offsets DEF Zone
<1>4. 2 * R - NodePos(n, n) + transfer_size[n] = M + I
  <2> HIDE DEF M, L, I
  <2> QED
    BY <1>1, <1>2, <1>3
<1>5. result' = [result EXCEPT ![n] = res]
  <2>1. result' = [result EXCEPT ![n] =
          [i \in 1 .. (2 * R - NodePos(n, n) + transfer_size[n]) |-> memory[n][NodePos(n, n) + i - 1]]]
    BY DEF Return
  <2> HIDE DEF M, L, I
  <2> QED
    BY <2>1, <1>3, <1>4
<1>6. result'[n] = res /\ result' = [result EXCEPT ![n] = result'[n]]
  <2> HIDE DEF res
  <2> QED
    BY <1>0, <1>5
<1> HIDE DEF M, L, I, o, Mine
\* Every row of n stands where its rank says.
<1>7. \A i \in Index : dest[n][i] = n =>
        /\ Rank(dest[n], n, i) \in Nat /\ Rank(dest[n], n, i) + 1 \in 1 .. (M + I)
        /\ res[Rank(dest[n], n, i) + 1] = <<n, i>>
  <2> TAKE i \in Index
  <2> HAVE dest[n][i] = n
  <2> DEFINE r == Rank(dest[n], n, i)
  <2>1. r \in Nat /\ r < M
    BY RankBelowTotal DEF M
  <2>2. HomeSlot(dest[n], n, i) = R + L + r
    BY DEF HomeSlot, Zone, L
  <2>3. memory[n][HomeSlot(dest[n], n, i)] = <<n, i>>
    BY <1>0, AllCopied DEF Late
  <2> HIDE DEF r
  <2>4. r + 1 \in 1 .. (M + I) /\ first + (r + 1) - 1 = R + L + r
    BY <1>1, <2>1
  <2>5. res[r + 1] = memory[n][R + L + r]
    BY <2>4
  <2> QED
    BY <2>1, <2>2, <2>3, <2>4, <2>5 DEF r
<1>8. \A i \in Index : dest[o][i] = n =>
        /\ Rank(dest[o], n, i) \in Nat /\ M + Rank(dest[o], n, i) + 1 \in 1 .. (M + I)
        /\ res[M + Rank(dest[o], n, i) + 1] = <<o, i>>
  <2> TAKE i \in Index
  <2> HAVE dest[o][i] = n
  <2> DEFINE r == Rank(dest[o], n, i)
  <2>1. r \in Nat /\ r < I
    BY <1>0, RankBelowTotal DEF I, Leaving
  <2>2. AwaySlot(dest[o], i) = 2 * R + r
    BY DEF AwaySlot
  <2>3. memory[n][AwaySlot(dest[o], i)] = <<o, i>>
    BY <1>0, <1>2 DEF DataInv, AwayRows
  <2> HIDE DEF r
  <2>4. M + r + 1 \in 1 .. (M + I) /\ first + (M + r + 1) - 1 = 2 * R + r
    BY <1>1, <2>1
  <2>5. res[M + r + 1] = memory[n][2 * R + r]
    BY <2>4
  <2> QED
    BY <2>1, <2>2, <2>3, <2>4, <2>5 DEF r
\* Every place of the span is taken by one of them.
<1>9. \A k \in 1 .. (M + I) :
        \/ \E i \in Index : dest[n][i] = n /\ k = Rank(dest[n], n, i) + 1
        \/ \E i \in Index : dest[o][i] = n /\ k = M + Rank(dest[o], n, i) + 1
  <2> TAKE k \in 1 .. (M + I)
  <2>1. CASE k <= M
    <3>1. k - 1 \in Nat /\ k - 1 < Rank(dest[n], n, R)
      BY <1>1, <2>1 DEF M
    <3>2. PICK i \in Index : dest[n][i] = n /\ Rank(dest[n], n, i) = k - 1
      BY <3>1, RankIsTaken
    <3> QED
      BY <3>2, <1>1
  <2>2. CASE ~(k <= M)
    <3>1. k - 1 - M \in Nat /\ k - 1 - M < Rank(dest[o], n, R)
      <4>1. I = Rank(dest[o], n, R)
        BY <1>0 DEF I, Leaving
      <4> QED
        BY <4>1, <1>1, <2>2
    <3>2. PICK i \in Index : dest[o][i] = n /\ Rank(dest[o], n, i) = k - 1 - M
      BY <3>1, RankIsTaken
    <3> QED
      BY <3>2, <1>1
  <2> QED
    BY <2>1, <2>2
<1>d. DOMAIN res = 1 .. (M + I)
  OBVIOUS
<1> HIDE DEF res, first
<1>10. \A k \in 1 .. (M + I) : res[k] \in Mine
  <2> TAKE k \in 1 .. (M + I)
  <2>1. ASSUME NEW i \in Index, dest[n][i] = n, k = Rank(dest[n], n, i) + 1 PROVE res[k] \in Mine
    <3>1. res[k] = <<n, i>>
      BY <2>1, <1>7
    <3>2. <<n, i>> \in Mine
      BY <2>1, <1>0 DEF Mine, RowName
    <3> QED
      BY <3>1, <3>2
  <2>2. ASSUME NEW i \in Index, dest[o][i] = n, k = M + Rank(dest[o], n, i) + 1
        PROVE  res[k] \in Mine
    <3>1. res[k] = <<o, i>>
      BY <2>2, <1>8
    <3>2. <<o, i>> \in Mine
      BY <2>2, <1>0 DEF Mine, RowName
    <3> QED
      BY <3>1, <3>2
  <2> QED
    BY <2>1, <2>2, <1>9
<1>11. \A r \in Mine : \E k \in 1 .. (M + I) : res[k] = r
  <2> TAKE r \in Mine
  <2>1. PICK x \in Node, i \in Index : r = <<x, i>> /\ dest[x][i] = n
    BY DEF Mine, RowName
  <2>2. x = n \/ x = o
    BY Peers DEF o
  <2> QED
    BY <2>1, <2>2, <1>7, <1>8
<1>12. Range(res) = Mine
  BY <1>d, <1>10, <1>11 DEF Range
<1>13. \A k, l \in 1 .. (M + I) : res[k] = res[l] => k = l
  <2> TAKE k, l \in 1 .. (M + I)
  <2> HAVE res[k] = res[l]
  <2>1. ASSUME NEW i \in Index, NEW j \in Index,
               dest[n][i] = n, k = Rank(dest[n], n, i) + 1,
               dest[n][j] = n, l = Rank(dest[n], n, j) + 1
        PROVE  k = l
    <3>1. <<n, i>> = <<n, j>>
      BY <2>1, <1>7
    <3> QED
      BY <2>1, <3>1
  <2>2. ASSUME NEW i \in Index, NEW j \in Index,
               dest[o][i] = n, k = M + Rank(dest[o], n, i) + 1,
               dest[o][j] = n, l = M + Rank(dest[o], n, j) + 1
        PROVE  k = l
    <3>1. <<o, i>> = <<o, j>>
      BY <2>2, <1>8
    <3> QED
      BY <2>2, <3>1
  <2>3. ASSUME NEW i \in Index, NEW j \in Index,
               dest[n][i] = n, k = Rank(dest[n], n, i) + 1,
               dest[o][j] = n, l = M + Rank(dest[o], n, j) + 1
        PROVE  k = l
    <3>1. <<n, i>> = <<o, j>>
      BY <2>3, <1>7, <1>8
    <3> QED
      BY <3>1, <1>0
  <2>4. ASSUME NEW i \in Index, NEW j \in Index,
               dest[o][i] = n, k = M + Rank(dest[o], n, i) + 1,
               dest[n][j] = n, l = Rank(dest[n], n, j) + 1
        PROVE  k = l
    <3>1. <<o, i>> = <<n, j>>
      BY <2>4, <1>7, <1>8
    <3> QED
      BY <3>1, <1>0
  <2> QED
    BY <2>1, <2>2, <2>3, <2>4, <1>9
<1>14. IsInjective(res)
  BY <1>d, <1>13 DEF IsInjective
<1>15. res \in Seq(RowName \cup {Empty})
  <2>1. \A k \in 1 .. (M + I) : res[k] \in RowName
    BY <1>10 DEF Mine
  <2>2. M + I \in Nat /\ res = [k \in 1 .. (M + I) |-> res[k]]
    BY <1>1 DEF res
  <2> QED
    BY <2>1, <2>2
<1> QED
  BY <1>6, <1>12, <1>14, <1>15 DEF Mine

LEMMA ReturnKeeps ==
  ASSUME N = 2, DataInv, BarrierTypeOK, BarrierSeparates, NEW n \in Node, Return(n)
  PROVE  DataInv'
<1>0. /\ stage \in [Node -> Stages] /\ stage[n] = "return" /\ at[n] = "outside"
      /\ stage' = [stage EXCEPT ![n] = "done"]
      /\ result \in [Node -> Seq(RowName \cup {Empty})]
      /\ UNCHANGED <<dest, memory, transfer_size, next, local_pos>>
      /\ UNCHANGED <<phase, at>>
  BY DEF DataInv, ShuffleTypes, Return, About, Go, barrierVars
<1>1. /\ result' = [result EXCEPT ![n] = result'[n]]
      /\ result'[n] \in Seq(RowName \cup {Empty})
      /\ Range(result'[n]) = {r \in RowName : dest[r[1]][r[2]] = n}
      /\ IsInjective(result'[n])
  BY ReturnIsExact
<1>2. ShuffleTypes'
  <2>1. stage' \in [Node -> Stages]
    BY <1>0 DEF Stages
  <2>2. result' \in [Node -> Seq(RowName \cup {Empty})]
    BY <1>0, <1>1
  <2> QED
    BY <1>0, <2>1, <2>2 DEF DataInv, ShuffleTypes
<1>3. InStep'
  BY <1>0 DEF DataInv, InStep, PhaseOf
<1>4. ThreadsInSlices'
  <2>1. \A x \in Node : /\ stage'[x] \in Early => stage[x] \in Early
                        /\ stage'[x] \in Late => stage[x] \in Late
                        /\ stage'[x] = "scatter" => stage[x] = "scatter"
    BY <1>0 DEF Early, Late
  <2> QED
    BY <1>0, <2>1 DEF DataInv, ThreadsInSlices
<1>5. HomeRows'
  BY <1>0 DEF DataInv, HomeRows, Copied
<1>6. AwayRows'
  <2>1. \A x \in Node : /\ stage'[x] \in Sent <=> stage[x] \in Sent
                        /\ stage'[x] \in Sized => stage[x] \in Sized
    BY <1>0 DEF Sent, Sized
  <2> QED
    BY <1>0, <2>1 DEF DataInv, AwayRows
<1>7. ResultExact'
  <2>1. \A x \in Node : x # n => /\ stage'[x] = "done" => stage[x] = "done"
                                 /\ result'[x] = result[x]
    BY <1>0, <1>1
  <2> QED
    BY <1>0, <1>1, <2>1 DEF DataInv, ResultExact
<1> QED
  BY <1>2, <1>3, <1>4, <1>5, <1>6, <1>7 DEF DataInv

\* The invariant is kept by every step between states that the barrier allows.
LEMMA StepKeepsData ==
  ASSUME N = 2, DataInv, BarrierTypeOK, BarrierSeparates, [Next]_vars
  PROVE  DataInv'
<1>1. ASSUME NEW n \in Node, Main(n) PROVE DataInv'
  BY <1>1, ClearKeeps, EnterKeeps, WaitKeeps, PartitionKeeps, JoinKeeps, ReturnKeeps,
     WriteSizeKeeps, WritePayloadKeeps DEF Main
<1>2. CASE UNCHANGED vars
  BY <1>2 DEF vars, barrierVars, DataInv, ShuffleTypes, InStep, ThreadsInSlices, HomeRows, Copied,
     AwayRows, ResultExact
<1> QED
  BY <1>1, <1>2, ScatterKeeps DEF Next

\* Both writers of the zones meet empty memory.
LEMMA StepWritesOnce ==
  ASSUME N = 2, DataInv, [Next]_vars
  PROVE  \A n \in Node, k \in Slot : memory[n][k] # Empty => memory'[n][k] = memory[n][k]
<1>0. memory \in [Node -> [Slot -> RowName \cup {Empty}]]
  BY DEF DataInv, ShuffleTypes
<1>1. ASSUME NEW n \in Node, NEW t \in Thread, Scatter(n, t), NEW x \in Node, NEW k \in Slot,
             memory[x][k] # Empty
      PROVE  memory'[x][k] = memory[x][k]
  <2> DEFINE i == next[n][t]
             home == HomeSlot(dest[n], n, i)
  <2>1. memory[n][home] = Empty /\ memory' = [memory EXCEPT ![n][home] = <<n, i>>] /\ home \in Slot
    BY <1>1, ScatterWrites
  <2> HIDE DEF i, home
  <2> QED
    BY <1>0, <1>1, <2>1
<1>2. ASSUME NEW n \in Node, NEW m \in Node, WritePayload(n, m), NEW x \in Node, NEW k \in Slot,
             memory[x][k] # Empty
      PROVE  memory'[x][k] = memory[x][k]
  <2> DEFINE L == Leaving(dest[n], n)
             to == (2 * R) .. (2 * R + L - 1)
  <2>1. /\ L \in Nat /\ L <= R
        /\ \A l \in (2 * R) .. (3 * R - 1) : memory[m][l] = Empty
        /\ memory' = [memory EXCEPT ![m] =
             [l \in Slot |-> IF l \in to THEN memory[n][l - R] ELSE memory[m][l]]]
    BY <1>2, PayloadWrites
  <2> HIDE DEF L
  <2>2. \A l \in to : l \in (2 * R) .. (3 * R - 1)
    BY <2>1, RAssumption
  <2>3. CASE x = m
    <3>1. k \notin to
      BY <1>2, <2>1, <2>2, <2>3
    <3> HIDE DEF to
    <3> QED
      BY <1>0, <2>1, <2>3, <3>1
  <2>4. CASE x # m
    BY <1>0, <2>1, <2>4
  <2> QED
    BY <2>3, <2>4
<1>3. ASSUME NEW n \in Node, Main(n), ~ \E m \in Node : WritePayload(n, m)
      PROVE  memory' = memory
  BY <1>3 DEF Main, Clear, Enter, Wait, Partition, Join, Return, WriteSize
<1>4. UNCHANGED vars => memory' = memory
  BY DEF vars
<1> QED
  BY <1>1, <1>2, <1>3, <1>4 DEF Next

-----------------------------------------------------------------------------
(***************************************************************************)
(* Every step of the shuffle is a step of the barrier or leaves it alone.  *)
(***************************************************************************)

\* Only Enter and Wait touch the barrier.
LEMMA StepIsBarrierStep ==
  ASSUME NEW n \in Node, Main(n)
  PROVE  [BarrierNext]_barrierVars
<1>1. CASE Clear(n)
  BY <1>1 DEF Clear
<1>2. CASE Enter(n)
  BY <1>2 DEF Enter, BarrierNext
<1>3. CASE Wait(n)
  BY <1>3 DEF Wait, BarrierNext
<1>4. CASE Partition(n)
  BY <1>4 DEF Partition
<1>5. CASE Join(n)
  BY <1>5 DEF Join
<1>6. CASE Return(n)
  BY <1>6 DEF Return
<1>7. ASSUME NEW m \in Node, WriteSize(n, m) PROVE UNCHANGED barrierVars
  BY <1>7 DEF WriteSize
<1>8. ASSUME NEW m \in Node, WritePayload(n, m) PROVE UNCHANGED barrierVars
  BY <1>8 DEF WritePayload
<1> QED
  BY <1>1, <1>2, <1>3, <1>4, <1>5, <1>6, <1>7, <1>8 DEF Main

LEMMA NextIsBarrierStep == ASSUME [Next]_vars PROVE [BarrierNext]_barrierVars
<1>1. ASSUME NEW n \in Node, NEW t \in Thread, Scatter(n, t) PROVE UNCHANGED barrierVars
  BY <1>1 DEF Scatter
<1>2. CASE UNCHANGED vars
  BY <1>2 DEF vars
<1> QED
  BY <1>1, <1>2, StepIsBarrierStep DEF Next

-----------------------------------------------------------------------------

(***************************************************************************)
(* No node of the shuffle leaves one of its three barriers before all have *)
(* arrived at it, when the memory starts as zeros.                         *)
(***************************************************************************)
THEOREM ShufflePhasesSeparated ==
  ASSUME InitialWord = {0}
  PROVE  Spec => []BarrierSeparates
<1>1. Init => BarrierInit
  BY DEF Init
<1>2. Init /\ [][Next]_vars => BarrierInit /\ [][BarrierNext]_barrierVars
  BY <1>1, NextIsBarrierStep, PTL
<1> QED
  BY <1>2, PhasesSeparated, PTL DEF Spec, BarrierSpec

\* The barrier and what the phases do to the data, together.
LEMMA InvariantHolds ==
  ASSUME N = 2, InitialWord = {0}
  PROVE  Spec => [](IInv /\ DataInv)
<1>1. Init => IInv /\ DataInv
  BY InitEstablishes, InitHolds DEF Init
<1>2. IInv /\ DataInv /\ [Next]_vars => (IInv /\ DataInv)'
  <2> SUFFICES ASSUME IInv, DataInv, [Next]_vars PROVE IInv' /\ DataInv'
    OBVIOUS
  <2>1. [BarrierNext]_barrierVars
    BY NextIsBarrierStep
  <2>2. IInv'
    BY <2>1, NextKeeps
  <2>3. BarrierTypeOK /\ BarrierSeparates
    BY InvSeparates DEF IInv
  <2> QED
    BY <2>2, <2>3, StepKeepsData
<1> QED
  BY <1>1, <1>2, PTL DEF Spec

(***************************************************************************)
(* No slot of the zones is written twice, by any number of threads for any *)
(* number of rows: neither two threads nor a thread and the peer's write   *)
(* ever meet.                                                              *)
(***************************************************************************)
THEOREM ThreadsStayApart ==
  ASSUME N = 2, InitialWord = {0}
  PROVE  Spec => WrittenOnce
<1>1. DataInv /\ [Next]_vars =>
        [\A n \in Node, k \in Slot : memory[n][k] # Empty => memory'[n][k] = memory[n][k]]_vars
  BY StepWritesOnce
<1> QED
  BY <1>1, InvariantHolds, PTL DEF Spec, WrittenOnce

(***************************************************************************)
(* What a node returns is exactly the rows that belong to it, each once,   *)
(* wherever the rows belong.                                               *)
(***************************************************************************)
THEOREM RowsReturned ==
  ASSUME N = 2, InitialWord = {0}
  PROVE  Spec => []ResultExact
<1>1. DataInv => ResultExact
  BY DEF DataInv
<1> QED
  BY <1>1, InvariantHolds, PTL

=============================================================================
