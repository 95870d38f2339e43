---------------------------- MODULE RadixJoinProofs ----------------------------
(***************************************************************************)
(* RadixJoin, proved exact for every number of threads, every pair of      *)
(* relations, every cache and every hash function: a partitioned relation  *)
(* has each tuple in its bucket, in the order they had, and the result of  *)
(* the join is the pairs of the equi-join, each once.                      *)
(***************************************************************************)
EXTENDS RadixJoin, FiniteSetTheorems, WellFoundedInduction, TLAPS

-----------------------------------------------------------------------------
(***************************************************************************)
(* Numbers: least ones, powers of two, quotients.                          *)
(***************************************************************************)

\* A set of numbers has a least one.
LEMMA LeastNumber ==
  ASSUME NEW S \in SUBSET Nat, S # {}
  PROVE  \E x \in S : \A y \in S : x <= y
<1>1. PICK x \in S : \A y \in S : ~(<<y, x>> \in OpToRel(<, Nat))
  BY WFMin, NatLessThanWellFounded
<1>2. \A y \in S : ~(y < x)
  BY <1>1, Zenon DEF OpToRel
<1> QED
  BY <1>2

LEMMA MinIsLeast ==
  ASSUME NEW S \in SUBSET Nat, S # {}
  PROVE  Min(S) \in S /\ \A y \in S : Min(S) <= y
BY LeastNumber DEF Min

LEMMA IntervalsAreFinite ==
  ASSUME NEW n \in Nat
  PROVE  /\ IsFiniteSet(0 .. n - 1) /\ Cardinality(0 .. n - 1) = n
         /\ IsFiniteSet(1 .. n) /\ Cardinality(1 .. n) = n
<1>1. 0 \in Int /\ 1 \in Int /\ n \in Int /\ n - 1 \in Int
  OBVIOUS
<1>2. /\ IsFiniteSet(0 .. (n - 1))
      /\ Cardinality(0 .. (n - 1)) = IF 0 > n - 1 THEN 0 ELSE (n - 1) - 0 + 1
  BY <1>1, FS_Interval
<1>3. /\ IsFiniteSet(1 .. n)
      /\ Cardinality(1 .. n) = IF 1 > n THEN 0 ELSE n - 1 + 1
  BY <1>1, FS_Interval
<1> QED
  BY <1>2, <1>3

\* The first powers of two, up to that of N.
Powers(g, N) ==
  /\ g \in [0 .. N -> Nat]
  /\ \A n \in 0 .. N : g[n] = IF n = 0 THEN 1 ELSE 2 * g[n - 1]

LEMMA SomePowers == \A N \in Nat : \E g : Powers(g, N)
<1> DEFINE Bad == {N \in Nat : ~\E g : Powers(g, N)}
<1> SUFFICES ASSUME Bad # {} PROVE FALSE
  OBVIOUS
<1>1. PICK N \in Bad : \A M \in Bad : N <= M
  BY LeastNumber
<1>2. N # 0
  <2>1. Powers([n \in 0 .. 0 |-> 1], 0)
    BY DEF Powers
  <2> QED
    BY <2>1
<1>3. N - 1 \in Nat /\ N - 1 \notin Bad
  BY <1>1, <1>2
<1>4. PICK g : Powers(g, N - 1)
  BY <1>3
<1> DEFINE h == [n \in 0 .. N |-> IF n = N THEN 2 * g[N - 1] ELSE g[n]]
<1>5. \A n \in 0 .. N - 1 : g[n] \in Nat /\ h[n] = g[n]
  BY <1>3, <1>4 DEF Powers
<1>6. h[N] = 2 * g[N - 1] /\ g[N - 1] \in Nat
  <2>1. N \in Nat /\ N \in 0 .. N /\ N - 1 \in 0 .. N - 1
    BY <1>3
  <2>2. g[N - 1] \in Nat
    BY <2>1, <1>5
  <2> QED
    BY <2>1, <2>2
<1>7. h \in [0 .. N -> Nat]
  BY <1>3, <1>4, <1>6 DEF Powers
<1>8. \A n \in 0 .. N : h[n] = IF n = 0 THEN 1 ELSE 2 * h[n - 1]
  <2> TAKE n \in 0 .. N
  <2> HIDE DEF h
  <2>1. CASE n = N
    BY <2>1, <1>2, <1>3, <1>5, <1>6
  <2>2. CASE n # N
    <3>1. n \in 0 .. N - 1 /\ (n # 0 => n - 1 \in 0 .. N - 1)
      BY <2>2, <1>3
    <3>2. g[n] = IF n = 0 THEN 1 ELSE 2 * g[n - 1]
      BY <3>1, <1>4 DEF Powers
    <3> QED
      BY <3>1, <3>2, <1>5
  <2> QED
    BY <2>1, <2>2
<1>9. Powers(h, N)
  BY <1>7, <1>8 DEF Powers
<1> QED
  BY <1>9

LEMMA PowersAgree ==
  ASSUME NEW N \in Nat, NEW M \in Nat, NEW g, NEW h, Powers(g, N), Powers(h, M)
  PROVE  \A n \in Nat : n <= N /\ n <= M => g[n] = h[n]
<1> DEFINE Bad == {n \in Nat : n <= N /\ n <= M /\ g[n] # h[n]}
<1> SUFFICES ASSUME Bad # {} PROVE FALSE
  OBVIOUS
<1>1. PICK n \in Bad : \A m \in Bad : n <= m
  BY LeastNumber
<1>2. /\ g[n] = IF n = 0 THEN 1 ELSE 2 * g[n - 1]
      /\ h[n] = IF n = 0 THEN 1 ELSE 2 * h[n - 1]
  BY <1>1 DEF Powers
<1>3. n # 0
  BY <1>1, <1>2
<1>4. n - 1 \in Nat /\ n - 1 \notin Bad
  BY <1>1, <1>3
<1>5. g[n - 1] = h[n - 1]
  BY <1>1, <1>4
<1> QED
  BY <1>1, <1>2, <1>3, <1>5

LEMMA PowerOfTwoIs ==
  /\ PowerOfTwo[0] = 1
  /\ \A n \in Nat : PowerOfTwo[n] \in Nat /\ PowerOfTwo[n + 1] = 2 * PowerOfTwo[n]
<1> DEFINE some(N) == CHOOSE g : Powers(g, N)
           f == [n \in Nat |-> some(n)[n]]
           Def(g) == g = [n \in Nat |-> IF n = 0 THEN 1 ELSE 2 * g[n - 1]]
<1>1. \A N \in Nat : Powers(some(N), N)
  BY SomePowers
<1> HIDE DEF some
<1>2. \A n \in Nat : f[n] = IF n = 0 THEN 1 ELSE 2 * f[n - 1]
  <2> TAKE n \in Nat
  <2>1. CASE n = 0
    <3>1. Powers(some(0), 0)
      BY <1>1
    <3> QED
      BY <2>1, <3>1 DEF Powers
  <2>2. CASE n # 0
    <3>1. n - 1 \in Nat /\ Powers(some(n), n) /\ Powers(some(n - 1), n - 1)
      BY <2>2, <1>1
    <3>2. some(n)[n] = 2 * some(n)[n - 1]
      BY <3>1, <2>2 DEF Powers
    <3>3. some(n)[n - 1] = some(n - 1)[n - 1]
      BY <3>1, PowersAgree
    <3> QED
      BY <2>2, <3>1, <3>2, <3>3
  <2> QED
    BY <2>1, <2>2
<1>3. Def(f)
  BY <1>2
<1>4. Def(PowerOfTwo)
  BY <1>3 DEF PowerOfTwo
<1> HIDE DEF f
<1>5. \A n \in Nat : PowerOfTwo[n] = IF n = 0 THEN 1 ELSE 2 * PowerOfTwo[n - 1]
  BY <1>4
<1>6. \A n \in Nat : PowerOfTwo[n] \in Nat
  <2> DEFINE Bad == {n \in Nat : PowerOfTwo[n] \notin Nat}
  <2> SUFFICES ASSUME Bad # {} PROVE FALSE
    OBVIOUS
  <2>1. PICK n \in Bad : \A m \in Bad : n <= m
    BY LeastNumber
  <2>2. n # 0 /\ PowerOfTwo[n] = 2 * PowerOfTwo[n - 1]
    BY <2>1, <1>5
  <2>3. n - 1 \in Nat /\ n - 1 \notin Bad
    BY <2>1, <2>2
  <2> QED
    BY <2>1, <2>2, <2>3
<1>7. \A n \in Nat : PowerOfTwo[n + 1] = 2 * PowerOfTwo[n]
  <2> TAKE n \in Nat
  <2>1. n + 1 \in Nat /\ n + 1 # 0 /\ (n + 1) - 1 = n
    OBVIOUS
  <2> QED
    BY <2>1, <1>5
<1> QED
  BY <1>5, <1>6, <1>7

LEMMA PowersGrow == \A n \in Nat : PowerOfTwo[n] \in Nat /\ PowerOfTwo[n] > n
<1> DEFINE Bad == {n \in Nat : ~(PowerOfTwo[n] > n)}
<1> SUFFICES ASSUME Bad # {} PROVE FALSE
  BY PowerOfTwoIs
<1>1. PICK n \in Bad : \A m \in Bad : n <= m
  BY LeastNumber
<1>2. n # 0
  BY <1>1, PowerOfTwoIs
<1>3. n - 1 \in Nat /\ n - 1 \notin Bad /\ (n - 1) + 1 = n
  BY <1>1, <1>2
<1>4. PowerOfTwo[n] = 2 * PowerOfTwo[n - 1] /\ PowerOfTwo[n - 1] \in Nat
  BY <1>3, PowerOfTwoIs
<1>5. PowerOfTwo[n - 1] > n - 1
  BY <1>3
<1>6. n \in Nat /\ ~(PowerOfTwo[n] > n)
  BY <1>1
<1> QED
  BY <1>2, <1>4, <1>5, <1>6

-----------------------------------------------------------------------------
(***************************************************************************)
(* The numbers of a finite set, in order.                                  *)
(***************************************************************************)

\* How many numbers of S are less than k.
Rank(S, k) == Cardinality({j \in S : j < k})

FiniteNumbers(S) == S \in SUBSET Nat /\ IsFiniteSet(S)

LEMMA RankType ==
  ASSUME NEW S, FiniteNumbers(S), NEW k
  PROVE  IsFiniteSet({j \in S : j < k}) /\ Rank(S, k) \in Nat /\ Cardinality(S) \in Nat
<1>1. {j \in S : j < k} \in SUBSET S
  OBVIOUS
<1> QED
  BY <1>1, FS_Subset, FS_CardinalityType DEF Rank, FiniteNumbers

LEMMA RankOfNone ==
  ASSUME NEW S, FiniteNumbers(S), NEW k \in Nat, \A j \in S : k <= j
  PROVE  Rank(S, k) = 0
<1>1. \A j \in S : ~(j < k)
  <2> TAKE j \in S
  <2>1. j \in Nat /\ k <= j
    BY DEF FiniteNumbers
  <2> QED
    BY <2>1
<1>2. {j \in S : j < k} = {}
  BY <1>1
<1> QED
  BY <1>2, FS_EmptySet DEF Rank

LEMMA RankOfAll == ASSUME NEW S, NEW k, \A j \in S : j < k PROVE Rank(S, k) = Cardinality(S)
<1>1. {j \in S : j < k} = S
  OBVIOUS
<1> QED
  BY <1>1 DEF Rank

LEMMA RankStep ==
  ASSUME NEW S, FiniteNumbers(S), NEW k \in Nat
  PROVE  Rank(S, k + 1) = IF k \in S THEN Rank(S, k) + 1 ELSE Rank(S, k)
<1> DEFINE B(l) == {j \in S : j < l}
<1>0. \A j \in S : j < k + 1 <=> j < k \/ j = k
  <2> TAKE j \in S
  <2>1. j \in Nat
    BY DEF FiniteNumbers
  <2> QED
    BY <2>1
<1>1. B(k + 1) = IF k \in S THEN B(k) \cup {k} ELSE B(k)
  <2>1. CASE k \in S
    BY <1>0, <2>1
  <2>2. CASE k \notin S
    BY <1>0, <2>2
  <2> QED
    BY <2>1, <2>2
<1>2. k \notin B(k)
  BY DEF FiniteNumbers
<1>3. IsFiniteSet(B(k))
  BY RankType
<1>4. Rank(S, k) = Cardinality(B(k)) /\ Rank(S, k + 1) = Cardinality(B(k + 1))
  BY DEF Rank
<1> HIDE DEF B
<1>5. Cardinality(B(k) \cup {k}) = Cardinality(B(k)) + 1
  BY <1>2, <1>3, FS_AddElement
<1> QED
  BY <1>1, <1>4, <1>5

LEMMA RankGrows ==
  ASSUME NEW S, FiniteNumbers(S), NEW j \in Nat, NEW k \in Nat, j <= k
  PROVE  Rank(S, j) <= Rank(S, k)
<1>1. {i \in S : i < j} \in SUBSET {i \in S : i < k}
  <2>1. \A i \in S : i < j => i < k
    <3> TAKE i \in S
    <3>1. i \in Nat
      BY DEF FiniteNumbers
    <3> QED
      BY <3>1
  <2> QED
    BY <2>1
<1> QED
  BY <1>1, RankType, FS_Subset DEF Rank

LEMMA RankRises ==
  ASSUME NEW S, FiniteNumbers(S), NEW i \in S, NEW k \in Nat, i < k
  PROVE  Rank(S, i) < Rank(S, k)
<1>1. i \in Nat /\ i + 1 \in Nat /\ i + 1 <= k
  BY DEF FiniteNumbers
<1>2. Rank(S, i + 1) <= Rank(S, k)
  BY <1>1, RankGrows
<1>3. Rank(S, i + 1) = Rank(S, i) + 1
  BY <1>1, RankStep
<1>4. Rank(S, i) \in Nat /\ Rank(S, k) \in Nat
  BY RankType
<1> QED
  BY <1>2, <1>3, <1>4

LEMMA RankBelowAll ==
  ASSUME NEW S, FiniteNumbers(S), NEW i \in S
  PROVE  Rank(S, i) < Cardinality(S)
<1> DEFINE B == {j \in S : j < i}
<1>1. i \in Nat /\ i \notin B /\ B \cup {i} \in SUBSET S
  BY DEF FiniteNumbers
<1>2. IsFiniteSet(B) /\ Rank(S, i) \in Nat /\ Cardinality(S) \in Nat /\ Rank(S, i) = Cardinality(B)
  BY RankType DEF Rank
<1> HIDE DEF B
<1>3. Cardinality(B \cup {i}) = Cardinality(B) + 1
  BY <1>1, <1>2, FS_AddElement
<1>4. Cardinality(B \cup {i}) <= Cardinality(S)
  BY <1>1, FS_Subset DEF FiniteNumbers
<1> QED
  BY <1>2, <1>3, <1>4

LEMMA RankTellsApart ==
  ASSUME NEW S, FiniteNumbers(S), NEW i \in S, NEW j \in S, Rank(S, i) = Rank(S, j)
  PROVE  i = j
<1>1. i \in Nat /\ j \in Nat
  BY DEF FiniteNumbers
<1>2. Rank(S, i) \in Nat
  BY RankType
<1>3. ASSUME i < j PROVE FALSE
  BY <1>1, <1>2, <1>3, RankRises
<1>4. ASSUME j < i PROVE FALSE
  BY <1>1, <1>2, <1>4, RankRises
<1> QED
  BY <1>1, <1>3, <1>4

\* Every number below the cardinality is the rank of one of the numbers.
LEMMA RankIsTaken ==
  ASSUME NEW S, FiniteNumbers(S), NEW x \in Nat, x < Cardinality(S)
  PROVE  \E i \in S : Rank(S, i) = x
<1> DEFINE n == Cardinality(S)
           rank == [i \in S |-> Rank(S, i)]
<1>1. n \in Nat /\ IsFiniteSet(S)
  BY RankType DEF FiniteNumbers
<1> HIDE DEF n
<1>2. IsFiniteSet(0 .. n - 1) /\ Cardinality(0 .. n - 1) = n
  BY <1>1, IntervalsAreFinite
<1>3. \A i \in S : Rank(S, i) \in 0 .. n - 1
  <2> TAKE i \in S
  <2>1. Rank(S, i) \in Nat /\ Rank(S, i) < n
    BY RankType, RankBelowAll DEF n
  <2> QED
    BY <1>1, <2>1
<1>4. rank \in Injection(S, 0 .. n - 1)
  <2>1. rank \in [S -> 0 .. n - 1]
    BY <1>3
  <2>2. \A i, j \in S : rank[i] = rank[j] => i = j
    BY RankTellsApart
  <2> QED
    BY <2>1, <2>2 DEF Injection, IsInjective
<1> HIDE DEF rank
<1>5. rank \in Surjection(S, 0 .. n - 1)
  BY <1>4, <1>1, <1>2, FS_Injection DEF n
<1>6. x \in 0 .. n - 1
  BY <1>1 DEF n
<1>7. \E i \in S : rank[i] = x
  BY <1>5, <1>6 DEF Surjection
<1> QED
  BY <1>7 DEF rank

\* Nth undoes Rank.
LEMMA NthHasRank ==
  ASSUME NEW S, FiniteNumbers(S), NEW n \in 1 .. Cardinality(S)
  PROVE  Nth(S, n) \in S /\ Rank(S, Nth(S, n)) = n - 1
<1>0. Cardinality(S) \in Nat
  BY RankType
<1>1. n - 1 \in Nat /\ n - 1 < Cardinality(S)
  BY <1>0
<1>2. \E i \in S : Rank(S, i) = n - 1
  BY <1>1, RankIsTaken
<1> QED
  BY <1>2 DEF Nth, Rank

LEMMA RankHasNth ==
  ASSUME NEW S, FiniteNumbers(S), NEW i \in S
  PROVE  Rank(S, i) + 1 \in 1 .. Cardinality(S) /\ Nth(S, Rank(S, i) + 1) = i
<1> DEFINE n == Rank(S, i) + 1
<1>1. Rank(S, i) \in Nat /\ Cardinality(S) \in Nat /\ Rank(S, i) < Cardinality(S)
  BY RankType, RankBelowAll
<1>2. n \in 1 .. Cardinality(S) /\ n - 1 = Rank(S, i)
  BY <1>1
<1> HIDE DEF n
<1>3. Nth(S, n) \in S /\ Rank(S, Nth(S, n)) = Rank(S, i)
  BY <1>2, NthHasRank
<1>4. Nth(S, n) = i
  BY <1>3, RankTellsApart
<1> QED
  BY <1>2, <1>4 DEF n

LEMMA NthRises ==
  ASSUME NEW S, FiniteNumbers(S), NEW m \in 1 .. Cardinality(S), NEW n \in 1 .. Cardinality(S)
  PROVE  /\ m < n => Nth(S, m) < Nth(S, n)
         /\ Nth(S, m) = Nth(S, n) => m = n
<1> DEFINE a == Nth(S, m)
           b == Nth(S, n)
<1>1. a \in S /\ b \in S /\ Rank(S, a) = m - 1 /\ Rank(S, b) = n - 1
  BY NthHasRank
<1>0. Cardinality(S) \in Nat
  BY RankType
<1> HIDE DEF a, b
<1>2. a \in Nat /\ b \in Nat /\ m \in Nat /\ n \in Nat
  BY <1>0, <1>1 DEF FiniteNumbers
<1>3. ASSUME m < n, b <= a PROVE FALSE
  <2>1. Rank(S, b) <= Rank(S, a)
    BY <1>2, <1>3, RankGrows
  <2> QED
    BY <2>1, <1>1, <1>2, <1>3
<1>4. m < n => a < b
  BY <1>2, <1>3
<1>5. a = b => m = n
  BY <1>1, <1>2
<1> QED
  BY <1>4, <1>5 DEF a, b

-----------------------------------------------------------------------------
(***************************************************************************)
(* A sum of counts is a count.                                             *)
(***************************************************************************)

\* The members of A that c gives to a member of Q.
Shared(A, c, Q) == {a \in A : c[a] \in Q}

\* Taking one share away takes its members away.
LEMMA ShareCounts ==
  ASSUME NEW A, IsFiniteSet(A), NEW c, NEW Q, NEW x \in Q
  PROVE  /\ Cardinality(Shared(A, c, Q)) \in Nat
         /\ Cardinality(Shared(A, c, Q)) =
              Cardinality(Shared(A, c, {x})) + Cardinality(Shared(A, c, Q \ {x}))
<1> DEFINE X == Shared(A, c, {x})
           Y == Shared(A, c, Q \ {x})
<1>1. \A P : Shared(A, c, P) \in SUBSET A
  BY DEF Shared
<1>2. \A P : IsFiniteSet(Shared(A, c, P))
  <2> TAKE P
  <2>1. Shared(A, c, P) \in SUBSET A
    BY <1>1
  <2> QED
    BY <2>1, FS_Subset
<1>3. Shared(A, c, Q) = X \cup Y /\ X \cap Y = {}
  BY DEF Shared
<1>4. Cardinality(X \cup Y) = Cardinality(X) + Cardinality(Y) - Cardinality(X \cap Y)
  BY <1>2, FS_Union
<1>5. Cardinality(X) \in Nat /\ Cardinality(Y) \in Nat /\ Cardinality(Shared(A, c, Q)) \in Nat
  BY <1>2, FS_CardinalityType
<1>6. Cardinality({}) = 0
  BY FS_EmptySet
<1> HIDE DEF X, Y
<1>7. Cardinality(Shared(A, c, Q)) = Cardinality(X \cup Y) /\ Cardinality(X \cap Y) = 0
  BY <1>3, <1>6
<1>8. Cardinality(Shared(A, c, Q)) = Cardinality(X) + Cardinality(Y)
  BY <1>4, <1>5, <1>7
<1> QED
  BY <1>5, <1>8 DEF X, Y

\* What the fold of the community module computes on the subsets of Q.
SumOver(f, Q) ==
  CHOOSE iter : iter = [s \in SUBSET Q |->
    IF s = {} THEN 0 ELSE f[CHOOSE x \in s : TRUE] + iter[s \ {CHOOSE x \in s : TRUE}]]

LEMMA SumIsFold == ASSUME NEW f, NEW Q PROVE SumFunctionOnSet(f, Q) = SumOver(f, Q)[Q]
BY DEF SumFunctionOnSet, FoldFunctionOnSet, MapThenFoldSet, SumOver

\* If f counts the share of each, the sum over Q counts the share of Q.
LEMMA SumOfCounts ==
  ASSUME NEW A, IsFiniteSet(A), NEW c, NEW Q, IsFiniteSet(Q), NEW f,
         \A q \in Q : f[q] = Cardinality(Shared(A, c, {q}))
  PROVE  SumFunctionOnSet(f, Q) = Cardinality(Shared(A, c, Q))
<1> DEFINE some(s) == CHOOSE x \in s : TRUE
           count == [s \in SUBSET Q |-> Cardinality(Shared(A, c, s))]
           Sums(g) == g = [s \in SUBSET Q |->
             IF s = {} THEN 0 ELSE f[some(s)] + g[s \ {some(s)}]]
           iter == SumOver(f, Q)
<1>1. \A s \in SUBSET Q : s # {} => some(s) \in s
  OBVIOUS
<1>2. Cardinality(Shared(A, c, {})) = 0
  <2>1. Shared(A, c, {}) = {}
    BY DEF Shared
  <2> QED
    BY <2>1, FS_EmptySet
<1>3. \A s \in SUBSET Q : s # {} =>
        Cardinality(Shared(A, c, s)) = f[some(s)] + Cardinality(Shared(A, c, s \ {some(s)}))
  <2> SUFFICES ASSUME NEW s \in SUBSET Q, s # {}
               PROVE  Cardinality(Shared(A, c, s)) =
                        f[some(s)] + Cardinality(Shared(A, c, s \ {some(s)}))
    OBVIOUS
  <2>1. some(s) \in s /\ some(s) \in Q
    BY <1>1
  <2> HIDE DEF some
  <2>2. Cardinality(Shared(A, c, s)) =
          Cardinality(Shared(A, c, {some(s)})) + Cardinality(Shared(A, c, s \ {some(s)}))
    BY <2>1, ShareCounts
  <2>3. f[some(s)] = Cardinality(Shared(A, c, {some(s)}))
    BY <2>1
  <2> QED
    BY <2>2, <2>3
<1>4. Sums(count)
  <2>1. \A s \in SUBSET Q :
          count[s] = IF s = {} THEN 0 ELSE f[some(s)] + count[s \ {some(s)}]
    <3> SUFFICES ASSUME NEW s \in SUBSET Q
                 PROVE  count[s] = IF s = {} THEN 0 ELSE f[some(s)] + count[s \ {some(s)}]
      OBVIOUS
    <3>1. CASE s = {}
      BY <3>1, <1>2
    <3>2. CASE s # {}
      <4>1. count[s \ {some(s)}] = Cardinality(Shared(A, c, s \ {some(s)}))
        OBVIOUS
      <4> QED
        BY <3>2, <4>1, <1>3
    <3> QED
      BY <3>1, <3>2
  <2> QED
    BY <2>1, Zenon
<1>5. Sums(iter)
  BY <1>4 DEF SumOver
<1> HIDE DEF iter, some
<1>6. \A s \in SUBSET Q : iter[s] = IF s = {} THEN 0 ELSE f[some(s)] + iter[s \ {some(s)}]
  BY <1>5
<1>7. \A s \in SUBSET Q : IsFiniteSet(s) /\ Cardinality(s) \in Nat
  BY FS_Subset, FS_CardinalityType
<1>8. \A s \in SUBSET Q : iter[s] = Cardinality(Shared(A, c, s))
  <2> DEFINE Wrong == {s \in SUBSET Q : iter[s] # Cardinality(Shared(A, c, s))}
             Sizes == {Cardinality(s) : s \in Wrong}
  <2> SUFFICES ASSUME Wrong # {} PROVE FALSE
    OBVIOUS
  <2>1. Sizes \in SUBSET Nat /\ Sizes # {}
    BY <1>7
  <2>2. PICK k \in Sizes : \A j \in Sizes : k <= j
    BY <2>1, LeastNumber
  <2>3. PICK s \in Wrong : Cardinality(s) = k
    BY <2>2
  <2>4. s # {}
    BY <2>3, <1>6, <1>2
  <2>5. s \ {some(s)} \in SUBSET Q /\ some(s) \in s
    BY <1>1, <2>4
  <2>6. Cardinality(s \ {some(s)}) = k - 1 /\ k \in Nat
    BY <2>3, <2>5, <1>7, FS_RemoveElement
  <2>7. s \ {some(s)} \notin Wrong
    BY <2>6, <2>2
  <2>8. iter[s \ {some(s)}] = Cardinality(Shared(A, c, s \ {some(s)}))
    BY <2>7, <2>5
  <2> QED
    BY <2>8, <2>4, <2>3, <1>6, <1>3
<1> QED
  BY <1>8, SumIsFold DEF iter

LEMMA SharesAreFinite ==
  ASSUME NEW A, FiniteNumbers(A), NEW c, NEW Q
  PROVE  FiniteNumbers(Shared(A, c, Q)) /\ Cardinality(Shared(A, c, Q)) \in Nat
<1>1. Shared(A, c, Q) \in SUBSET A
  BY DEF Shared
<1> QED
  BY <1>1, FS_Subset, FS_CardinalityType DEF FiniteNumbers

-----------------------------------------------------------------------------
(***************************************************************************)
(* The order a stable partitioning has: c says which bucket a number       *)
(* belongs to, Below how many are in the buckets before one, and Place     *)
(* where a number is to be.                                                *)
(***************************************************************************)
Below(A, c, b) == Cardinality(Shared(A, c, 0 .. b - 1))
Place(A, c, i) == Below(A, c, c[i]) + Rank(Shared(A, c, {c[i]}), i)

LEMMA BelowStep ==
  ASSUME NEW A, FiniteNumbers(A), NEW c, NEW b \in Nat
  PROVE  /\ Below(A, c, b) \in Nat /\ Cardinality(Shared(A, c, {b})) \in Nat
         /\ Below(A, c, b + 1) = Below(A, c, b) + Cardinality(Shared(A, c, {b}))
<1> DEFINE Q == 0 .. b
<1>1. b \in Q /\ Q \ {b} = 0 .. b - 1 /\ Q = 0 .. (b + 1) - 1
  OBVIOUS
<1>2. Cardinality(Shared(A, c, Q)) =
        Cardinality(Shared(A, c, {b})) + Cardinality(Shared(A, c, Q \ {b}))
  <2>1. b \in Q /\ IsFiniteSet(A)
    BY <1>1 DEF FiniteNumbers
  <2> HIDE DEF Q
  <2> QED
    BY <2>1, ShareCounts
<1>3. Below(A, c, b) \in Nat /\ Cardinality(Shared(A, c, {b})) \in Nat
  BY SharesAreFinite DEF Below
<1> HIDE DEF Q
<1>4. Below(A, c, b + 1) = Cardinality(Shared(A, c, Q))
  BY <1>1 DEF Below
<1>5. Below(A, c, b) = Cardinality(Shared(A, c, Q \ {b}))
  BY <1>1 DEF Below
<1> QED
  BY <1>2, <1>3, <1>4, <1>5

LEMMA BelowNone == ASSUME NEW A, NEW c PROVE Below(A, c, 0) = 0
<1>1. 0 .. 0 - 1 = {}
  OBVIOUS
<1>2. Shared(A, c, 0 .. 0 - 1) = {}
  BY <1>1 DEF Shared
<1> QED
  BY <1>2, FS_EmptySet DEF Below

LEMMA BelowGrows ==
  ASSUME NEW A, FiniteNumbers(A), NEW c, NEW a \in Nat, NEW b \in Nat, a <= b
  PROVE  Below(A, c, a) <= Below(A, c, b)
<1>1. 0 .. a - 1 \in SUBSET (0 .. b - 1)
  OBVIOUS
<1>2. Shared(A, c, 0 .. a - 1) \in SUBSET Shared(A, c, 0 .. b - 1)
  BY <1>1 DEF Shared
<1>3. IsFiniteSet(Shared(A, c, 0 .. b - 1))
  BY SharesAreFinite DEF FiniteNumbers
<1> QED
  BY <1>2, <1>3, FS_Subset DEF Below

LEMMA BelowAll ==
  ASSUME NEW A, NEW c, NEW b \in Nat, \A i \in A : c[i] \in 0 .. b - 1
  PROVE  Below(A, c, b) = Cardinality(A)
<1>1. Shared(A, c, 0 .. b - 1) = A
  BY DEF Shared
<1> QED
  BY <1>1 DEF Below

\* The places of a bucket are between its start and that of the next one.
LEMMA PlaceInBucket ==
  ASSUME NEW A, FiniteNumbers(A), NEW c, NEW i \in A, c[i] \in Nat
  PROVE  /\ Place(A, c, i) \in Nat
         /\ Below(A, c, c[i]) <= Place(A, c, i)
         /\ Place(A, c, i) < Below(A, c, c[i] + 1)
<1> DEFINE S == Shared(A, c, {c[i]})
<1>1. FiniteNumbers(S)
  BY SharesAreFinite
<1>2. i \in S
  BY DEF Shared
<1> HIDE DEF S
<1>3. Rank(S, i) \in Nat /\ Rank(S, i) < Cardinality(S) /\ Cardinality(S) \in Nat
  BY <1>1, <1>2, RankType, RankBelowAll
<1>4. Below(A, c, c[i]) \in Nat /\ Below(A, c, c[i] + 1) = Below(A, c, c[i]) + Cardinality(S)
  BY BelowStep DEF S
<1>5. Place(A, c, i) = Below(A, c, c[i]) + Rank(S, i)
  BY DEF Place, S
<1> QED
  BY <1>3, <1>4, <1>5

LEMMA PlacesApart ==
  ASSUME NEW A, FiniteNumbers(A), NEW c, NEW i \in A, NEW j \in A,
         c[i] \in Nat, c[j] \in Nat, Place(A, c, i) = Place(A, c, j)
  PROVE  i = j
<1>1. ASSUME NEW k \in A, NEW l \in A, c[k] \in Nat, c[l] \in Nat, c[k] < c[l]
      PROVE  Place(A, c, k) < Place(A, c, l)
  <2>1. /\ Place(A, c, k) \in Nat /\ Place(A, c, l) \in Nat
        /\ Place(A, c, k) < Below(A, c, c[k] + 1)
        /\ Below(A, c, c[l]) <= Place(A, c, l)
    BY <1>1, PlaceInBucket
  <2>2. c[k] + 1 \in Nat /\ c[k] + 1 <= c[l]
    BY <1>1
  <2>3. Below(A, c, c[k] + 1) <= Below(A, c, c[l])
    BY <1>1, <2>2, BelowGrows
  <2>4. Below(A, c, c[k] + 1) \in Nat /\ Below(A, c, c[l]) \in Nat
    BY <1>1, <2>2, BelowStep
  <2> QED
    BY <2>1, <2>3, <2>4
<1>2. Place(A, c, i) \in Nat
  BY PlaceInBucket
<1>3. ~(c[i] < c[j])
  BY <1>1, <1>2
<1>4. ~(c[j] < c[i])
  BY <1>1, <1>2
<1>5. c[i] = c[j]
  BY <1>3, <1>4
<1> DEFINE S == Shared(A, c, {c[i]})
<1>6. FiniteNumbers(S) /\ i \in S /\ j \in S
  <2>1. FiniteNumbers(S)
    BY SharesAreFinite
  <2>2. i \in S /\ j \in S
    BY <1>5 DEF Shared
  <2> QED
    BY <2>1, <2>2
<1>7. S = Shared(A, c, {c[j]})
  BY <1>5
<1> HIDE DEF S
<1>8. Rank(S, i) = Rank(S, j)
  <2>1. Place(A, c, i) = Below(A, c, c[i]) + Rank(S, i)
    BY DEF Place, S
  <2>2. Place(A, c, j) = Below(A, c, c[i]) + Rank(S, j)
    BY <1>5, <1>7 DEF Place
  <2>3. Below(A, c, c[i]) \in Nat /\ Rank(S, i) \in Nat /\ Rank(S, j) \in Nat
    BY <1>6, BelowStep, RankType
  <2>4. Below(A, c, c[i]) + Rank(S, i) = Below(A, c, c[i]) + Rank(S, j)
    BY <2>1, <2>2
  <2> HIDE DEF Place
  <2> QED
    BY <2>3, <2>4
<1> QED
  BY <1>6, <1>8, RankTellsApart

-----------------------------------------------------------------------------
(***************************************************************************)
(* The slices of the threads divide the indices of a relation.             *)
(***************************************************************************)

LEMMA Quotient ==
  ASSUME NEW x \in Nat
  PROVE  /\ x \div T \in Nat /\ x % T \in 0 .. T - 1
         /\ x = (T * (x \div T)) + (x % T)
<1> DEFINE q == x \div T
           d == x % T
<1>1. q \in Int /\ d \in 0 .. T - 1 /\ x = T * q + d
  BY ThreadAssumption
<1>2. q \in Nat
  <2> HIDE DEF q, d
  <2> SUFFICES ASSUME q + 1 <= 0 PROVE FALSE
    BY <1>1
  <2>1. T * (q + 1) = T * q + T /\ T * (q + 1) <= 0
    BY <1>1, ThreadAssumption
  <2> QED
    BY <2>1, <1>1, ThreadAssumption
<1> QED
  BY <1>1, <1>2

\* Products with the number of threads are as far apart as it.
LEMMA Multiples ==
  ASSUME NEW a \in Nat, NEW b \in Nat, a < b
  PROVE  T * a + T <= T * b /\ T * a \in Nat /\ T * b \in Nat
<1>1. PICK c \in Nat : b = a + 1 + c
  <2>1. b - (a + 1) \in Nat /\ b = a + 1 + (b - (a + 1))
    OBVIOUS
  <2> QED
    BY <2>1
<1>2. T * b = T * a + T + T * c /\ T * c \in Nat /\ T * a \in Nat
  BY <1>1, ThreadAssumption
<1> QED
  BY <1>2, ThreadAssumption

LEMMA QuotientGrows ==
  ASSUME NEW x \in Nat, NEW y \in Nat, x <= y
  PROVE  x \div T <= y \div T
<1> DEFINE p == x \div T
           q == y \div T
           c == x % T
           d == y % T
<1>1. /\ p \in Nat /\ q \in Nat /\ c \in 0 .. T - 1 /\ d \in 0 .. T - 1
      /\ x = T * p + c /\ y = T * q + d
  BY Quotient
<1> HIDE DEF p, q, c, d
<1>2. ASSUME q < p PROVE FALSE
  <2> DEFINE P == T * p
             Q == T * q
  <2>1. Q + T <= P /\ P \in Nat /\ Q \in Nat
    BY <1>1, <1>2, Multiples
  <2>2. x = P + c /\ y = Q + d
    BY <1>1
  <2> HIDE DEF P, Q
  <2> QED
    BY <2>1, <2>2, <1>1, ThreadAssumption
<1>3. p <= q
  BY <1>1, <1>2
<1> QED
  BY <1>3 DEF p, q

\* Where thread t begins among n tuples.
Cut(n, t) == (n * t) \div T

LEMMA CutIs ==
  ASSUME NEW n \in Nat
  PROVE  /\ Cut(n, 0) = 0 /\ Cut(n, T) = n
         /\ \A t \in Nat : Cut(n, t) \in Nat
         /\ \A a, b \in Nat : a <= b => Cut(n, a) <= Cut(n, b)
<1>1. \A t \in Nat : n * t \in Nat
  OBVIOUS
<1>2. \A t \in Nat : Cut(n, t) \in Nat
  BY <1>1, Quotient DEF Cut
<1>3. \A a, b \in Nat : a <= b => Cut(n, a) <= Cut(n, b)
  <2> SUFFICES ASSUME NEW a \in Nat, NEW b \in Nat, a <= b PROVE Cut(n, a) <= Cut(n, b)
    OBVIOUS
  <2>1. PICK c \in Nat : b = a + c
    <3>1. b - a \in Nat /\ b = a + (b - a)
      OBVIOUS
    <3> QED
      BY <3>1
  <2>2. n * b = n * a + n * c /\ n * a \in Nat /\ n * c \in Nat /\ n * b \in Nat
    BY <2>1
  <2>3. n * a <= n * b
    BY <2>2
  <2> QED
    BY <2>2, <2>3, QuotientGrows DEF Cut
<1>4. Cut(n, 0) = 0
  <2>1. n * 0 = 0
    OBVIOUS
  <2> DEFINE q == 0 \div T
             d == 0 % T
  <2>2. q \in Nat /\ d \in 0 .. T - 1 /\ 0 = T * q + d
    BY Quotient
  <2> HIDE DEF q, d
  <2>3. q = 0
    <3>1. q > 0 => T * 0 + T <= T * q
      BY <2>2, Multiples
    <3> QED
      BY <2>2, <3>1, ThreadAssumption
  <2> QED
    BY <2>1, <2>3 DEF Cut, q
<1>5. Cut(n, T) = n
  <2> DEFINE q == (n * T) \div T
             d == (n * T) % T
             N == T * n
             Q == T * q
  <2>1. n * T \in Nat /\ n * T = N /\ N \in Nat
    BY ThreadAssumption
  <2>2. q \in Nat /\ d \in 0 .. T - 1 /\ n * T = Q + d
    BY <2>1, Quotient
  <2> HIDE DEF q, d
  <2>3. (q < n => Q + T <= N) /\ (n < q => N + T <= Q) /\ Q \in Nat
    BY <2>2, Multiples, ThreadAssumption
  <2> HIDE DEF N, Q
  <2>4. q = n
    BY <2>1, <2>2, <2>3, ThreadAssumption
  <2> QED
    BY <2>4 DEF Cut, q
<1> QED
  BY <1>2, <1>3, <1>4, <1>5

\* The thread index i is given to.
Owner(n, i) == CHOOSE t \in Thread : Cut(n, t) <= i /\ i < Cut(n, t + 1)

LEMMA Owners ==
  ASSUME NEW n \in Nat, NEW i \in 0 .. n - 1
  PROVE  /\ Owner(n, i) \in Thread
         /\ \A t \in Thread : Owner(n, i) = t <=> Cut(n, t) <= i /\ i < Cut(n, t + 1)
         /\ \A t \in Nat : Owner(n, i) < t <=> i < Cut(n, t)
<1> DEFINE Behind == {t \in Nat : i < Cut(n, t)}
           o == Owner(n, i)
<1>0. i \in Nat /\ i < n
  OBVIOUS
<1>1. T \in Behind
  BY <1>0, CutIs, ThreadAssumption
<1>2. PICK u \in Behind : \A t \in Behind : u <= t
  BY <1>1, LeastNumber
<1>3. u # 0 /\ u \in Nat /\ u <= T /\ i < Cut(n, u)
  BY <1>0, <1>1, <1>2, CutIs
<1>4. u - 1 \in Nat /\ u - 1 \notin Behind /\ u - 1 \in Thread /\ (u - 1) + 1 = u
  BY <1>2, <1>3, ThreadAssumption DEF Thread
<1>5. Cut(n, u - 1) <= i /\ i < Cut(n, (u - 1) + 1)
  BY <1>0, <1>3, <1>4, CutIs
<1>6. o \in Thread /\ Cut(n, o) <= i /\ i < Cut(n, o + 1)
  BY <1>4, <1>5 DEF Owner
<1> HIDE DEF Behind, o
<1>7. o \in Nat /\ o + 1 \in Nat
  BY <1>6, ThreadAssumption DEF Thread
<1>8. \A t \in Nat : o < t <=> i < Cut(n, t)
  <2> TAKE t \in Nat
  <2>1. ASSUME o < t PROVE i < Cut(n, t)
    <3>1. Cut(n, o + 1) <= Cut(n, t)
      BY <2>1, <1>7, CutIs
    <3>2. Cut(n, o + 1) \in Nat /\ Cut(n, t) \in Nat
      BY <1>7, CutIs
    <3> QED
      BY <3>1, <3>2, <1>0, <1>6
  <2>2. ASSUME ~(o < t) PROVE ~(i < Cut(n, t))
    <3>1. Cut(n, t) <= Cut(n, o)
      BY <2>2, <1>7, CutIs
    <3>2. Cut(n, o) \in Nat /\ Cut(n, t) \in Nat
      BY <1>7, CutIs
    <3> QED
      BY <3>1, <3>2, <1>0, <1>6
  <2> QED
    BY <2>1, <2>2
<1>9. \A t \in Thread : o = t <=> Cut(n, t) <= i /\ i < Cut(n, t + 1)
  <2> TAKE t \in Thread
  <2>1. t \in Nat /\ t + 1 \in Nat
    BY ThreadAssumption DEF Thread
  <2>2. (o < t <=> i < Cut(n, t)) /\ (o < t + 1 <=> i < Cut(n, t + 1)) /\ Cut(n, t) \in Nat
    BY <2>1, <1>8, CutIs
  <2> QED
    BY <2>1, <2>2, <1>0, <1>7
<1> QED
  BY <1>6, <1>8, <1>9 DEF o

-----------------------------------------------------------------------------
(***************************************************************************)
(* The partitioning.  Whatever the threads of a relation have done, a      *)
(* thread that scatters writes bucket b behind the tuples of b at lower    *)
(* indices than its own position, and every index it has passed is at its  *)
(* place.                                                                  *)
(***************************************************************************)
Index(rel) == DOMAIN input[rel]
BucketMap(rel) == [i \in Index(rel) |-> BucketOf(input[rel][i])]
PlaceOf(rel, i) == Place(Index(rel), BucketMap(rel), i)
TuplesBelow(rel, b) == Below(Index(rel), BucketMap(rel), b)

Inputs == \E in \in Input : input = [rel \in Relation |-> Tuples(in[rel])]

PartitioningTypes ==
  /\ Inputs
  /\ bits \in Nat
  /\ phase \in [Relation -> {"count", "scatter", "copied"}]
  /\ counts \in [Relation -> [Thread -> [Bucket -> Nat]]]
  /\ pos \in [Relation -> [Thread -> Nat]]
  /\ write_offsets \in [Relation -> [Thread -> [Bucket -> Nat]]]
  /\ DOMAIN data = Relation /\ \A rel \in Relation : DOMAIN data[rel] = Index(rel)
  /\ DOMAIN offsets = Relation

Counted(rel, t) ==
  \A b \in Bucket : counts[rel][t][b] =
    Cardinality({i \in Slice(rel, t) : BucketOf(input[rel][i]) = b})

Counting(rel) ==
  \A t \in Thread :
    \/ pos[rel][t] = Start(rel, t) /\ Start(rel, t) # End(rel, t)
    \/ pos[rel][t] = End(rel, t) /\ Counted(rel, t)

Scattered(rel, t) ==
  /\ Start(rel, t) <= pos[rel][t] /\ pos[rel][t] <= End(rel, t)
  /\ \A b \in Bucket : write_offsets[rel][t][b] =
       TuplesBelow(rel, b) + Rank(Members(rel, b), pos[rel][t])
  /\ \A i \in Slice(rel, t) :
       i < pos[rel][t] => data[rel][PlaceOf(rel, i)] = input[rel][i]

OffsetsExact(rel) == \A b \in 0 .. Buckets : offsets[rel][b] = TuplesBelow(rel, b)

Scattering(rel) == OffsetsExact(rel) /\ \A t \in Thread : Scattered(rel, t)

Copied(rel) ==
  /\ bits = 0
  /\ data[rel] = input[rel]
  /\ offsets[rel] = [b \in 0 .. 1 |-> b * Size(rel)]

Partitioning ==
  /\ PartitioningTypes
  /\ \A rel \in Relation :
       /\ phase[rel] = "count" => Counting(rel)
       /\ phase[rel] = "scatter" => Scattering(rel)
       /\ phase[rel] = "copied" => Copied(rel)

\* What the joining threads rely on.
Placed(rel) ==
  OffsetsExact(rel) /\ \A i \in Index(rel) : data[rel][PlaceOf(rel, i)] = input[rel][i]

LEMMA InputFacts ==
  ASSUME Inputs, NEW rel \in Relation
  PROVE  /\ Size(rel) \in Nat /\ Index(rel) = 0 .. Size(rel) - 1
         /\ FiniteNumbers(Index(rel)) /\ Cardinality(Index(rel)) = Size(rel)
         /\ \A i \in Index(rel) :
              /\ i \in Nat /\ i < Size(rel)
              /\ input[rel][i] = [key |-> input[rel][i].key, rid |-> i]
              /\ input[rel][i].key \in Key /\ input[rel][i].rid = i
<1>1. PICK in \in Input : input = [r \in Relation |-> Tuples(in[r])]
  BY DEF Inputs
<1> DEFINE keys == in[rel]
           n == Len(keys)
<1>2. keys \in Seq(Key) /\ n \in Nat
  BY InputAssumption
<1>3. input[rel] = Tuples(keys)
  BY <1>1
<1> HIDE DEF keys
<1>4. Index(rel) = 0 .. n - 1 /\ \A i \in 0 .. n - 1 : input[rel][i] = [key |-> keys[i + 1], rid |-> i]
  BY <1>2, <1>3 DEF Index, Tuples
<1>5. Size(rel) = n /\ IsFiniteSet(Index(rel)) /\ Cardinality(Index(rel)) = n
  BY <1>2, <1>4, IntervalsAreFinite DEF Size, Index
<1>6. FiniteNumbers(Index(rel))
  BY <1>2, <1>4, <1>5 DEF FiniteNumbers
<1>7. \A i \in 0 .. n - 1 : i \in Nat /\ i < n /\ keys[i + 1] \in Key
  BY <1>2
<1> HIDE DEF n
<1>8. \A i \in Index(rel) :
        /\ i \in Nat /\ i < Size(rel)
        /\ input[rel][i] = [key |-> input[rel][i].key, rid |-> i]
        /\ input[rel][i].key \in Key /\ input[rel][i].rid = i
  <2> TAKE i \in Index(rel)
  <2>1. i \in 0 .. n - 1 /\ input[rel][i] = [key |-> keys[i + 1], rid |-> i]
    BY <1>4
  <2> QED
    BY <2>1, <1>5, <1>7
<1> QED
  BY <1>2, <1>4, <1>5, <1>6, <1>8

\* A key belongs to a bucket.
LEMMA BucketsAreNumbers ==
  ASSUME bits \in Nat
  PROVE  /\ Buckets \in Nat \ {0}
         /\ \A b \in Bucket : b \in Nat /\ b < Buckets /\ b + 1 \in 0 .. Buckets /\ b \in 0 .. Buckets
         /\ \A key \in Key : key % Buckets \in Bucket
<1>1. Buckets \in Nat /\ Buckets > bits
  BY PowersGrow DEF Buckets
<1>2. Buckets \in Nat \ {0}
  BY <1>1
<1>3. \A b \in Bucket : b \in Nat /\ b < Buckets /\ b + 1 \in 0 .. Buckets /\ b \in 0 .. Buckets
  BY <1>2 DEF Bucket
<1>4. \A key \in Key : key % Buckets \in Bucket
  <2> TAKE key \in Key
  <2>1. key \in Nat
    BY KeyAssumption DEF Key
  <2> HIDE DEF Buckets
  <2>2. key % Buckets \in 0 .. Buckets - 1
    BY <2>1, <1>2
  <2> QED
    BY <2>2 DEF Bucket
<1> QED
  BY <1>2, <1>3, <1>4

LEMMA BucketFacts ==
  ASSUME Inputs, bits \in Nat, NEW rel \in Relation
  PROVE  /\ \A i \in Index(rel) : /\ BucketOf(input[rel][i]) \in Bucket
                                  /\ BucketMap(rel)[i] = BucketOf(input[rel][i])
         /\ \A b : /\ Members(rel, b) = Shared(Index(rel), BucketMap(rel), {b})
                   /\ FiniteNumbers(Members(rel, b)) /\ Members(rel, b) \subseteq Index(rel)
         /\ \A i \in Index(rel) : i \in Members(rel, BucketOf(input[rel][i]))
<1>1. \A i \in Index(rel) : BucketOf(input[rel][i]) \in Bucket
  BY InputFacts, BucketsAreNumbers DEF BucketOf
<1>2. \A i \in Index(rel) : BucketMap(rel)[i] = BucketOf(input[rel][i])
  BY DEF BucketMap
<1>3. \A b : Members(rel, b) = Shared(Index(rel), BucketMap(rel), {b})
  BY <1>2 DEF Members, Shared, Index
<1>4. \A b : FiniteNumbers(Members(rel, b))
  <2> TAKE b
  <2>1. FiniteNumbers(Index(rel))
    BY InputFacts
  <2>2. FiniteNumbers(Shared(Index(rel), BucketMap(rel), {b}))
    BY <2>1, SharesAreFinite
  <2> QED
    BY <2>2, <1>3
<1>5. \A b : Members(rel, b) \subseteq Index(rel)
  BY DEF Members, Index
<1>6. \A i \in Index(rel) : i \in Members(rel, BucketOf(input[rel][i]))
  BY DEF Members, Index
<1> QED
  BY <1>1, <1>2, <1>3, <1>4, <1>5, <1>6

LEMMA SliceFacts ==
  ASSUME Inputs, NEW rel \in Relation
  PROVE  /\ \A t \in Thread : /\ Start(rel, t) \in Nat /\ End(rel, t) \in Nat
                              /\ Start(rel, t) <= End(rel, t) /\ End(rel, t) <= Size(rel)
                              /\ Slice(rel, t) \subseteq Index(rel)
         /\ \A i \in Index(rel) : Owner(Size(rel), i) \in Thread
         /\ \A i \in Index(rel), t \in Thread :
              /\ Owner(Size(rel), i) = t <=> i \in Slice(rel, t)
              /\ Owner(Size(rel), i) < t <=> i < Start(rel, t)
<1> DEFINE n == Size(rel)
<1>1. n \in Nat /\ Index(rel) = 0 .. n - 1
  BY InputFacts
<1>2. \A t : Start(rel, t) = Cut(n, t) /\ End(rel, t) = Cut(n, t + 1)
  BY DEF Start, End, Cut
<1>3. \A t \in Thread : t \in Nat /\ t + 1 \in Nat /\ t <= t + 1 /\ t + 1 <= T
  BY ThreadAssumption DEF Thread
<1> HIDE DEF n
<1>4. ASSUME NEW t \in Thread
      PROVE  /\ Start(rel, t) \in Nat /\ End(rel, t) \in Nat
             /\ Start(rel, t) <= End(rel, t) /\ End(rel, t) <= n
  <2>1. Cut(n, t) \in Nat /\ Cut(n, t + 1) \in Nat /\ Cut(n, t) <= Cut(n, t + 1)
    BY <1>1, <1>3, CutIs
  <2>2. Cut(n, t + 1) <= Cut(n, T) /\ Cut(n, T) = n
    BY <1>1, <1>3, CutIs, ThreadAssumption
  <2> QED
    BY <2>1, <2>2, <1>2
<1>5. ASSUME NEW t \in Thread PROVE Slice(rel, t) \subseteq Index(rel)
  BY <1>1, <1>4 DEF Slice
<1>6. ASSUME NEW i \in Index(rel)
      PROVE  /\ Owner(n, i) \in Thread
             /\ \A t \in Thread : /\ Owner(n, i) = t <=> i \in Slice(rel, t)
                                  /\ Owner(n, i) < t <=> i < Start(rel, t)
  <2>1. i \in 0 .. n - 1 /\ i \in Nat
    BY <1>1
  <2>2. Owner(n, i) \in Thread
    BY <1>1, <2>1, Owners
  <2>3. ASSUME NEW t \in Thread
        PROVE  /\ Owner(n, i) = t <=> Cut(n, t) <= i /\ i < Cut(n, t + 1)
               /\ Owner(n, i) < t <=> i < Cut(n, t)
    BY <1>1, <1>3, <2>1, Owners
  <2>4. ASSUME NEW t \in Thread PROVE i \in Slice(rel, t) <=> Start(rel, t) <= i /\ i < End(rel, t)
    BY <2>1, <1>4 DEF Slice
  <2> QED
    BY <2>2, <2>3, <2>4, <1>2
<1> QED
  BY <1>4, <1>5, <1>6 DEF n

LEMMA PlaceFacts ==
  ASSUME Inputs, bits \in Nat, NEW rel \in Relation
  PROVE  /\ \A i \in Index(rel) :
              /\ PlaceOf(rel, i) \in Index(rel)
              /\ PlaceOf(rel, i) = TuplesBelow(rel, BucketOf(input[rel][i])) +
                                   Rank(Members(rel, BucketOf(input[rel][i])), i)
         /\ \A i, j \in Index(rel) : PlaceOf(rel, i) = PlaceOf(rel, j) => i = j
         /\ \A b \in Nat : TuplesBelow(rel, b) \in Nat
         /\ TuplesBelow(rel, 0) = 0 /\ TuplesBelow(rel, Buckets) = Size(rel)
         /\ \A b \in Nat :
              TuplesBelow(rel, b + 1) = TuplesBelow(rel, b) + Cardinality(Members(rel, b))
<1> DEFINE A == Index(rel)
           c == BucketMap(rel)
<1>1. FiniteNumbers(A) /\ Cardinality(A) = Size(rel) /\ A = 0 .. Size(rel) - 1 /\ Size(rel) \in Nat
  BY InputFacts
<1>2. \A i \in A : c[i] = BucketOf(input[rel][i]) /\ c[i] \in Bucket
  BY BucketFacts
<1>3. \A b : Members(rel, b) = Shared(A, c, {b})
  BY BucketFacts
<1>4. \A i \in A : c[i] \in Nat /\ c[i] + 1 \in Nat /\ c[i] + 1 <= Buckets /\ c[i] \in 0 .. Buckets - 1
  BY <1>2, BucketsAreNumbers DEF Bucket
<1>5. Buckets \in Nat
  BY BucketsAreNumbers
<1> HIDE DEF A, c
<1>6. \A i \in A : Place(A, c, i) = Below(A, c, c[i]) + Rank(Shared(A, c, {c[i]}), i)
  BY DEF Place
<1>7. \A i, j \in A : Place(A, c, i) = Place(A, c, j) => i = j
  BY <1>1, <1>4, PlacesApart
<1>8. \A b \in Nat : Below(A, c, b) \in Nat
  BY <1>1, BelowStep
<1>9. Below(A, c, 0) = 0 /\ Below(A, c, Buckets) = Size(rel)
  BY <1>1, <1>4, <1>5, BelowNone, BelowAll
<1>10. \A b \in Nat : Below(A, c, b + 1) = Below(A, c, b) + Cardinality(Shared(A, c, {b}))
  BY <1>1, BelowStep
<1>11. \A i \in A : Place(A, c, i) \in A
  <2> TAKE i \in A
  <2>1. Place(A, c, i) \in Nat /\ Place(A, c, i) < Below(A, c, c[i] + 1)
    BY <1>1, <1>4, PlaceInBucket
  <2>2. Below(A, c, c[i] + 1) <= Below(A, c, Buckets) /\ Below(A, c, c[i] + 1) \in Nat
    BY <1>1, <1>4, <1>5, <1>8, BelowGrows
  <2> QED
    BY <2>1, <2>2, <1>1, <1>9
<1>12. \A i \in A : Place(A, c, i) = Below(A, c, BucketOf(input[rel][i])) +
                                      Rank(Members(rel, BucketOf(input[rel][i])), i)
  BY <1>2, <1>3, <1>6
<1> QED
  BY <1>3, <1>7, <1>8, <1>9, <1>10, <1>11, <1>12 DEF A, c, PlaceOf, TuplesBelow


\* The histograms of some threads and buckets add up to what these share.
LEMMA CountsAddUp ==
  ASSUME Inputs, bits \in Nat, NEW rel \in Relation, \A t \in Thread : Counted(rel, t),
         NEW Q \in SUBSET (Thread \X Bucket), IsFiniteSet(Q)
  PROVE  SumCounts(rel, Q) =
           Cardinality({i \in Index(rel) : <<Owner(Size(rel), i), BucketOf(input[rel][i])>> \in Q})
<1> DEFINE A == Index(rel)
           c == [i \in A |-> <<Owner(Size(rel), i), BucketOf(input[rel][i])>>]
           f == [tb \in Thread \X Bucket |-> counts[rel][tb[1]][tb[2]]]
<1>1. IsFiniteSet(A)
  BY InputFacts DEF FiniteNumbers
<1>2. \A q \in Q : f[q] = Cardinality(Shared(A, c, {q}))
  <2> TAKE q \in Q
  <2>1. PICK t \in Thread, b \in Bucket : q = <<t, b>>
    OBVIOUS
  <2>2. f[q] = counts[rel][t][b]
    BY <2>1
  <2>3. counts[rel][t][b] = Cardinality({i \in Slice(rel, t) : BucketOf(input[rel][i]) = b})
    BY <2>1 DEF Counted
  <2>4. \A i \in A : c[i] \in {q} <=> i \in Slice(rel, t) /\ BucketOf(input[rel][i]) = b
    <3> TAKE i \in A
    <3>1. c[i] = <<Owner(Size(rel), i), BucketOf(input[rel][i])>>
      OBVIOUS
    <3>2. Owner(Size(rel), i) = t <=> i \in Slice(rel, t)
      BY SliceFacts
    <3> HIDE DEF c
    <3> QED
      BY <3>1, <3>2, <2>1
  <2>5. Slice(rel, t) \subseteq A
    BY SliceFacts
  <2> HIDE DEF A, c, f
  <2>6. Shared(A, c, {q}) = {i \in Slice(rel, t) : BucketOf(input[rel][i]) = b}
    BY <2>4, <2>5 DEF Shared
  <2> QED
    BY <2>2, <2>3, <2>6
<1>3. SumCounts(rel, Q) = SumFunctionOnSet(f, Q)
  BY DEF SumCounts
<1>4. SumFunctionOnSet(f, Q) = Cardinality(Shared(A, c, Q))
  <2> HIDE DEF A, c, f
  <2> QED
    BY <1>1, <1>2, SumOfCounts
<1>5. Shared(A, c, Q) = {i \in A : <<Owner(Size(rel), i), BucketOf(input[rel][i])>> \in Q}
  BY DEF Shared
<1> QED
  BY <1>3, <1>4, <1>5

\* The offsets that PrefixSums computes: where a bucket begins, and what a thread leaves room for.
LEMMA SumsAreRanks ==
  ASSUME Inputs, bits \in Nat, NEW rel \in Relation, \A t \in Thread : Counted(rel, t)
  PROVE  /\ \A b \in 0 .. Buckets : BucketStart(rel, b) = TuplesBelow(rel, b)
         /\ \A t \in Thread, b \in Bucket :
              WriteStart(rel, t, b) = TuplesBelow(rel, b) + Rank(Members(rel, b), Start(rel, t))
<1> DEFINE o(i) == Owner(Size(rel), i)
           d(i) == BucketOf(input[rel][i])
<1>1. \A i \in Index(rel) : o(i) \in Thread /\ d(i) \in Bucket
  BY SliceFacts, BucketFacts
<1>2. Buckets \in Nat \ {0} /\ T \in Nat
  BY BucketsAreNumbers, ThreadAssumption
<1>3. ASSUME NEW b \in 0 .. Buckets PROVE BucketStart(rel, b) = TuplesBelow(rel, b)
  <2> DEFINE Q == Thread \X (0 .. b - 1)
  <2>1. b \in Nat /\ 0 .. b - 1 \subseteq Bucket
    BY <1>2 DEF Bucket
  <2>2. Q \in SUBSET (Thread \X Bucket)
    BY <2>1
  <2>3. IsFiniteSet(Q)
    <3>1. IsFiniteSet(Thread) /\ IsFiniteSet(0 .. b - 1)
      BY <1>2, <2>1, IntervalsAreFinite DEF Thread
    <3> QED
      BY <3>1, FS_Product
  <2>4. {i \in Index(rel) : <<o(i), d(i)>> \in Q} = Shared(Index(rel), BucketMap(rel), 0 .. b - 1)
    <3>1. \A i \in Index(rel) : <<o(i), d(i)>> \in Q <=> d(i) \in 0 .. b - 1
      BY <1>1
    <3>2. \A i \in Index(rel) : BucketMap(rel)[i] = d(i)
      BY BucketFacts
    <3> HIDE DEF o, d, Q
    <3> QED
      BY <3>1, <3>2 DEF Shared
  <2>5. SumCounts(rel, Q) = Cardinality({i \in Index(rel) : <<o(i), d(i)>> \in Q})
    <3> HIDE DEF Q
    <3> QED
      BY <2>2, <2>3, CountsAddUp
  <2> QED
    BY <2>4, <2>5 DEF BucketStart, TuplesBelow, Below
<1>4. ASSUME NEW t \in Thread, NEW b \in Bucket
      PROVE  SumCounts(rel, (0 .. t - 1) \X {b}) = Rank(Members(rel, b), Start(rel, t))
  <2> DEFINE Q == (0 .. t - 1) \X {b}
  <2>1. t \in Nat /\ 0 .. t - 1 \subseteq Thread
    BY <1>2 DEF Thread
  <2>2. Q \in SUBSET (Thread \X Bucket)
    BY <2>1
  <2>3. IsFiniteSet(Q)
    <3>1. IsFiniteSet(0 .. t - 1) /\ IsFiniteSet({b})
      BY <2>1, IntervalsAreFinite, FS_Singleton
    <3> QED
      BY <3>1, FS_Product
  <2>4. {i \in Index(rel) : <<o(i), d(i)>> \in Q} = {i \in Members(rel, b) : i < Start(rel, t)}
    <3>1. \A i \in Index(rel) : <<o(i), d(i)>> \in Q <=> i < Start(rel, t) /\ d(i) = b
      <4> TAKE i \in Index(rel)
      <4>1. o(i) < t <=> i < Start(rel, t)
        BY SliceFacts
      <4>2. o(i) \in Nat
        BY <1>1, <1>2 DEF Thread
      <4>3. o(i) \in 0 .. t - 1 <=> o(i) < t
        BY <4>2, <2>1
      <4> QED
        BY <4>1, <4>3
    <3> HIDE DEF o, Q
    <3> QED
      BY <3>1 DEF Members, Index
  <2>5. SumCounts(rel, Q) = Cardinality({i \in Index(rel) : <<o(i), d(i)>> \in Q})
    <3> HIDE DEF Q
    <3> QED
      BY <2>2, <2>3, CountsAddUp
  <2> QED
    BY <2>4, <2>5 DEF Rank
<1>5. ASSUME NEW t \in Thread, NEW b \in Bucket
      PROVE  WriteStart(rel, t, b) = TuplesBelow(rel, b) + Rank(Members(rel, b), Start(rel, t))
  <2>1. b \in 0 .. Buckets
    BY BucketsAreNumbers
  <2> QED
    BY <2>1, <1>3, <1>4 DEF WriteStart
<1> QED
  BY <1>3, <1>5


LEMMA RadixBitsIsNumber == RadixBits \in Nat
<1> DEFINE S == {n \in 0 .. 16 : (Size("R") * 65) \div PowerOfTwo[n] <= Share} \cup {16}
<1>1. S \in SUBSET Nat /\ S # {}
  OBVIOUS
<1>2. RadixBits = Min(S)
  BY DEF RadixBits, LeastUpTo
<1> HIDE DEF S
<1> QED
  BY <1>1, <1>2, MinIsLeast

LEMMA PartitioningInitially == Init => Partitioning
<1> SUFFICES ASSUME Init PROVE Partitioning
  OBVIOUS
<1> USE DEF Init
<1>1. Inputs
  BY DEF Inputs
<1>2. bits \in Nat
  BY RadixBitsIsNumber
<1>3. \A rel \in Relation, t \in Thread : Start(rel, t) \in Nat
  BY <1>1, SliceFacts
<1>4. PartitioningTypes
  BY <1>1, <1>2, <1>3 DEF PartitioningTypes, Index
<1>5. ASSUME NEW rel \in Relation PROVE Counting(rel)
  <2>1. ASSUME NEW t \in Thread, Start(rel, t) = End(rel, t) PROVE Counted(rel, t)
    <3>1. Start(rel, t) \in Nat
      BY <1>3
    <3>2. {i \in Slice(rel, t) : TRUE} = {}
      BY <2>1, <3>1 DEF Slice
    <3>3. \A b : {i \in Slice(rel, t) : BucketOf(input[rel][i]) = b} = {}
      BY <3>2
    <3> QED
      BY <3>3, FS_EmptySet DEF Counted
  <2> QED
    BY <2>1 DEF Counting
<1> QED
  BY <1>4, <1>5 DEF Partitioning

\* What depends on the relations and the number of bits alone.
LEMMA SameInput ==
  ASSUME UNCHANGED <<input, bits>>, NEW rel
  PROVE  /\ Index(rel)' = Index(rel) /\ Size(rel)' = Size(rel)
         /\ Inputs' = Inputs /\ Bucket' = Bucket /\ Buckets' = Buckets
         /\ BucketMap(rel)' = BucketMap(rel)
         /\ \A t : /\ Start(rel, t)' = Start(rel, t) /\ End(rel, t)' = End(rel, t)
                   /\ Slice(rel, t)' = Slice(rel, t)
         /\ \A b : Members(rel, b)' = Members(rel, b) /\ TuplesBelow(rel, b)' = TuplesBelow(rel, b)
         /\ \A i : PlaceOf(rel, i)' = PlaceOf(rel, i)
<1>1. Index(rel)' = Index(rel) /\ Size(rel)' = Size(rel) /\ Inputs' = Inputs
  BY DEF Index, Size, Inputs
<1>2. Bucket' = Bucket /\ Buckets' = Buckets
  BY DEF Bucket, Buckets
<1>3. BucketMap(rel)' = BucketMap(rel)
  BY <1>1, <1>2 DEF BucketMap, BucketOf
<1>4. \A t : Start(rel, t)' = Start(rel, t) /\ End(rel, t)' = End(rel, t)
  BY <1>1 DEF Start, End
<1>5. \A t : Slice(rel, t)' = Slice(rel, t)
  BY <1>4 DEF Slice
<1>6. \A b : Members(rel, b)' = Members(rel, b)
  BY <1>2 DEF Members, BucketOf
<1>7. \A b : TuplesBelow(rel, b)' = TuplesBelow(rel, b)
  BY <1>1, <1>3 DEF TuplesBelow
<1>8. \A i : PlaceOf(rel, i)' = PlaceOf(rel, i)
  BY <1>1, <1>3 DEF PlaceOf
<1> QED
  BY <1>1, <1>2, <1>3, <1>4, <1>5, <1>6, <1>7, <1>8

\* The part of the invariant that is about one relation.
OneRelation(rel) ==
  /\ phase[rel] = "count" => Counting(rel)
  /\ phase[rel] = "scatter" => Scattering(rel)
  /\ phase[rel] = "copied" => Copied(rel)

Untouched(rel) ==
  /\ UNCHANGED <<input, bits>>
  /\ UNCHANGED <<phase[rel], counts[rel], pos[rel], write_offsets[rel], data[rel], offsets[rel]>>

LEMMA UntouchedKeeps ==
  ASSUME NEW rel \in Relation, OneRelation(rel), Untouched(rel)
  PROVE  OneRelation(rel)'
<1> USE SameInput DEF Untouched
<1>1. ASSUME NEW t \in Thread, Counted(rel, t) PROVE Counted(rel, t)'
  <2>1. \A b : {i \in Slice(rel, t) : BucketOf(input[rel][i]) = b}' =
                 {i \in Slice(rel, t) : BucketOf(input[rel][i]) = b}
    BY DEF BucketOf
  <2> QED
    BY <1>1, <2>1 DEF Counted
<1>2. Counting(rel) => Counting(rel)'
  BY <1>1 DEF Counting
<1>3. OffsetsExact(rel) => OffsetsExact(rel)'
  BY DEF OffsetsExact
<1>4. ASSUME NEW t \in Thread, Scattered(rel, t) PROVE Scattered(rel, t)'
  BY <1>4 DEF Scattered
<1>5. Scattering(rel) => Scattering(rel)'
  BY <1>3, <1>4 DEF Scattering
<1>6. Copied(rel) => Copied(rel)'
  BY DEF Copied
<1>7. phase[rel]' = phase[rel]
  OBVIOUS
<1> QED
  BY <1>2, <1>5, <1>6, <1>7 DEF OneRelation

\* Between the relations: what one of them does leaves the other alone.
LEMMA RelationByRelation ==
  ASSUME Partitioning, NEW rel \in Relation, PartitioningTypes', OneRelation(rel)',
         \A other \in Relation : other # rel => Untouched(other)
  PROVE  Partitioning'
<1>1. ASSUME NEW other \in Relation PROVE OneRelation(other)'
  <2>1. CASE other = rel
    BY <2>1
  <2>2. CASE other # rel
    <3>1. OneRelation(other) /\ Untouched(other)
      BY <2>2 DEF Partitioning, OneRelation
    <3> QED
      BY <3>1, UntouchedKeeps
  <2> QED
    BY <2>1, <2>2
<1> QED
  BY <1>1 DEF Partitioning, OneRelation


LEMMA CopyWholeKeeps ==
  ASSUME Partitioning, NEW rel \in Relation, CopyWhole(rel)
  PROVE  Partitioning'
<1> USE DEF CopyWhole
<1>1. PartitioningTypes /\ UNCHANGED <<input, bits>>
  BY DEF Partitioning
<1>2. PartitioningTypes'
  BY <1>1, SameInput DEF PartitioningTypes, Index
<1>3. phase'[rel] = "copied" /\ data'[rel] = input[rel] /\
      offsets'[rel] = [b \in 0 .. 1 |-> b * Size(rel)]
  BY <1>1 DEF PartitioningTypes
<1>4. OneRelation(rel)'
  BY <1>3, SameInput DEF OneRelation, Copied
<1>5. \A other \in Relation : other # rel => Untouched(other)
  BY <1>1 DEF PartitioningTypes, Untouched
<1> QED
  BY <1>2, <1>4, <1>5, RelationByRelation

LEMMA CountKeeps ==
  ASSUME Partitioning, NEW rel \in Relation, NEW t \in Thread, Count(rel, t)
  PROVE  Partitioning'
<1> USE DEF Count
<1>1. PartitioningTypes /\ UNCHANGED <<input, bits>> /\ Counting(rel)
  BY DEF Partitioning
<1> DEFINE histogram == [b \in Bucket |->
             Cardinality({i \in Slice(rel, t) : BucketOf(input[rel][i]) = b})]
<1>2. histogram \in [Bucket -> Nat]
  <2>1. ASSUME NEW b \in Bucket
        PROVE  Cardinality({i \in Slice(rel, t) : BucketOf(input[rel][i]) = b}) \in Nat
    <3>1. {i \in Slice(rel, t) : BucketOf(input[rel][i]) = b} \in SUBSET Index(rel)
      BY <1>1, SliceFacts DEF PartitioningTypes
    <3>2. IsFiniteSet(Index(rel))
      BY <1>1, InputFacts DEF PartitioningTypes, FiniteNumbers
    <3> QED
      BY <3>1, <3>2, FS_Subset, FS_CardinalityType
  <2> QED
    BY <2>1
<1>3. End(rel, t) \in Nat
  BY <1>1, SliceFacts DEF PartitioningTypes
<1>4. counts' = [counts EXCEPT ![rel] = [counts[rel] EXCEPT ![t] = histogram]] /\
      pos' = [pos EXCEPT ![rel] = [pos[rel] EXCEPT ![t] = End(rel, t)]]
  OBVIOUS
<1> HIDE DEF histogram
<1>5. counts' \in [Relation -> [Thread -> [Bucket -> Nat]]] /\ pos' \in [Relation -> [Thread -> Nat]]
  <2> DEFINE Histogram == [Bucket -> Nat]
  <2>1. counts \in [Relation -> [Thread -> Histogram]] /\ histogram \in Histogram
    BY <1>1, <1>2 DEF PartitioningTypes
  <2>2. pos \in [Relation -> [Thread -> Nat]]
    BY <1>1 DEF PartitioningTypes
  <2> HIDE DEF Histogram
  <2>3. counts' \in [Relation -> [Thread -> Histogram]]
    <3>1. counts' = [counts EXCEPT ![rel] = [counts[rel] EXCEPT ![t] = histogram]]
      BY <1>4
    <3>2. counts[rel] \in [Thread -> Histogram]
      BY <2>1
    <3>3. [counts[rel] EXCEPT ![t] = histogram] \in [Thread -> Histogram]
      BY <2>1, <3>2
    <3> QED
      BY <2>1, <3>1, <3>3
  <2>4. pos' \in [Relation -> [Thread -> Nat]]
    BY <2>2, <1>3, <1>4
  <2> QED
    BY <2>3, <2>4 DEF Histogram
<1>6. PartitioningTypes'
  BY <1>1, <1>5, SameInput DEF PartitioningTypes, Index
<1>7. /\ counts'[rel][t] = histogram /\ pos'[rel][t] = End(rel, t)
      /\ \A u \in Thread \ {t} : counts'[rel][u] = counts[rel][u] /\ pos'[rel][u] = pos[rel][u]
  BY <1>1, <1>4 DEF PartitioningTypes
<1>8. \A b : {i \in Slice(rel, t) : BucketOf(input[rel][i]) = b}' =
               {i \in Slice(rel, t) : BucketOf(input[rel][i]) = b}
  BY <1>1, SameInput DEF BucketOf
<1>9. Counted(rel, t)'
  BY <1>1, <1>7, <1>8, SameInput DEF Counted, histogram
<1>10. ASSUME NEW u \in Thread \ {t}, Counted(rel, u) PROVE Counted(rel, u)'
  <2>1. \A b : {i \in Slice(rel, u) : BucketOf(input[rel][i]) = b}' =
                 {i \in Slice(rel, u) : BucketOf(input[rel][i]) = b}
    BY <1>1, SameInput DEF BucketOf
  <2> QED
    BY <1>1, <1>7, <1>10, <2>1, SameInput DEF Counted
<1>11. Counting(rel)'
  <2> SUFFICES ASSUME NEW u \in Thread
               PROVE  \/ pos'[rel][u] = Start(rel, u) /\ Start(rel, u) # End(rel, u)
                      \/ pos'[rel][u] = End(rel, u) /\ Counted(rel, u)'
    BY <1>1, SameInput DEF Counting
  <2>1. CASE u = t
    BY <2>1, <1>7, <1>9
  <2>2. CASE u # t
    BY <2>2, <1>1, <1>7, <1>10 DEF Counting
  <2> QED
    BY <2>1, <2>2
<1>12. OneRelation(rel)'
  BY <1>11 DEF OneRelation
<1>13. \A other \in Relation : other # rel => Untouched(other)
  BY <1>1, <1>4 DEF PartitioningTypes, Untouched
<1> QED
  BY <1>6, <1>12, <1>13, RelationByRelation

LEMMA PrefixSumsKeeps ==
  ASSUME Partitioning, NEW rel \in Relation, PrefixSums(rel)
  PROVE  Partitioning'
<1> USE DEF PrefixSums
<1>1. PartitioningTypes /\ UNCHANGED <<input, bits>> /\ Counting(rel) /\ Inputs /\ bits \in Nat
  BY DEF Partitioning, PartitioningTypes
<1>2. \A t \in Thread : Counted(rel, t)
  BY <1>1 DEF Counting, SlicesDone
<1>3. /\ \A b \in 0 .. Buckets : BucketStart(rel, b) = TuplesBelow(rel, b)
      /\ \A t \in Thread, b \in Bucket :
           WriteStart(rel, t, b) = TuplesBelow(rel, b) + Rank(Members(rel, b), Start(rel, t))
  BY <1>1, <1>2, SumsAreRanks
<1>4. \A t \in Thread, b \in Bucket : WriteStart(rel, t, b) \in Nat
  <2> TAKE t \in Thread, b \in Bucket
  <2>1. TuplesBelow(rel, b) \in Nat
    BY <1>1, PlaceFacts, BucketsAreNumbers
  <2>2. FiniteNumbers(Members(rel, b))
    BY <1>1, BucketFacts
  <2>3. Rank(Members(rel, b), Start(rel, t)) \in Nat
    BY <2>2, RankType
  <2> QED
    BY <2>1, <2>3, <1>3
<1>5. \A t \in Thread : Start(rel, t) \in Nat /\ Start(rel, t) <= End(rel, t)
  BY <1>1, SliceFacts
<1>6. /\ phase'[rel] = "scatter" /\ data'[rel] = data[rel]
      /\ pos'[rel] = [t \in Thread |-> Start(rel, t)]
      /\ offsets'[rel] = [b \in 0 .. Buckets |-> BucketStart(rel, b)]
      /\ write_offsets'[rel] = [t \in Thread |-> [b \in Bucket |-> WriteStart(rel, t, b)]]
  BY <1>1 DEF PartitioningTypes
<1>7. write_offsets' \in [Relation -> [Thread -> [Bucket -> Nat]]] /\
      pos' \in [Relation -> [Thread -> Nat]]
  BY <1>1, <1>4, <1>5 DEF PartitioningTypes
<1>8. PartitioningTypes'
  BY <1>1, <1>7, SameInput DEF PartitioningTypes, Index
<1>9. OffsetsExact(rel)'
  <2>1. \A b \in 0 .. Buckets : offsets'[rel][b] = TuplesBelow(rel, b)
    BY <1>3, <1>6
  <2>2. Buckets' = Buckets /\ \A b : TuplesBelow(rel, b)' = TuplesBelow(rel, b)
    BY <1>1, SameInput
  <2> QED
    BY <2>1, <2>2 DEF OffsetsExact
<1>10. ASSUME NEW t \in Thread PROVE Scattered(rel, t)'
  <2>1. pos'[rel][t] = Start(rel, t)
    BY <1>6
  <2>2. \A b \in Bucket : write_offsets'[rel][t][b] =
          TuplesBelow(rel, b) + Rank(Members(rel, b), Start(rel, t))
    BY <1>3, <1>6
  <2>3. \A i \in Slice(rel, t) : ~(i < Start(rel, t))
    <3> TAKE i \in Slice(rel, t)
    <3>1. i \in Index(rel)
      BY <1>1, SliceFacts
    <3>2. Start(rel, t) <= i /\ i \in Nat
      BY <3>1, <1>1, <1>5, InputFacts DEF Slice
    <3> QED
      BY <3>2, <1>5
  <2>4. Start(rel, t)' = Start(rel, t) /\ End(rel, t)' = End(rel, t) /\ Slice(rel, t)' = Slice(rel, t)
    BY <1>1, SameInput
  <2>5. Bucket' = Bucket
    BY <1>1, SameInput
  <2>6. \A b : Members(rel, b)' = Members(rel, b) /\ TuplesBelow(rel, b)' = TuplesBelow(rel, b)
    BY <1>1, SameInput
  <2> QED
    BY <2>1, <2>2, <2>3, <2>4, <2>5, <2>6, <1>5 DEF Scattered
<1>11. OneRelation(rel)'
  BY <1>6, <1>9, <1>10 DEF OneRelation, Scattering
<1>12. \A other \in Relation : other # rel => Untouched(other)
  BY <1>1 DEF PartitioningTypes, Untouched
<1> QED
  BY <1>8, <1>11, <1>12, RelationByRelation


\* A thread that scatters writes a tuple where it belongs, and nowhere another one is.
LEMMA ScatterKeeps ==
  ASSUME Partitioning, NEW rel \in Relation, NEW t \in Thread, Scatter(rel, t)
  PROVE  Partitioning'
<1> DEFINE i == pos[rel][t]
           tuple == input[rel][i]
           b == BucketOf(tuple)
           w == write_offsets[rel][t][b]
<1>1. PartitioningTypes /\ UNCHANGED <<input, bits>> /\ Scattering(rel) /\ Inputs /\ bits \in Nat
  BY DEF Scatter, Partitioning, PartitioningTypes
<1>2. /\ Start(rel, t) \in Nat /\ End(rel, t) \in Nat
      /\ Start(rel, t) <= i /\ i <= End(rel, t) /\ i # End(rel, t) /\ i \in Nat
  BY <1>1, SliceFacts DEF Scatter, Scattering, Scattered, PartitioningTypes
<1>3. i \in Slice(rel, t) /\ i \in Index(rel)
  <2>1. i \in Slice(rel, t)
    BY <1>2 DEF Slice
  <2> QED
    BY <2>1, <1>1, SliceFacts
<1>4. b \in Bucket /\ i \in Members(rel, b)
  BY <1>1, <1>3, BucketFacts
<1>5. w = PlaceOf(rel, i) /\ w \in Nat
  <2>1. w = TuplesBelow(rel, b) + Rank(Members(rel, b), i)
    BY <1>1, <1>4 DEF Scattering, Scattered
  <2>2. PlaceOf(rel, i) = TuplesBelow(rel, b) + Rank(Members(rel, b), i)
    BY <1>1, <1>3, PlaceFacts
  <2>3. PlaceOf(rel, i) \in Index(rel)
    BY <1>1, <1>3, PlaceFacts
  <2>4. PlaceOf(rel, i) \in Nat
    BY <2>3, <1>1, InputFacts
  <2> HIDE DEF w
  <2> QED
    BY <2>1, <2>2, <2>4
<1>6. /\ data' = [data EXCEPT ![rel] = [data[rel] EXCEPT ![w] = tuple]]
      /\ write_offsets' = [write_offsets EXCEPT ![rel] = [write_offsets[rel] EXCEPT
           ![t] = [write_offsets[rel][t] EXCEPT ![b] = w + 1]]]
      /\ pos' = [pos EXCEPT ![rel] = [pos[rel] EXCEPT ![t] = i + 1]]
      /\ UNCHANGED <<phase, counts, offsets>> /\ phase[rel] = "scatter"
  BY DEF Scatter
<1> HIDE DEF i, tuple, b, w
<1>7. /\ data'[rel] = [data[rel] EXCEPT ![w] = tuple]
      /\ pos'[rel][t] = i + 1
      /\ write_offsets'[rel][t] = [write_offsets[rel][t] EXCEPT ![b] = w + 1]
      /\ \A u \in Thread \ {t} : pos'[rel][u] = pos[rel][u] /\
                                 write_offsets'[rel][u] = write_offsets[rel][u]
  BY <1>1, <1>6 DEF PartitioningTypes
<1>8. PartitioningTypes'
  <2> DEFINE Histogram == [Bucket -> Nat]
  <2>1. write_offsets \in [Relation -> [Thread -> Histogram]] /\ pos \in [Relation -> [Thread -> Nat]]
    BY <1>1 DEF PartitioningTypes
  <2>2. [write_offsets[rel][t] EXCEPT ![b] = w + 1] \in Histogram
    BY <2>1, <1>4, <1>5
  <2> HIDE DEF Histogram
  <2>3. write_offsets' \in [Relation -> [Thread -> Histogram]]
    BY <2>1, <2>2, <1>6
  <2>4. pos' \in [Relation -> [Thread -> Nat]]
    BY <2>1, <1>2, <1>6
  <2>5. DOMAIN data' = Relation /\ \A r \in Relation : DOMAIN data'[r] = Index(r)
    BY <1>1, <1>6 DEF PartitioningTypes
  <2>6. write_offsets' \in [Relation -> [Thread -> [Bucket -> Nat]]]
    BY <2>3 DEF Histogram
  <2> QED
    BY <2>4, <2>5, <2>6, <1>1, <1>6, SameInput DEF PartitioningTypes, Index
<1>9. OffsetsExact(rel)'
  BY <1>1, <1>6, SameInput DEF OffsetsExact, Scattering
<1>10. /\ Bucket' = Bucket
       /\ \A u : Start(rel, u)' = Start(rel, u) /\ End(rel, u)' = End(rel, u) /\
                 Slice(rel, u)' = Slice(rel, u)
       /\ \A c : Members(rel, c)' = Members(rel, c) /\ TuplesBelow(rel, c)' = TuplesBelow(rel, c)
       /\ \A j : PlaceOf(rel, j)' = PlaceOf(rel, j)
       /\ input' = input
  BY <1>1, SameInput
<1>11. data'[rel][PlaceOf(rel, i)] = input[rel][i]
  <2>1. w \in DOMAIN data[rel]
    BY <1>1, <1>3, <1>5, PlaceFacts DEF PartitioningTypes
  <2> QED
    BY <2>1, <1>5, <1>7 DEF tuple
<1>12. ASSUME NEW u \in Thread, NEW j \in Slice(rel, u), j < pos[rel][u]
       PROVE  data'[rel][PlaceOf(rel, j)] = input[rel][j]
  <2>1. data[rel][PlaceOf(rel, j)] = input[rel][j]
    BY <1>1, <1>12 DEF Scattering, Scattered
  <2>2. j \in Index(rel) /\ j \in Nat
    BY <1>1, SliceFacts, InputFacts
  <2>3. j # i
    <3> SUFFICES ASSUME j = i PROVE FALSE
      OBVIOUS
    <3>1. u = t
      BY <1>1, <1>3, <2>2, SliceFacts
    <3> QED
      BY <3>1, <1>12, <1>2 DEF i
  <2>4. PlaceOf(rel, j) # w
    BY <2>2, <2>3, <1>1, <1>3, <1>5, PlaceFacts
  <2>5. data'[rel][PlaceOf(rel, j)] = data[rel][PlaceOf(rel, j)]
    <3>1. PlaceOf(rel, j) \in DOMAIN data[rel]
      BY <2>2, <1>1, PlaceFacts DEF PartitioningTypes
    <3> QED
      BY <3>1, <2>4, <1>7
  <2> QED
    BY <2>1, <2>5
<1>13. ASSUME NEW u \in Thread \ {t} PROVE Scattered(rel, u)'
  BY <1>1, <1>7, <1>10, <1>12 DEF Scattering, Scattered
<1>14. Scattered(rel, t)'
  <2>1. Start(rel, t) <= i + 1 /\ i + 1 <= End(rel, t)
    BY <1>2
  <2>2. \A c \in Bucket : write_offsets'[rel][t][c] = TuplesBelow(rel, c) + Rank(Members(rel, c), i + 1)
    <3> TAKE c \in Bucket
    <3>1. write_offsets[rel][t][c] = TuplesBelow(rel, c) + Rank(Members(rel, c), i)
      BY <1>1 DEF Scattering, Scattered, i
    <3>2. FiniteNumbers(Members(rel, c)) /\ TuplesBelow(rel, c) \in Nat
      BY <1>1, BucketFacts, PlaceFacts, BucketsAreNumbers
    <3>3. Rank(Members(rel, c), i + 1) =
            IF i \in Members(rel, c) THEN Rank(Members(rel, c), i) + 1 ELSE Rank(Members(rel, c), i)
      BY <3>2, <1>2, RankStep
    <3>4. Rank(Members(rel, c), i) \in Nat
      BY <3>2, RankType
    <3>5. i \in Members(rel, c) <=> c = b
      BY <1>3 DEF Members, b, tuple, Index
    <3>6. c \in DOMAIN write_offsets[rel][t]
      BY <1>1 DEF PartitioningTypes
    <3>7. write_offsets'[rel][t][c] =
            IF c = b THEN write_offsets[rel][t][c] + 1 ELSE write_offsets[rel][t][c]
      BY <3>6, <1>7 DEF w
    <3> QED
      BY <3>1, <3>2, <3>3, <3>4, <3>5, <3>7
  <2>3. \A j \in Slice(rel, t) : j < i + 1 => data'[rel][PlaceOf(rel, j)] = input[rel][j]
    <3> TAKE j \in Slice(rel, t)
    <3>1. j \in Nat
      BY <1>1, SliceFacts, InputFacts
    <3>2. CASE j < i
      BY <3>2, <1>12 DEF i
    <3>3. CASE j = i
      BY <3>3, <1>11
    <3> QED
      BY <3>1, <3>2, <3>3, <1>2
  <2> QED
    BY <2>1, <2>2, <2>3, <1>7, <1>10 DEF Scattered
<1>15. OneRelation(rel)'
  BY <1>6, <1>9, <1>13, <1>14 DEF OneRelation, Scattering
<1>16. \A other \in Relation : other # rel => Untouched(other)
  BY <1>1, <1>6 DEF PartitioningTypes, Untouched
<1> QED
  BY <1>8, <1>15, <1>16, RelationByRelation


LEMMA PlacedWhenCopied ==
  ASSUME Partitioning, NEW rel \in Relation, phase[rel] = "copied"
  PROVE  Placed(rel)
<1> DEFINE n == Size(rel)
<1>1. Copied(rel) /\ Inputs /\ bits = 0
  BY DEF Partitioning, PartitioningTypes, Copied
<1>2. Buckets = 1 /\ Bucket = {0}
  BY <1>1, PowerOfTwoIs DEF Buckets, Bucket
<1>3. n \in Nat /\ Index(rel) = 0 .. n - 1
  BY <1>1, InputFacts
<1> HIDE DEF n
<1>4. \A i \in Index(rel) : BucketOf(input[rel][i]) = 0
  BY <1>1, <1>2, BucketFacts
<1>5. Members(rel, 0) = 0 .. n - 1
  BY <1>3, <1>4 DEF Members, Index
<1>6. TuplesBelow(rel, 0) = 0 /\ TuplesBelow(rel, 1) = n
  BY <1>1, <1>2, PlaceFacts DEF n
<1>7. ASSUME NEW i \in Index(rel) PROVE PlaceOf(rel, i) = i
  <2>1. i \in 0 .. n - 1 /\ i \in Nat
    BY <1>3
  <2>2. {j \in 0 .. n - 1 : j < i} = 0 .. i - 1
    BY <1>3, <2>1
  <2>3. Rank(Members(rel, 0), i) = i
    BY <1>5, <2>1, <2>2, IntervalsAreFinite DEF Rank
  <2>4. PlaceOf(rel, i) = TuplesBelow(rel, 0) + Rank(Members(rel, 0), i)
    BY <1>1, <1>4, PlaceFacts
  <2> QED
    BY <2>1, <2>3, <2>4, <1>6
<1>8. OffsetsExact(rel)
  <2>1. offsets[rel][0] = 0 /\ offsets[rel][1] = n
    BY <1>1, <1>3 DEF Copied, n
  <2>2. 0 .. Buckets = {0, 1}
    BY <1>2
  <2> QED
    BY <2>1, <2>2, <1>6 DEF OffsetsExact
<1> QED
  BY <1>1, <1>7, <1>8 DEF Placed, Copied

LEMMA PlacedWhenPartitioned ==
  ASSUME Partitioning, NEW rel \in Relation, Partitioned(rel)
  PROVE  Placed(rel)
<1>1. CASE phase[rel] = "copied"
  BY <1>1, PlacedWhenCopied
<1>2. CASE phase[rel] = "scatter" /\ SlicesDone(rel)
  <2>1. Scattering(rel) /\ Inputs
    BY <1>2 DEF Partitioning, PartitioningTypes
  <2>2. ASSUME NEW i \in Index(rel) PROVE data[rel][PlaceOf(rel, i)] = input[rel][i]
    <3>1. PICK t \in Thread : i \in Slice(rel, t)
      BY <2>1, SliceFacts
    <3>2. i < End(rel, t)
      <4>1. i \in Nat /\ Start(rel, t) \in Nat /\ End(rel, t) \in Nat
        BY <2>1, InputFacts, SliceFacts
      <4> QED
        BY <4>1, <3>1 DEF Slice
    <3>3. pos[rel][t] = End(rel, t)
      BY <1>2 DEF SlicesDone
    <3> QED
      BY <2>1, <3>1, <3>2, <3>3 DEF Scattering, Scattered
  <2> QED
    BY <2>1, <2>2 DEF Placed, Scattering
<1> QED
  BY <1>1, <1>2 DEF Partitioned

\* The tuples of a bucket, by their number.
LEMMA BucketIs ==
  ASSUME Inputs, bits \in Nat, NEW rel \in Relation, Placed(rel), NEW b \in Bucket
  PROVE  BucketTuples(rel, b) = [n \in 1 .. Cardinality(Members(rel, b)) |->
                                   input[rel][Nth(Members(rel, b), n)]]
<1> DEFINE M == Members(rel, b)
           s == Cardinality(M)
<1>1. FiniteNumbers(M) /\ M \subseteq Index(rel)
  BY BucketFacts
<1>2. s \in Nat
  BY <1>1, RankType
<1>3. offsets[rel][b] = TuplesBelow(rel, b) /\ offsets[rel][b + 1] = TuplesBelow(rel, b) + s /\
      TuplesBelow(rel, b) \in Nat
  BY BucketsAreNumbers, PlaceFacts DEF Placed, OffsetsExact
<1>4. \A i \in M : BucketOf(input[rel][i]) = b
  BY DEF Members
<1> HIDE DEF M, s
<1>5. offsets[rel][b + 1] - offsets[rel][b] = s
  BY <1>2, <1>3
<1>6. ASSUME NEW n \in 1 .. s PROVE data[rel][offsets[rel][b] + n - 1] = input[rel][Nth(M, n)]
  <2>1. Nth(M, n) \in M /\ Rank(M, Nth(M, n)) = n - 1
    BY <1>1, NthHasRank DEF s
  <2>2. PlaceOf(rel, Nth(M, n)) = TuplesBelow(rel, b) + (n - 1)
    BY <2>1, <1>1, <1>4, PlaceFacts DEF M
  <2>3. offsets[rel][b] + n - 1 = TuplesBelow(rel, b) + (n - 1)
    BY <1>2, <1>3
  <2> QED
    BY <2>1, <2>2, <2>3, <1>1 DEF Placed
<1> QED
  BY <1>5, <1>6 DEF BucketTuples, M, s

LEMMA BucketsExactWhenPlaced == Partitioning => BucketsExact
<1> SUFFICES ASSUME Partitioning, NEW rel \in Relation, Partitioned(rel)
             PROVE  /\ offsets[rel][Buckets] = Size(rel)
                    /\ \A b \in Bucket :
                         BucketTuples(rel, b) = [n \in 1 .. Cardinality(Members(rel, b)) |->
                                                   input[rel][Nth(Members(rel, b), n)]]
  BY DEF BucketsExact
<1>1. Inputs /\ bits \in Nat /\ Placed(rel)
  BY PlacedWhenPartitioned DEF Partitioning, PartitioningTypes
<1>2. offsets[rel][Buckets] = Size(rel)
  BY <1>1, PlaceFacts, BucketsAreNumbers DEF Placed, OffsetsExact
<1> QED
  BY <1>1, <1>2, BucketIs

LEMMA PartitioningUnchanged ==
  ASSUME Partitioning, UNCHANGED <<input, bits, partitioning>>
  PROVE  Partitioning'
<1>1. UNCHANGED <<input, bits>> /\
      UNCHANGED <<phase, counts, pos, write_offsets, data, offsets>>
  BY DEF partitioning
<1>2. PartitioningTypes'
  BY <1>1, SameInput DEF Partitioning, PartitioningTypes, Index
<1>3. \A rel \in Relation : Untouched(rel)
  BY <1>1 DEF Untouched
<1>4. ASSUME NEW rel \in Relation PROVE OneRelation(rel)'
  BY <1>3, UntouchedKeeps DEF Partitioning, OneRelation
<1> QED
  BY <1>2, <1>4 DEF Partitioning, OneRelation

LEMMA PartitioningStays == Partitioning /\ [Next]_vars => Partitioning'
<1> SUFFICES ASSUME Partitioning, [Next]_vars PROVE Partitioning'
  OBVIOUS
<1>1. ASSUME NEW rel \in Relation, CopyWhole(rel) \/ PrefixSums(rel) PROVE Partitioning'
  BY <1>1, CopyWholeKeeps, PrefixSumsKeeps
<1>2. ASSUME NEW rel \in Relation, NEW t \in Thread, Count(rel, t) \/ Scatter(rel, t)
      PROVE  Partitioning'
  BY <1>2, CountKeeps, ScatterKeeps
<1>3. ASSUME NEW t \in Thread, Draw(t) \/ JoinBucket(t) \/ CopyResults(t) PROVE Partitioning'
  BY <1>3, PartitioningUnchanged DEF Draw, JoinBucket, CopyResults
<1>4. CASE Resize
  BY <1>4, PartitioningUnchanged DEF Resize
<1>5. CASE UNCHANGED vars
  BY <1>5, PartitioningUnchanged DEF vars
<1> QED
  BY <1>1, <1>2, <1>3, <1>4, <1>5 DEF Next

(***************************************************************************)
(* For every number of threads, every pair of relations and every number   *)
(* of bits, partition_relation leaves in each bucket its tuples, in the    *)
(* order they had, however the scattering threads interleave.              *)
(***************************************************************************)
THEOREM PartitionsExact == Spec => []BucketsExact
<1>1. Init => Partitioning
  BY PartitioningInitially
<1>2. Partitioning /\ [Next]_vars => Partitioning'
  BY PartitioningStays
<1>3. Partitioning => BucketsExact
  BY BucketsExactWhenPlaced
<1> QED
  BY <1>1, <1>2, <1>3, PTL DEF Spec

-----------------------------------------------------------------------------
(***************************************************************************)
(* The hash table of a bucket.  It has more slots than tuples, so that     *)
(* every way through it meets an empty one; the way of a key that is in    *)
(* the bucket comes to the first tuple of that key before an empty slot    *)
(* or another tuple of the key, and no insertion ever changes that.        *)
(***************************************************************************)
Tuple == [key : Key, rid : Nat]

LEMMA Remainder ==
  ASSUME NEW h \in Nat \ {0}, NEW q \in Nat, NEW s \in 0 .. h - 1
  PROVE  (h * q + s) % h = s
<1> DEFINE x == h * q + s
           p == x \div h
           r == x % h
<1>1. h * q \in Nat /\ x \in Nat /\ s \in Nat
  OBVIOUS
<1>2. p \in Int /\ r \in 0 .. h - 1 /\ x = h * p + r
  <2> HIDE DEF x
  <2> QED
    BY <1>1
<1> HIDE DEF p, r
<1>3. ASSUME NEW a \in Int, NEW b \in Int, a < b PROVE h * a + h <= h * b
  <2>1. PICK c \in Nat : b = a + 1 + c
    <3>1. b - (a + 1) \in Nat /\ b = a + 1 + (b - (a + 1))
      BY <1>3
    <3> QED
      BY <3>1
  <2>2. h * b = h * a + h + h * c /\ h * c \in Nat /\ h * a \in Int
    BY <2>1
  <2> QED
    BY <2>2
<1>4. h * p \in Int /\ h * q \in Int /\ h * q + s = h * p + r
  BY <1>1, <1>2
<1>5. (p < q => h * p + h <= h * q) /\ (q < p => h * q + h <= h * p)
  BY <1>2, <1>3
<1>6. p = q
  <2> DEFINE P == h * p
             Q == h * q
  <2>1. P \in Int /\ Q \in Int /\ Q + s = P + r /\ (p < q => P + h <= Q) /\ (q < p => Q + h <= P)
    BY <1>4, <1>5
  <2> HIDE DEF P, Q
  <2> QED
    BY <2>1, <1>2
<1>7. r = s
  BY <1>4, <1>6, <1>2
<1> QED
  BY <1>7 DEF r

\* The way of a key goes through all slots.
LEMMA EverySlotIsMet ==
  ASSUME NEW h \in Nat \ {0}, NEW table, DOMAIN table = 0 .. h - 1, NEW key \in Key
  PROVE  /\ \A k \in Nat : Slot(table, key, k) \in 0 .. h - 1
         /\ \A slot \in 0 .. h - 1 : \E k \in 0 .. h - 1 : Slot(table, key, k) = slot
<1> DEFINE H == Hash[key]
           q == H \div h
           r == H % h
<1>1. H \in Nat /\ Cardinality(DOMAIN table) = h
  BY KeyAssumption, IntervalsAreFinite
<1>2. \A k : Slot(table, key, k) = (H + k) % h
  BY <1>1 DEF Slot
<1> HIDE DEF H
<1>3. q \in Int /\ r \in 0 .. h - 1 /\ H = h * q + r
  BY <1>1
<1> HIDE DEF q, r
<1>4. q \in Nat
  <2> SUFFICES ASSUME q + 1 <= 0 PROVE FALSE
    BY <1>3
  <2>1. h * (q + 1) = h * q + h /\ h * (q + 1) <= 0
    BY <1>3
  <2> QED
    BY <2>1, <1>1, <1>3
<1>5. \A k \in Nat : (H + k) % h \in 0 .. h - 1
  <2> TAKE k \in Nat
  <2>1. H + k \in Nat
    BY <1>1
  <2> QED
    BY <2>1
<1>6. ASSUME NEW slot \in 0 .. h - 1 PROVE \E k \in 0 .. h - 1 : (H + k) % h = slot
  <2>1. CASE r <= slot
    <3>1. slot - r \in 0 .. h - 1 /\ H + (slot - r) = h * q + slot
      BY <2>1, <1>3
    <3>2. (h * q + slot) % h = slot
      BY <1>4, Remainder
    <3> QED
      BY <3>1, <3>2
  <2>2. CASE slot < r
    <3>1. slot + h - r \in 0 .. h - 1
      BY <2>2, <1>3
    <3>2. h * (q + 1) = h * q + h /\ q + 1 \in Nat
      BY <1>4
    <3>3. H + (slot + h - r) = h * (q + 1) + slot
      BY <3>2, <1>3
    <3>4. (h * (q + 1) + slot) % h = slot
      BY <3>2, Remainder
    <3> QED
      BY <3>1, <3>3, <3>4
  <2> QED
    BY <2>1, <2>2, <1>3
<1> QED
  BY <1>2, <1>5, <1>6

Used(table) == {slot \in DOMAIN table : table[slot].key # Sentinel}

\* The tuple is what the way of its key comes to first, p steps away.
Reaches(table, tuple, p) ==
  /\ table[Slot(table, tuple.key, p)] = tuple
  /\ \A q \in 0 .. p - 1 :
       table[Slot(table, tuple.key, q)].key # tuple.key /\
       table[Slot(table, tuple.key, q)].key # Sentinel

First(tuples, j) ==
  tuples[j].key # Sentinel /\ \A l \in 1 .. j - 1 : tuples[l].key # tuples[j].key

\* A table of h slots that holds the first m tuples.
Holds(table, h, tuples, m) ==
  /\ table \in [0 .. h - 1 -> Tuple]
  /\ IsFiniteSet(Used(table)) /\ Cardinality(Used(table)) <= m
  /\ \A slot \in Used(table) : \E j \in 1 .. m : table[slot] = tuples[j]
  /\ \A j \in 1 .. m :
       First(tuples, j) => \E p \in 0 .. h - 1 : Reaches(table, tuples[j], p)

\* Some slot is empty.
LEMMA AProbeStops ==
  ASSUME NEW h \in Nat \ {0}, NEW tuples, NEW m \in Nat, m < h, NEW table,
         Holds(table, h, tuples, m), NEW key \in Key, NEW S
  PROVE  Stops(table, key, S) \in SUBSET Nat /\ Stops(table, key, S) # {}
<1>1. DOMAIN table = 0 .. h - 1
  BY DEF Holds
<1>2. IsFiniteSet(0 .. h - 1) /\ Cardinality(0 .. h - 1) = h
  BY IntervalsAreFinite
<1>3. Used(table) # 0 .. h - 1
  <2> SUFFICES ASSUME Used(table) = 0 .. h - 1 PROVE FALSE
    OBVIOUS
  <2>1. h <= m
    BY <1>2 DEF Holds
  <2> QED
    BY <2>1
<1>4. PICK slot \in 0 .. h - 1 : table[slot].key = Sentinel
  BY <1>1, <1>3 DEF Used
<1>5. PICK k \in 0 .. h - 1 : Slot(table, key, k) = slot
  BY <1>1, EverySlotIsMet
<1>6. k \in Stops(table, key, S)
  BY <1>1, <1>4, <1>5 DEF Stops
<1>7. Stops(table, key, S) \in SUBSET Nat
  BY <1>1 DEF Stops
<1> QED
  BY <1>6, <1>7

LEMMA EmptyTableHolds ==
  ASSUME NEW h \in Nat \ {0}, NEW tuples
  PROVE  Holds([slot \in 0 .. h - 1 |-> Empty], h, tuples, 0)
<1> DEFINE table == [slot \in 0 .. h - 1 |-> Empty]
<1>1. Empty \in Tuple /\ Empty.key = Sentinel
  BY KeyAssumption DEF Empty, Tuple, Key
<1>2. table \in [0 .. h - 1 -> Tuple]
  BY <1>1
<1>3. Used(table) = {}
  BY <1>1 DEF Used
<1> HIDE DEF table
<1>4. IsFiniteSet(Used(table)) /\ Cardinality(Used(table)) <= 0
  BY <1>3, FS_EmptySet
<1>5. \A j \in 1 .. 0 : FALSE
  OBVIOUS
<1>6. Holds(table, h, tuples, 0)
  BY <1>2, <1>3, <1>4, <1>5 DEF Holds
<1> QED
  BY <1>6 DEF table

\* An insertion keeps what the table holds and adds the next tuple.
LEMMA InsertHolds ==
  ASSUME NEW h \in Nat \ {0}, NEW m \in Nat, m < h, NEW tuples,
         \A j \in 1 .. m + 1 : tuples[j] \in Tuple, NEW table, Holds(table, h, tuples, m)
  PROVE  Holds(Insert(table, tuples[m + 1]), h, tuples, m + 1)
<1> DEFINE tuple == tuples[m + 1]
           key == tuple.key
           stop == Min(Stops(table, key, {}))
           at == Slot(table, key, stop)
           new == Insert(table, tuple)
<1>1. tuple \in Tuple /\ key \in Key
  BY DEF Tuple
<1>2. table \in [0 .. h - 1 -> Tuple] /\ DOMAIN table = 0 .. h - 1
  BY DEF Holds
<1>3. new = [table EXCEPT ![at] = tuple]
  BY DEF Insert
<1> HIDE DEF new
<1>4. stop \in Stops(table, key, {}) /\ \A k \in Stops(table, key, {}) : stop <= k
  BY <1>1, AProbeStops, MinIsLeast
<1> HIDE DEF stop, key
<1>5. stop \in 0 .. h - 1 /\ table[at].key = Sentinel
  BY <1>2, <1>4 DEF Stops
<1>6. \A q \in 0 .. stop - 1 : table[Slot(table, key, q)].key # Sentinel
  <2> TAKE q \in 0 .. stop - 1
  <2>1. q \in 0 .. h - 1 /\ ~(stop <= q)
    BY <1>5
  <2>2. q \notin Stops(table, key, {})
    BY <2>1, <1>4
  <2> QED
    BY <2>1, <2>2, <1>2 DEF Stops
<1>7. \A k \in Nat : \A ky \in Key : Slot(table, ky, k) \in 0 .. h - 1
  BY <1>2, EverySlotIsMet
<1>8. at \in 0 .. h - 1
  BY <1>1, <1>5, <1>7
<1> HIDE DEF at, tuple
<1>9. new \in [0 .. h - 1 -> Tuple] /\ DOMAIN new = DOMAIN table
  BY <1>1, <1>2, <1>3
<1>10. new[at] = tuple /\ \A slot \in 0 .. h - 1 : slot # at => new[slot] = table[slot]
  BY <1>2, <1>3, <1>8
<1>11. \A ky, k : Slot(new, ky, k) = Slot(table, ky, k)
  BY <1>9 DEF Slot
<1>12. IsFiniteSet(Used(new)) /\ Cardinality(Used(new)) <= m + 1
  <2>1. Used(new) \in SUBSET (Used(table) \cup {at}) /\ at \notin Used(table)
    BY <1>2, <1>5, <1>9, <1>10 DEF Used
  <2>2. IsFiniteSet(Used(table)) /\ Cardinality(Used(table)) <= m
    BY DEF Holds
  <2>3. /\ IsFiniteSet(Used(table) \cup {at})
        /\ Cardinality(Used(table) \cup {at}) = Cardinality(Used(table)) + 1
    BY <2>1, <2>2, FS_AddElement
  <2>4. IsFiniteSet(Used(new)) /\ Cardinality(Used(new)) <= Cardinality(Used(table) \cup {at})
    BY <2>1, <2>3, FS_Subset
  <2>5. Cardinality(Used(new)) \in Nat /\ Cardinality(Used(table)) \in Nat
    BY <2>2, <2>4, FS_CardinalityType
  <2> QED
    BY <2>2, <2>3, <2>4, <2>5
<1>13. \A slot \in Used(new) : \E j \in 1 .. m + 1 : new[slot] = tuples[j]
  <2> TAKE slot \in Used(new)
  <2>1. CASE slot = at
    BY <2>1, <1>10 DEF tuple
  <2>2. CASE slot # at
    <3>1. slot \in Used(table) /\ new[slot] = table[slot]
      BY <2>2, <1>2, <1>9, <1>10 DEF Used
    <3>2. PICK j \in 1 .. m : table[slot] = tuples[j]
      BY <3>1 DEF Holds
    <3> QED
      BY <3>1, <3>2
  <2> QED
    BY <2>1, <2>2
<1>14. ASSUME NEW j \in 1 .. m + 1, First(tuples, j)
       PROVE  \E p \in 0 .. h - 1 : Reaches(new, tuples[j], p)
  <2>0. tuples[j].key # Sentinel /\ tuples[j].key \in Key
    BY <1>14 DEF First, Tuple
  <2>1. CASE j = m + 1
    <3>1. new[Slot(new, key, stop)] = tuple
      BY <1>10, <1>11 DEF at
    <3>2. ASSUME NEW q \in 0 .. stop - 1
          PROVE  new[Slot(new, key, q)].key # key /\ new[Slot(new, key, q)].key # Sentinel
      <4> DEFINE slot == Slot(table, key, q)
      <4>1. table[slot].key # Sentinel /\ slot \in 0 .. h - 1
        BY <1>1, <1>5, <1>6, <1>7
      <4> HIDE DEF slot
      <4>2. slot # at /\ slot \in Used(table)
        BY <4>1, <1>2, <1>5 DEF Used
      <4>3. PICK l \in 1 .. m : table[slot] = tuples[l]
        BY <4>2 DEF Holds
      <4>4. l \in 1 .. j - 1
        BY <2>1
      <4>5. tuples[l].key # key
        BY <4>4, <1>14, <2>1 DEF First, key, tuple
      <4>6. new[slot] = table[slot]
        BY <4>1, <4>2, <1>10
      <4> QED
        BY <4>1, <4>3, <4>5, <4>6, <1>11 DEF slot
    <3>3. Reaches(new, tuple, stop)
      BY <3>1, <3>2 DEF Reaches, key
    <3> QED
      BY <3>3, <1>5, <2>1 DEF tuple
  <2>2. CASE j \in 1 .. m
    <3>1. PICK p \in 0 .. h - 1 : Reaches(table, tuples[j], p)
      BY <2>2, <1>14 DEF Holds
    <3> DEFINE ky == tuples[j].key
    <3>2. \A q \in 0 .. p : Slot(table, ky, q) \in 0 .. h - 1
      BY <2>0, <1>7
    <3>3. \A q \in 0 .. p : table[Slot(table, ky, q)].key # Sentinel
      <4> TAKE q \in 0 .. p
      <4>1. q = p \/ q \in 0 .. p - 1
        OBVIOUS
      <4> QED
        BY <4>1, <3>1, <2>0 DEF Reaches
    <3>4. \A q \in 0 .. p : new[Slot(new, ky, q)] = table[Slot(table, ky, q)]
      BY <3>2, <3>3, <1>5, <1>10, <1>11
    <3>5. p \in 0 .. p /\ \A q \in 0 .. p - 1 : q \in 0 .. p
      OBVIOUS
    <3>6. Reaches(new, tuples[j], p)
      BY <3>1, <3>4, <3>5 DEF Reaches
    <3> QED
      BY <3>6
  <2> QED
    BY <2>1, <2>2
<1>15. Holds(new, h, tuples, m + 1)
  BY <1>9, <1>2, <1>12, <1>13, <1>14 DEF Holds
<1> QED
  BY <1>15 DEF new, tuple

LEMMA TableIsLarge == \A n \in Nat : TableSize(n) \in Nat \ {0} /\ n < TableSize(n)
<1> TAKE n \in Nat
<1> DEFINE top == 4 * n
           E == {e \in 0 .. top : PowerOfTwo[e] >= top} \cup {top}
           e == Min(E)
<1>1. top \in Nat /\ n <= top /\ (n # 0 => n < top)
  OBVIOUS
<1>2. TableSize(n) = PowerOfTwo[e]
  BY DEF TableSize, LeastUpTo
<1> HIDE DEF top
<1>3. E \in SUBSET Nat /\ E # {}
  BY <1>1
<1>4. e \in E
  BY <1>3, MinIsLeast
<1>5. e \in Nat /\ (PowerOfTwo[e] >= top \/ e = top)
  BY <1>1, <1>4
<1> HIDE DEF e
<1>6. PowerOfTwo[e] \in Nat /\ PowerOfTwo[e] > e
  BY <1>5, PowersGrow
<1> QED
  BY <1>1, <1>2, <1>5, <1>6

\* The tables that the first insertions build, one set for each number of them.
Inserted(tables, tuple) == {Insert(table, tuple) : table \in tables}

AreTables(built, tuples, N) ==
  built = [n \in 0 .. N |->
    IF n = 0 THEN {[slot \in 0 .. TableSize(Len(tuples)) - 1 |-> Empty]}
    ELSE Inserted(built[n - 1], tuples[n])]

LEMMA BuildIsLast ==
  ASSUME NEW tuples
  PROVE  Build(tuples) = (CHOOSE built : AreTables(built, tuples, Len(tuples)))[Len(tuples)]
BY DEF Build, AreTables, Inserted

LEMMA SomeTables ==
  ASSUME NEW tuples
  PROVE  \A N \in Nat : \E built : AreTables(built, tuples, N)
<1> DEFINE none == {[slot \in 0 .. TableSize(Len(tuples)) - 1 |-> Empty]}
           Bad == {N \in Nat : ~\E built : AreTables(built, tuples, N)}
<1>0. \A built, N : AreTables(built, tuples, N) <=>
        built = [n \in 0 .. N |-> IF n = 0 THEN none ELSE Inserted(built[n - 1], tuples[n])]
  BY DEF AreTables
<1> HIDE DEF none
<1> SUFFICES ASSUME Bad # {} PROVE FALSE
  OBVIOUS
<1>1. PICK N \in Bad : \A M \in Bad : N <= M
  BY LeastNumber
<1>2. N # 0
  <2> DEFINE built == [n \in 0 .. 0 |-> none]
  <2>1. built = [n \in 0 .. 0 |-> IF n = 0 THEN none ELSE Inserted(built[n - 1], tuples[n])]
    OBVIOUS
  <2> HIDE DEF built
  <2> QED
    BY <2>1, <1>0
<1>3. N \in Nat /\ N - 1 \in Nat /\ N - 1 \notin Bad
  BY <1>1, <1>2
<1>4. PICK first : AreTables(first, tuples, N - 1)
  BY <1>3
<1> DEFINE built == [n \in 0 .. N |->
                      IF n = N THEN Inserted(first[N - 1], tuples[N]) ELSE first[n]]
<1>5. \A n \in 0 .. N - 1 :
        first[n] = IF n = 0 THEN none ELSE Inserted(first[n - 1], tuples[n])
  BY <1>0, <1>3, <1>4
<1>6. \A n \in 0 .. N :
        built[n] = IF n = 0 THEN none ELSE Inserted(built[n - 1], tuples[n])
  <2> TAKE n \in 0 .. N
  <2>1. n # 0 => n - 1 \in 0 .. N /\ n - 1 # N
    BY <1>3
  <2>2. n # 0 => built[n - 1] = first[n - 1]
    BY <2>1
  <2>3. CASE n = N
    BY <2>2, <2>3, <1>2
  <2>4. CASE n # N
    <3>1. n \in 0 .. N - 1 /\ built[n] = first[n]
      BY <2>4, <1>3
    <3> QED
      BY <3>1, <2>2, <1>5
  <2> QED
    BY <2>3, <2>4
<1>7. built = [n \in 0 .. N |-> built[n]]
  OBVIOUS
<1>8. built = [n \in 0 .. N |-> IF n = 0 THEN none ELSE Inserted(built[n - 1], tuples[n])]
  <2> HIDE DEF built
  <2> QED
    BY <1>6, <1>7
<1> HIDE DEF built
<1> QED
  BY <1>8, <1>0, <1>1

\* The table of a bucket holds all its tuples.
LEMMA BuildHolds ==
  ASSUME NEW tuples \in Seq(Tuple), NEW table \in Build(tuples)
  PROVE  Holds(table, TableSize(Len(tuples)), tuples, Len(tuples))
<1> DEFINE N == Len(tuples)
           h == TableSize(N)
           built == CHOOSE b : AreTables(b, tuples, N)
<1>1. N \in Nat /\ \A j \in 1 .. N : tuples[j] \in Tuple
  OBVIOUS
<1>2. table \in built[N]
  BY BuildIsLast
<1>3. AreTables(built, tuples, N)
  BY <1>1, SomeTables
<1> HIDE DEF built
<1>4. \A n \in 0 .. N : built[n] =
        IF n = 0 THEN {[slot \in 0 .. h - 1 |-> Empty]} ELSE Inserted(built[n - 1], tuples[n])
  BY <1>3 DEF AreTables
<1>5. h \in Nat \ {0} /\ N < h
  BY <1>1, TableIsLarge
<1> HIDE DEF N, h
<1> DEFINE Bad == {n \in 0 .. N : \E tab \in built[n] : ~Holds(tab, h, tuples, n)}
<1>6. Bad = {}
  <2> SUFFICES ASSUME Bad # {} PROVE FALSE
    OBVIOUS
  <2>1. Bad \in SUBSET Nat
    BY <1>1
  <2>2. PICK n \in Bad : \A k \in Bad : n <= k
    BY <2>1, LeastNumber
  <2>3. n # 0
    <3>1. Holds([slot \in 0 .. h - 1 |-> Empty], h, tuples, 0)
      BY <1>5, EmptyTableHolds
    <3>2. built[0] = {[slot \in 0 .. h - 1 |-> Empty]}
      BY <1>1, <1>4
    <3> QED
      BY <3>1, <3>2, <2>2
  <2> DEFINE m == n - 1
  <2>4. m \in 0 .. N /\ m \notin Bad /\ n = m + 1 /\ m < h /\ m \in Nat
    BY <1>1, <1>5, <2>2, <2>3
  <2> HIDE DEF m
  <2>5. PICK tab \in built[n] : ~Holds(tab, h, tuples, n)
    BY <2>2
  <2>6. built[n] = Inserted(built[m], tuples[n])
    BY <2>2, <2>3, <1>4 DEF m
  <2>7. PICK old \in built[m] : tab = Insert(old, tuples[n])
    BY <2>5, <2>6 DEF Inserted
  <2>8. Holds(old, h, tuples, m)
    BY <2>4
  <2>9. \A j \in 1 .. m + 1 : tuples[j] \in Tuple
    BY <2>4, <2>2, <1>1
  <2>10. Holds(Insert(old, tuples[m + 1]), h, tuples, m + 1)
    BY <2>4, <2>8, <2>9, <1>5, InsertHolds
  <2> QED
    BY <2>4, <2>5, <2>7, <2>10
<1>7. N \in 0 .. N
  BY <1>1
<1>8. Holds(table, h, tuples, N)
  BY <1>2, <1>6, <1>7
<1> QED
  BY <1>8 DEF N, h

\* A probe finds the first tuple of its key, and nothing for any other key.
LEMMA ProbeFinds ==
  ASSUME NEW h \in Nat \ {0}, NEW tuples, NEW m \in Nat, m < h, NEW table,
         Holds(table, h, tuples, m), \A j \in 1 .. m : tuples[j] \in Tuple, NEW s \in Tuple
  PROVE  /\ \A j \in 1 .. m :
              First(tuples, j) /\ tuples[j].key = s.key => Probe(table, s.key) = tuples[j]
         /\ Hit(table, s) => \E j \in 1 .. m : tuples[j].key = s.key
<1> DEFINE key == s.key
           E == Stops(table, key, {key})
           stop == Min(E)
<1>1. key \in Key
  BY DEF Tuple
<1>2. table \in [0 .. h - 1 -> Tuple] /\ DOMAIN table = 0 .. h - 1
  BY DEF Holds
<1>3. stop \in E /\ \A k \in E : stop <= k
  BY <1>1, AProbeStops, MinIsLeast
<1>4. Probe(table, key) = table[Slot(table, key, stop)]
  BY DEF Probe
<1>5. \A k \in DOMAIN table : k \in E <=>
        table[Slot(table, key, k)].key = key \/ table[Slot(table, key, k)].key = Sentinel
  BY DEF Stops
<1>6. E \subseteq DOMAIN table
  BY DEF Stops
<1> HIDE DEF stop, E
<1>7. stop \in 0 .. h - 1
  BY <1>2, <1>3, <1>6
<1>8. ASSUME NEW j \in 1 .. m, First(tuples, j), tuples[j].key = key
      PROVE  Probe(table, key) = tuples[j]
  <2>1. PICK p \in 0 .. h - 1 : Reaches(table, tuples[j], p)
    BY <1>8 DEF Holds
  <2>2. table[Slot(table, key, p)] = tuples[j]
    BY <2>1, <1>8 DEF Reaches
  <2>3. p \in E
    BY <2>1, <2>2, <1>2, <1>5, <1>8
  <2>4. stop <= p
    BY <2>3, <1>3
  <2>5. ~(stop < p)
    <3> SUFFICES ASSUME stop < p PROVE FALSE
      OBVIOUS
    <3>1. stop \in 0 .. p - 1
      BY <1>7, <2>1
    <3>2. table[Slot(table, key, stop)].key # key /\ table[Slot(table, key, stop)].key # Sentinel
      BY <3>1, <2>1, <1>8 DEF Reaches
    <3> QED
      BY <3>2, <1>2, <1>3, <1>5, <1>7
  <2>6. stop = p
    BY <2>4, <2>5, <1>7, <2>1
  <2> QED
    BY <2>6, <2>2, <1>4
<1>9. ASSUME Hit(table, s) PROVE \E j \in 1 .. m : tuples[j].key = key
  <2> DEFINE slot == Slot(table, key, stop)
  <2>1. table[slot].key # Sentinel /\ table[slot].key = key
    BY <1>4, <1>9 DEF Hit
  <2>2. slot \in DOMAIN table
    BY <1>1, <1>2, <1>7, EverySlotIsMet
  <2> HIDE DEF slot
  <2>3. slot \in Used(table)
    BY <2>1, <2>2 DEF Used
  <2> QED
    BY <2>1, <2>3 DEF Holds
<1> QED
  BY <1>8, <1>9

-----------------------------------------------------------------------------
(***************************************************************************)
(* Joining a bucket finds the pairs whose keys belong to it.               *)
(***************************************************************************)

\* The tuple that the equi-join gives to this key: the first of R.
FirstOf(a, key) ==
  /\ a \in Index("R") /\ input["R"][a].key = key /\ key # Sentinel
  /\ \A l \in 0 .. a - 1 : input["R"][l].key # key

AllPairs == {p \in Index("R") \X Index("S") : FirstOf(p[1], input["S"][p[2]].key)}

PairsOf(B) == {p \in AllPairs : BucketOf(input["S"][p[2]]) \in B}

\* A sequence of these pairs, each of them once.
Lists(pairs, B) ==
  /\ pairs \in Seq(AllPairs)
  /\ \A p : p \in PairsOf(B) <=> \E n \in 1 .. Len(pairs) : pairs[n] = p
  /\ \A m, n \in 1 .. Len(pairs) : pairs[m] = pairs[n] => m = n

LEMMA ExpectedIs == Inputs => Expected = AllPairs
<1> SUFFICES ASSUME Inputs PROVE Expected = AllPairs
  OBVIOUS
<1> DEFINE R == input["R"]
           S == input["S"]
<1>0. "R" \in Relation /\ "S" \in Relation
  BY DEF Relation
<1>1. \A i \in Index("R") : R[i].rid = i
  BY <1>0, InputFacts
<1>2. \A i \in Index("S") : S[i].rid = i
  BY <1>0, InputFacts
<1>3. \A i \in Index("S") : \A r : r \in Partner(S[i]) <=>
        \E a \in Index("R") : r = R[a] /\ FirstOf(a, S[i].key)
  <2> TAKE i \in Index("S")
  <2> TAKE r
  <2>1. r \in Partner(S[i]) <=>
          /\ \E a \in Index("R") : r = R[a]
          /\ r.key = S[i].key /\ r.key # Sentinel
          /\ \A l \in 0 .. r.rid - 1 : R[l].key # r.key
    BY DEF Partner, Index
  <2>2. ASSUME NEW a \in Index("R"), r = R[a]
        PROVE  (/\ r.key = S[i].key /\ r.key # Sentinel
                /\ \A l \in 0 .. r.rid - 1 : R[l].key # r.key) <=> FirstOf(a, S[i].key)
    <3>1. r.rid = a
      BY <2>2, <1>1
    <3> QED
      BY <2>2, <3>1 DEF FirstOf
  <2> QED
    BY <2>1, <2>2
<1>4. \A p : p \in Expected <=>
        \E i \in Index("S") : \E r \in Partner(S[i]) : p = <<r.rid, S[i].rid>>
  BY DEF Expected, Index
<1>5. \A p : p \in Expected <=>
        \E i \in Index("S"), a \in Index("R") : p = <<a, i>> /\ FirstOf(a, S[i].key)
  <2> TAKE p
  <2>1. ASSUME p \in Expected
        PROVE  \E i \in Index("S"), a \in Index("R") : p = <<a, i>> /\ FirstOf(a, S[i].key)
    <3>1. PICK i \in Index("S") : \E r \in Partner(S[i]) : p = <<r.rid, S[i].rid>>
      BY <2>1, <1>4
    <3>2. PICK r \in Partner(S[i]) : p = <<r.rid, S[i].rid>>
      BY <3>1
    <3>3. PICK a \in Index("R") : r = R[a] /\ FirstOf(a, S[i].key)
      BY <3>2, <1>3
    <3>4. p = <<a, i>>
      BY <3>2, <3>3, <1>1, <1>2
    <3> QED
      BY <3>3, <3>4
  <2>2. ASSUME NEW i \in Index("S"), NEW a \in Index("R"), p = <<a, i>>, FirstOf(a, S[i].key)
        PROVE  p \in Expected
    <3>1. R[a] \in Partner(S[i])
      BY <2>2, <1>3
    <3>2. p = <<R[a].rid, S[i].rid>>
      BY <2>2, <1>1, <1>2
    <3> QED
      BY <3>1, <3>2, <1>4
  <2> QED
    BY <2>1, <2>2
<1>6. \A p : p \in AllPairs <=>
        \E i \in Index("S"), a \in Index("R") : p = <<a, i>> /\ FirstOf(a, S[i].key)
  BY DEF AllPairs
<1> HIDE DEF R, S
<1>7. \A p : p \in Expected <=> p \in AllPairs
  BY <1>5, <1>6
<1> QED
  BY <1>7

\* The tuples of a bucket are numbered in the order of the relation.
LEMMA BucketIsSequence ==
  ASSUME Inputs, bits \in Nat, NEW rel \in Relation, Placed(rel), NEW b \in Bucket
  PROVE  /\ BucketTuples(rel, b) \in Seq(Tuple)
         /\ Len(BucketTuples(rel, b)) = Cardinality(Members(rel, b))
         /\ Cardinality(Members(rel, b)) \in Nat /\ FiniteNumbers(Members(rel, b))
         /\ \A n \in 1 .. Cardinality(Members(rel, b)) :
              /\ Nth(Members(rel, b), n) \in Members(rel, b)
              /\ BucketTuples(rel, b)[n] = input[rel][Nth(Members(rel, b), n)]
         /\ \A i \in Members(rel, b) : \E n \in 1 .. Cardinality(Members(rel, b)) :
              Nth(Members(rel, b), n) = i
<1> DEFINE M == Members(rel, b)
           s == Cardinality(M)
           tuples == BucketTuples(rel, b)
<1>1. tuples = [n \in 1 .. s |-> input[rel][Nth(M, n)]]
  BY BucketIs
<1>2. FiniteNumbers(M) /\ M \subseteq Index(rel)
  BY BucketFacts
<1>3. s \in Nat
  BY <1>2, RankType
<1>4. \A n \in 1 .. s : Nth(M, n) \in M
  BY <1>2, NthHasRank
<1>5. \A i \in Index(rel) : input[rel][i] \in Tuple
  <2> TAKE i \in Index(rel)
  <2>1. /\ i \in Nat /\ input[rel][i] = [key |-> input[rel][i].key, rid |-> i]
        /\ input[rel][i].key \in Key
    BY InputFacts
  <2> QED
    BY <2>1 DEF Tuple
<1>6. \A i \in M : \E n \in 1 .. s : Nth(M, n) = i
  BY <1>2, RankHasNth
<1> HIDE DEF M, s, tuples
<1>7. \A n \in 1 .. s : input[rel][Nth(M, n)] \in Tuple
  BY <1>2, <1>4, <1>5
<1>8. tuples \in Seq(Tuple) /\ Len(tuples) = s
  BY <1>1, <1>3, <1>7
<1>9. \A n \in 1 .. s : tuples[n] = input[rel][Nth(M, n)]
  BY <1>1
<1> QED
  BY <1>2, <1>3, <1>4, <1>6, <1>8, <1>9 DEF M, s, tuples

\* The first of a key in its bucket is the first in the relation.
LEMMA FirstInBucket ==
  ASSUME Inputs, bits \in Nat, Placed("R"), NEW b \in Bucket,
         NEW j \in 1 .. Cardinality(Members("R", b))
  PROVE  First(BucketTuples("R", b), j) <=>
           FirstOf(Nth(Members("R", b), j), BucketTuples("R", b)[j].key)
<1> DEFINE M == Members("R", b)
           s == Cardinality(M)
           r == BucketTuples("R", b)
           R == input["R"]
           a == Nth(M, j)
<1>0. "R" \in Relation
  BY DEF Relation
<1>1. s \in Nat /\ FiniteNumbers(M)
  BY <1>0, BucketIsSequence
<1>2. \A n \in 1 .. s : Nth(M, n) \in M /\ r[n] = R[Nth(M, n)]
  BY <1>0, BucketIsSequence
<1>3. \A i \in M : \E n \in 1 .. s : Nth(M, n) = i
  BY <1>0, BucketIsSequence
<1>4. \A i : i \in M <=> i \in Index("R") /\ R[i].key % Buckets = b
  BY DEF Members, Index, BucketOf
<1>5. \A i \in Index("R") : i \in Nat /\ \A l \in 0 .. i - 1 : l \in Index("R")
  <2>1. Size("R") \in Nat /\ Index("R") = 0 .. Size("R") - 1
    BY <1>0, InputFacts
  <2> HIDE DEF Index, Size
  <2> QED
    BY <2>1
<1>6. \A m, n \in 1 .. s : m < n => Nth(M, m) < Nth(M, n)
  BY <1>1, NthRises
<1> HIDE DEF M, s, r, R
<1>7. j \in 1 .. s
  BY DEF s, M
<1>8. a \in M /\ r[j] = R[a] /\ a \in Index("R") /\ a \in Nat
  BY <1>2, <1>4, <1>5, <1>7
<1> HIDE DEF a
<1>9. ASSUME \A l \in 1 .. j - 1 : r[l].key # r[j].key
      PROVE  \A l \in 0 .. a - 1 : R[l].key # r[j].key
  <2> SUFFICES ASSUME NEW l \in 0 .. a - 1, R[l].key = r[j].key PROVE FALSE
    OBVIOUS
  <2>1. l \in Index("R") /\ R[l].key % Buckets = b
    BY <1>4, <1>5, <1>8
  <2>2. l \in M
    BY <2>1, <1>4
  <2>3. PICK n \in 1 .. s : Nth(M, n) = l
    BY <2>2, <1>3
  <2>4. l < a /\ l \in Nat
    BY <1>8
  <2>5. ~(j < n) /\ n # j
    BY <2>3, <2>4, <1>6, <1>7, <1>8 DEF a
  <2>6. n \in 1 .. j - 1
    BY <2>3, <2>5, <1>1, <1>7
  <2> QED
    BY <2>3, <2>6, <1>2, <1>9
<1>10. ASSUME \A l \in 0 .. a - 1 : R[l].key # r[j].key
       PROVE  \A l \in 1 .. j - 1 : r[l].key # r[j].key
  <2> TAKE l \in 1 .. j - 1
  <2>1. l \in 1 .. s /\ l < j
    BY <1>1, <1>7
  <2>2. Nth(M, l) < a /\ Nth(M, l) \in M
    BY <2>1, <1>2, <1>6, <1>7 DEF a
  <2>3. Nth(M, l) \in Nat
    BY <2>2, <1>1 DEF FiniteNumbers
  <2>4. Nth(M, l) \in 0 .. a - 1
    BY <2>2, <2>3, <1>8
  <2> QED
    BY <2>1, <2>4, <1>2, <1>10
<1>11. First(r, j) <=> r[j].key # Sentinel /\ \A l \in 1 .. j - 1 : r[l].key # r[j].key
  BY DEF First
<1>12. FirstOf(a, r[j].key) <=>
         r[j].key # Sentinel /\ \A l \in 0 .. a - 1 : R[l].key # r[j].key
  BY <1>8 DEF FirstOf, R
<1>13. First(r, j) <=> FirstOf(a, r[j].key)
  BY <1>9, <1>10, <1>11, <1>12
<1> QED
  BY <1>13 DEF r, a, M

\* A probe for a tuple of the bucket finds its partner, if there is one.
LEMMA HitIsPartner ==
  ASSUME Inputs, bits \in Nat, Placed("R"), NEW b \in Bucket,
         NEW table \in Build(BucketTuples("R", b)),
         NEW s \in Tuple, BucketOf(s) = b
  PROVE  /\ \A a : FirstOf(a, s.key) => Hit(table, s) /\ Probe(table, s.key).rid = a
         /\ Hit(table, s) => \E a : FirstOf(a, s.key)
<1> DEFINE M == Members("R", b)
           m == Cardinality(M)
           r == BucketTuples("R", b)
           R == input["R"]
           h == TableSize(m)
<1>0. "R" \in Relation
  BY DEF Relation
<1>1. m \in Nat /\ FiniteNumbers(M) /\ r \in Seq(Tuple) /\ Len(r) = m
  BY <1>0, BucketIsSequence
<1>2. \A n \in 1 .. m : Nth(M, n) \in M /\ r[n] = R[Nth(M, n)]
  BY <1>0, BucketIsSequence
<1>3. \A i \in M : \E n \in 1 .. m : Nth(M, n) = i
  BY <1>0, BucketIsSequence
<1>4. \A n \in 1 .. m : First(r, n) <=> FirstOf(Nth(M, n), r[n].key)
  BY FirstInBucket
<1>5. \A i : i \in M <=> i \in Index("R") /\ R[i].key % Buckets = b
  BY DEF Members, Index, BucketOf
<1>6. \A i \in Index("R") : R[i].rid = i
  BY <1>0, InputFacts
<1> HIDE DEF M, m
<1>7. h \in Nat \ {0} /\ m < h
  BY <1>1, TableIsLarge
<1>8. Holds(table, h, r, m)
  BY <1>1, BuildHolds
<1>9. \A n \in 1 .. m : r[n] \in Tuple
  BY <1>1
<1> HIDE DEF r, R, h
<1>10. /\ \A n \in 1 .. m : First(r, n) /\ r[n].key = s.key => Probe(table, s.key) = r[n]
       /\ Hit(table, s) => \E n \in 1 .. m : r[n].key = s.key
  BY <1>1, <1>7, <1>8, <1>9, ProbeFinds
<1>11. ASSUME NEW a, FirstOf(a, s.key) PROVE Hit(table, s) /\ Probe(table, s.key).rid = a
  <2>1. a \in Index("R") /\ R[a].key = s.key /\ s.key # Sentinel
    BY <1>11 DEF FirstOf, R
  <2>2. a \in M
    BY <2>1, <1>5 DEF BucketOf
  <2>3. PICK n \in 1 .. m : Nth(M, n) = a
    BY <2>2, <1>3
  <2>4. r[n] = R[a] /\ r[n].key = s.key
    BY <2>1, <2>3, <1>2
  <2>5. First(r, n)
    BY <2>3, <2>4, <1>4, <1>11
  <2>6. Probe(table, s.key) = R[a]
    BY <2>4, <2>5, <1>10
  <2> QED
    BY <2>1, <2>6, <1>6 DEF Hit
<1>12. ASSUME Hit(table, s) PROVE \E a : FirstOf(a, s.key)
  <2> DEFINE E == {n \in 1 .. m : r[n].key = s.key}
  <2>1. E \in SUBSET Nat /\ E # {}
    BY <1>1, <1>10, <1>12
  <2>2. PICK n \in E : \A l \in E : n <= l
    BY <2>1, LeastNumber
  <2>3. n \in 1 .. m /\ r[n].key = s.key
    BY <2>2
  <2>4. \A l \in 1 .. n - 1 : r[l].key # r[n].key
    <3> TAKE l \in 1 .. n - 1
    <3>1. l \in 1 .. m /\ ~(n <= l)
      BY <2>3, <1>1
    <3> QED
      BY <3>1, <2>2, <2>3
  <2>5. s.key # Sentinel
    BY <1>12 DEF Hit
  <2>6. First(r, n)
    BY <2>3, <2>4, <2>5 DEF First
  <2>7. FirstOf(Nth(M, n), s.key)
    BY <2>3, <2>6, <1>4
  <2> QED
    BY <2>7
<1> QED
  BY <1>11, <1>12

\* What join_bucket appends.
LEMMA BucketJoined ==
  ASSUME Inputs, bits \in Nat, Placed("R"), Placed("S"), NEW b \in Bucket,
         NEW table \in Build(BucketTuples("R", b))
  PROVE  Lists(Matches(table, BucketTuples("S", b), Hits(table, BucketTuples("S", b))), {b})
<1> DEFINE M == Members("S", b)
           m == Cardinality(M)
           s == BucketTuples("S", b)
           S == input["S"]
           hits == Hits(table, s)
           size == Cardinality(hits)
           new == Matches(table, s, hits)
<1>0. "S" \in Relation
  BY DEF Relation
<1>1. m \in Nat /\ FiniteNumbers(M) /\ s \in Seq(Tuple) /\ Len(s) = m
  BY <1>0, BucketIsSequence
<1>2. \A n \in 1 .. m : Nth(M, n) \in M /\ s[n] = S[Nth(M, n)]
  BY <1>0, BucketIsSequence
<1>3. \A i \in M : \E n \in 1 .. m : Nth(M, n) = i
  BY <1>0, BucketIsSequence
<1>4. \A i : i \in M <=> i \in Index("S") /\ BucketOf(S[i]) = b
  BY DEF Members, Index
<1>5. \A i \in Index("S") : S[i].rid = i
  BY <1>0, InputFacts
<1>6. \A k, n \in 1 .. m : Nth(M, k) = Nth(M, n) => k = n
  BY <1>1, NthRises
<1>7. \A p : p \in PairsOf({b}) <=>
        \E a \in Index("R"), i \in Index("S") :
          p = <<a, i>> /\ FirstOf(a, S[i].key) /\ BucketOf(S[i]) = b
  BY DEF PairsOf, AllPairs
<1> HIDE DEF M, m
<1>8. \A n \in 1 .. m :
        /\ \A a : FirstOf(a, s[n].key) => n \in hits /\ Probe(table, s[n].key).rid = a
        /\ n \in hits => \E a : FirstOf(a, s[n].key)
        /\ s[n].rid = Nth(M, n)
  <2> TAKE n \in 1 .. m
  <2>1. s[n] \in Tuple /\ BucketOf(s[n]) = b /\ s[n].rid = Nth(M, n)
    BY <1>1, <1>2, <1>4, <1>5
  <2>2. n \in hits <=> Hit(table, s[n])
    BY <1>1 DEF Hits
  <2> QED
    BY <2>1, <2>2, HitIsPartner
<1>9. hits \subseteq 1 .. m
  BY <1>1 DEF Hits
<1> HIDE DEF hits
<1>10. FiniteNumbers(hits)
  <2>1. IsFiniteSet(hits)
    BY <1>1, <1>9, IntervalsAreFinite, FS_Subset
  <2> QED
    BY <2>1, <1>1, <1>9 DEF FiniteNumbers
<1>11. size \in Nat
  BY <1>10, RankType
<1>12. \A n \in 1 .. size : Nth(hits, n) \in hits
  BY <1>10, NthHasRank
<1>13. \A i \in hits : \E n \in 1 .. size : Nth(hits, n) = i
  BY <1>10, RankHasNth
<1>14. \A k, n \in 1 .. size : Nth(hits, k) = Nth(hits, n) => k = n
  BY <1>10, NthRises
<1>15. new = [n \in 1 .. size |-> <<Probe(table, s[Nth(hits, n)].key).rid, s[Nth(hits, n)].rid>>]
  BY DEF Matches
<1> HIDE DEF new, size, s
<1>16. \A n \in 1 .. size :
         /\ Nth(hits, n) \in 1 .. m
         /\ \E a : FirstOf(a, s[Nth(hits, n)].key) /\ new[n] = <<a, Nth(M, Nth(hits, n))>>
  <2> TAKE n \in 1 .. size
  <2> DEFINE k == Nth(hits, n)
  <2>1. k \in hits /\ k \in 1 .. m
    BY <1>9, <1>12
  <2>2. new[n] = <<Probe(table, s[k].key).rid, s[k].rid>>
    BY <1>15
  <2> HIDE DEF k
  <2>3. PICK a : FirstOf(a, s[k].key)
    BY <2>1, <1>8
  <2>4. new[n] = <<a, Nth(M, k)>>
    BY <2>1, <2>2, <2>3, <1>8
  <2> QED
    BY <2>1, <2>3, <2>4 DEF k
<1>17. \A n \in 1 .. size : new[n] \in PairsOf({b})
  <2> TAKE n \in 1 .. size
  <2>1. PICK a : FirstOf(a, s[Nth(hits, n)].key) /\ new[n] = <<a, Nth(M, Nth(hits, n))>>
    BY <1>16
  <2> DEFINE i == Nth(M, Nth(hits, n))
  <2>2. i \in M /\ s[Nth(hits, n)] = S[i]
    BY <1>2, <1>16
  <2>3. a \in Index("R")
    BY <2>1 DEF FirstOf
  <2>4. i \in Index("S") /\ BucketOf(S[i]) = b
    BY <2>2, <1>4
  <2> QED
    BY <2>1, <2>2, <2>3, <2>4, <1>7
<1>18. \A p \in PairsOf({b}) : \E n \in 1 .. size : new[n] = p
  <2> TAKE p \in PairsOf({b})
  <2>1. PICK a \in Index("R"), i \in Index("S") :
          p = <<a, i>> /\ FirstOf(a, S[i].key) /\ BucketOf(S[i]) = b
    BY <1>7
  <2>2. PICK k \in 1 .. m : Nth(M, k) = i
    BY <2>1, <1>3, <1>4
  <2>3. s[k] = S[i]
    BY <2>2, <1>2
  <2>4. k \in hits
    BY <2>1, <2>3, <1>8
  <2>5. PICK n \in 1 .. size : Nth(hits, n) = k
    BY <2>4, <1>13
  <2>6. new[n] = <<Probe(table, s[k].key).rid, s[k].rid>>
    BY <2>5, <1>15
  <2>7. Probe(table, s[k].key).rid = a /\ s[k].rid = i
    BY <2>1, <2>2, <2>3, <1>8
  <2> QED
    BY <2>1, <2>6, <2>7
<1>19. \A k, n \in 1 .. size : new[k] = new[n] => k = n
  <2> TAKE k, n \in 1 .. size
  <2> SUFFICES ASSUME new[k] = new[n] PROVE k = n
    OBVIOUS
  <2>1. PICK a : new[k] = <<a, Nth(M, Nth(hits, k))>>
    BY <1>16
  <2>2. PICK c : new[n] = <<c, Nth(M, Nth(hits, n))>>
    BY <1>16
  <2>3. Nth(M, Nth(hits, k)) = Nth(M, Nth(hits, n))
    <3>1. new[k][2] = Nth(M, Nth(hits, k))
      BY <2>1
    <3>2. new[n][2] = Nth(M, Nth(hits, n))
      BY <2>2
    <3>3. new[k][2] = new[n][2]
      OBVIOUS
    <3> QED
      BY <3>1, <3>2, <3>3, Zenon
  <2>4. Nth(hits, k) = Nth(hits, n)
    BY <2>3, <1>6, <1>16
  <2> QED
    BY <2>4, <1>14
<1>20. new \in Seq(AllPairs) /\ Len(new) = size
  <2>1. PairsOf({b}) \subseteq AllPairs
    BY DEF PairsOf
  <2>2. \A n \in 1 .. size : new[n] \in AllPairs
    BY <2>1, <1>17
  <2>3. new = [n \in 1 .. size |-> new[n]]
    BY <1>15
  <2> QED
    BY <2>2, <2>3, <1>11
<1>21. Lists(new, {b})
  BY <1>17, <1>18, <1>19, <1>20 DEF Lists
<1> QED
  BY <1>21 DEF new, hits, s

-----------------------------------------------------------------------------
(***************************************************************************)
(* The threads that join.  A bucket is joined when its number has been     *)
(* drawn and nobody is at it any more; what the threads have found are the *)
(* pairs of the joined buckets, each pair once.  A thread that copies      *)
(* writes the places its results have to itself.                           *)
(***************************************************************************)
ThePair(t, k) == thread_results[t][k]
Found(t) == 1 .. Len(thread_results[t])
ResultPlace(t, k) == ResultStart(t) + k

Joined == {b \in Bucket : b < next_bucket /\ \A t \in Thread : pc[t] = "join" => drawn[t] # b}

JoiningTypes ==
  /\ next_bucket \in Nat
  /\ pc \in [Thread -> {"draw", "join", "over", "copy", "done"}]
  /\ drawn \in [Thread -> Nat]
  /\ thread_results \in [Thread -> Seq(AllPairs)]

\* Nobody draws before both relations are partitioned.
Gated == \A t \in Thread : pc[t] # "draw" => \A rel \in Relation : Partitioned(rel)

Drawing ==
  /\ \A t \in Thread : pc[t] = "join" => drawn[t] \in Bucket /\ drawn[t] < next_bucket
  /\ \A t, u \in Thread : pc[t] = "join" /\ pc[u] = "join" /\ drawn[t] = drawn[u] => t = u
  /\ \A t \in Thread : pc[t] \in {"over", "copy", "done"} => next_bucket >= Buckets

Finding ==
  /\ \A p : p \in PairsOf(Joined) <=> \E t \in Thread : \E k \in Found(t) : ThePair(t, k) = p
  /\ \A t, u \in Thread : \A k \in Found(t), l \in Found(u) :
       ThePair(t, k) = ThePair(u, l) => t = u /\ k = l

Copying ==
  (\E t \in Thread : pc[t] \in {"copy", "done"}) =>
    /\ \A t \in Thread : pc[t] \in {"copy", "done"}
    /\ result \in Seq(AllPairs \cup {NoTuple}) /\ Len(result) = ResultStart(T)
    /\ \A t \in Thread : pc[t] = "done" =>
         \A k \in Found(t) : result[ResultPlace(t, k)] = ThePair(t, k)

Joining == JoiningTypes /\ Gated /\ Drawing /\ Finding /\ Copying

\* Every thread has the places after those of the threads before it.
Lengths == \A t \in Thread : Len(thread_results[t]) \in Nat

LEMMA PlacesInResult ==
  ASSUME Lengths
  PROVE  /\ \A t \in 0 .. T : ResultStart(t) \in Nat
         /\ ResultStart(0) = 0
         /\ \A t \in Thread : ResultStart(t + 1) = ResultStart(t) + Len(thread_results[t])
         /\ \A t, u \in 0 .. T : t <= u => ResultStart(t) <= ResultStart(u)
<1> DEFINE len(t) == Len(thread_results[t])
           column == [t \in Thread |-> {t} \X (1 .. len(t))]
           columns == {column[t] : t \in Thread}
           A == UNION columns
           c == [a \in A |-> a[1]]
           f == [u \in Thread |-> Len(thread_results[u])]
<1>1. \A t \in Thread : len(t) \in Nat
  BY DEF Lengths
<1> HIDE DEF len
<1>2. T \in Nat /\ IsFiniteSet(Thread)
  BY ThreadAssumption, IntervalsAreFinite DEF Thread
<1>3. \A t \in Thread : column[t] = {t} \X (1 .. len(t))
  OBVIOUS
<1>4. \A t \in Thread : IsFiniteSet(column[t]) /\ Cardinality(column[t]) = len(t)
  <2> TAKE t \in Thread
  <2>1. IsFiniteSet(1 .. len(t)) /\ Cardinality(1 .. len(t)) = len(t)
    BY <1>1, IntervalsAreFinite
  <2>2. IsFiniteSet({t}) /\ Cardinality({t}) = 1
    BY FS_Singleton
  <2>3. IsFiniteSet({t} \X (1 .. len(t))) /\ Cardinality({t} \X (1 .. len(t))) = 1 * len(t)
    BY <2>1, <2>2, FS_Product
  <2>4. 1 * len(t) = len(t)
    BY <1>1
  <2> QED
    BY <2>3, <2>4, <1>3
<1>5. column \in Surjection(Thread, columns)
  BY DEF Surjection
<1> HIDE DEF column
<1>6. IsFiniteSet(columns)
  BY <1>2, <1>5, FS_Surjection
<1>7. IsFiniteSet(A)
  BY <1>4, <1>6, FS_UNION
<1>8. \A t \in Thread : Shared(A, c, {t}) = column[t]
  <2> TAKE t \in Thread
  <2>1. ASSUME NEW a \in Shared(A, c, {t}) PROVE a \in column[t]
    <3>1. a \in A /\ a[1] = t
      BY <2>1 DEF Shared
    <3>2. PICK u \in Thread : a \in column[u]
      BY <3>1
    <3>3. u = t
      BY <3>1, <3>2, <1>3
    <3> QED
      BY <3>2, <3>3
  <2>2. ASSUME NEW a \in column[t] PROVE a \in Shared(A, c, {t})
    <3>1. a \in A /\ a[1] = t
      BY <1>3
    <3> QED
      BY <3>1 DEF Shared
  <2> QED
    BY <2>1, <2>2
<1> HIDE DEF A, c
<1>9. \A t \in Thread : f[t] = Cardinality(Shared(A, c, {t}))
  BY <1>4, <1>8 DEF len
<1>10. \A t \in 0 .. T : ResultStart(t) = Cardinality(Shared(A, c, 0 .. t - 1))
  <2> TAKE t \in 0 .. T
  <2>1. t \in Nat /\ 0 .. t - 1 \subseteq Thread
    BY <1>2 DEF Thread
  <2>2. IsFiniteSet(0 .. t - 1)
    BY <2>1, IntervalsAreFinite
  <2> HIDE DEF f
  <2>3. SumFunctionOnSet(f, 0 .. t - 1) = Cardinality(Shared(A, c, 0 .. t - 1))
    BY <2>1, <2>2, <1>7, <1>9, SumOfCounts
  <2> QED
    BY <2>3 DEF ResultStart, f
<1> HIDE DEF f
<1>11. \A Q : Shared(A, c, Q) \in SUBSET A
  BY DEF Shared
<1>12. \A Q : IsFiniteSet(Shared(A, c, Q)) /\ Cardinality(Shared(A, c, Q)) \in Nat
  BY <1>7, <1>11, FS_Subset, FS_CardinalityType
<1>13. \A t \in 0 .. T : ResultStart(t) \in Nat
  BY <1>10, <1>12
<1>14. ResultStart(0) = 0
  <2>1. 0 .. 0 - 1 = {} /\ 0 \in 0 .. T
    BY <1>2
  <2>2. Shared(A, c, {}) = {}
    BY DEF Shared
  <2>3. ResultStart(0) = Cardinality({})
    BY <2>1, <2>2, <1>10
  <2> QED
    BY <2>3, FS_EmptySet
<1>15. \A t \in Thread : ResultStart(t + 1) = ResultStart(t) + len(t)
  <2> TAKE t \in Thread
  <2> DEFINE Q == 0 .. t
  <2>1. t \in Q /\ t \in 0 .. T /\ t + 1 \in 0 .. T /\ Q \ {t} = 0 .. t - 1 /\ Q = 0 .. (t + 1) - 1
    BY <1>2 DEF Thread
  <2>2. ResultStart(t + 1) = Cardinality(Shared(A, c, 0 .. (t + 1) - 1)) /\
        ResultStart(t) = Cardinality(Shared(A, c, 0 .. t - 1))
    BY <2>1, <1>10
  <2> HIDE DEF Q
  <2>3. Cardinality(Shared(A, c, Q)) =
          Cardinality(Shared(A, c, {t})) + Cardinality(Shared(A, c, Q \ {t}))
    <3>1. t \in Q
      BY <2>1
    <3> QED
      BY <3>1, <1>7, ShareCounts
  <2>4. Cardinality(Shared(A, c, {t})) = len(t)
    BY <1>4, <1>8
  <2>5. ResultStart(t + 1) = len(t) + ResultStart(t)
    BY <2>1, <2>2, <2>3, <2>4
  <2>6. len(t) \in Nat /\ ResultStart(t) \in Nat
    BY <2>1, <1>1, <1>13
  <2> QED
    BY <2>5, <2>6
<1>16. \A t, u \in 0 .. T : t <= u => ResultStart(t) <= ResultStart(u)
  <2> TAKE t, u \in 0 .. T
  <2> SUFFICES ASSUME t <= u PROVE ResultStart(t) <= ResultStart(u)
    OBVIOUS
  <2>1. 0 .. t - 1 \subseteq 0 .. u - 1
    BY <1>2
  <2>2. Shared(A, c, 0 .. t - 1) \in SUBSET Shared(A, c, 0 .. u - 1)
    BY <2>1 DEF Shared
  <2>3. Cardinality(Shared(A, c, 0 .. t - 1)) <= Cardinality(Shared(A, c, 0 .. u - 1))
    BY <2>2, <1>12, FS_Subset
  <2> QED
    BY <2>3, <1>10
<1> QED
  BY <1>13, <1>14, <1>15, <1>16 DEF len

LEMMA PlacesOfThreads ==
  ASSUME Lengths
  PROVE  /\ \A t \in Thread : \A k \in Found(t) : ResultPlace(t, k) \in 1 .. ResultStart(T)
         /\ \A t, u \in Thread : \A k \in Found(t), l \in Found(u) :
              ResultPlace(t, k) = ResultPlace(u, l) => t = u /\ k = l
         /\ \A i \in 1 .. ResultStart(T) :
              \E t \in Thread : \E k \in Found(t) : i = ResultPlace(t, k)
<1> DEFINE len(t) == Len(thread_results[t])
<1>0. T \in Nat /\ \A t : t \in Thread <=> t \in Nat /\ t < T
  BY ThreadAssumption DEF Thread
<1>1. \A t \in Thread : len(t) \in Nat /\ t \in 0 .. T /\ t + 1 \in 0 .. T
  BY <1>0 DEF Lengths
<1>2. /\ \A t \in 0 .. T : ResultStart(t) \in Nat
      /\ ResultStart(0) = 0
      /\ \A t \in Thread : ResultStart(t + 1) = ResultStart(t) + len(t)
      /\ \A t, u \in 0 .. T : t <= u => ResultStart(t) <= ResultStart(u)
  BY PlacesInResult
<1>3. \A t : Found(t) = 1 .. len(t)
  BY DEF Found
<1>4. \A t, k : ResultPlace(t, k) = ResultStart(t) + k
  BY DEF ResultPlace
<1> HIDE DEF len
<1>5. T \in 0 .. T /\ 0 \in 0 .. T
  BY <1>0
<1>6. ASSUME NEW t \in Thread, NEW k \in Found(t)
      PROVE  ResultStart(t) < ResultPlace(t, k) /\ ResultPlace(t, k) <= ResultStart(t + 1) /\
             ResultPlace(t, k) \in Nat
  BY <1>1, <1>2, <1>3, <1>4
<1>7. ASSUME NEW t \in Thread, NEW k \in Found(t)
      PROVE  ResultPlace(t, k) \in 1 .. ResultStart(T)
  <2>1. t + 1 \in 0 .. T /\ t + 1 <= T /\ t \in 0 .. T
    BY <1>0, <1>1
  <2>2. ResultStart(t + 1) <= ResultStart(T)
    BY <2>1, <1>2, <1>5
  <2>3. ResultStart(t) \in Nat /\ ResultStart(t + 1) \in Nat /\ ResultStart(T) \in Nat
    BY <2>1, <1>2, <1>5
  <2> QED
    BY <2>2, <2>3, <1>6
<1>8. ASSUME NEW t \in Thread, NEW u \in Thread, NEW k \in Found(t), NEW l \in Found(u), t < u
      PROVE  ResultPlace(t, k) < ResultPlace(u, l)
  <2>1. t + 1 \in 0 .. T /\ u \in 0 .. T /\ t + 1 <= u
    BY <1>0, <1>1, <1>8
  <2>2. ResultStart(t + 1) <= ResultStart(u)
    BY <2>1, <1>2
  <2>3. ResultStart(t + 1) \in Nat /\ ResultStart(u) \in Nat
    BY <2>1, <1>2
  <2>4. ResultPlace(t, k) <= ResultStart(t + 1) /\ ResultPlace(t, k) \in Nat
    BY <1>6
  <2>5. ResultStart(u) < ResultPlace(u, l) /\ ResultPlace(u, l) \in Nat
    BY <1>6
  <2> QED
    BY <2>2, <2>3, <2>4, <2>5
<1>9. ASSUME NEW t \in Thread, NEW u \in Thread, NEW k \in Found(t), NEW l \in Found(u),
             ResultPlace(t, k) = ResultPlace(u, l)
      PROVE  t = u /\ k = l
  <2>1. ResultPlace(t, k) \in Nat /\ ResultPlace(u, l) \in Nat
    BY <1>6
  <2>2. ~(t < u) /\ ~(u < t)
    BY <2>1, <1>8, <1>9
  <2>3. t = u
    BY <2>2, <1>0
  <2>4. ResultStart(t) \in Nat /\ k \in Nat /\ l \in Nat
    BY <1>1, <1>2, <1>3
  <2> QED
    BY <2>3, <2>4, <1>4, <1>9
<1>10. ASSUME NEW i \in 1 .. ResultStart(T)
       PROVE  \E t \in Thread : \E k \in Found(t) : i = ResultPlace(t, k)
  <2> DEFINE E == {x \in 0 .. T : i <= ResultStart(x)}
  <2>0. i \in Nat /\ 0 < i /\ i <= ResultStart(T)
    BY <1>2, <1>5
  <2>1. E \in SUBSET Nat /\ T \in E
    BY <2>0, <1>5
  <2>2. PICK x \in E : \A y \in E : x <= y
    BY <2>1, LeastNumber
  <2>3. x # 0 /\ x \in 0 .. T /\ i <= ResultStart(x)
    BY <2>0, <2>2, <1>2
  <2> DEFINE t == x - 1
  <2>4. t \in Thread /\ t \in 0 .. T /\ t + 1 = x /\ ~(x <= t)
    BY <2>3, <1>0
  <2>5. ~(i <= ResultStart(t))
    BY <2>2, <2>4
  <2> HIDE DEF t
  <2>6. ResultStart(x) = ResultStart(t) + len(t) /\ ResultStart(t) \in Nat /\ len(t) \in Nat
    BY <2>4, <1>1, <1>2
  <2> DEFINE k == i - ResultStart(t)
  <2>7. k \in 1 .. len(t) /\ i = ResultStart(t) + k
    BY <2>0, <2>3, <2>5, <2>6
  <2> QED
    BY <2>4, <2>7, <1>3, <1>4
<1> QED
  BY <1>7, <1>9, <1>10

\* Every pair has a bucket.
LEMMA PairsHaveBuckets ==
  ASSUME Inputs, bits \in Nat
  PROVE  \A p \in AllPairs : BucketOf(input["S"][p[2]]) \in Bucket
<1> TAKE p \in AllPairs
<1>1. "S" \in Relation /\ p[2] \in Index("S")
  BY DEF Relation, AllPairs
<1> QED
  BY <1>1, BucketFacts

LEMMA JoinExactWhenDone ==
  ASSUME Inputs, bits \in Nat, Joining
  PROVE  JoinExact
<1> DEFINE N == ResultStart(T)
<1> SUFFICES ASSUME Done PROVE ToSet(result) = AllPairs /\ Len(result) = Cardinality(AllPairs)
  BY ExpectedIs DEF JoinExact
<1>1. 0 \in Thread /\ \A t \in Thread : pc[t] = "done"
  BY ThreadAssumption DEF Done, Thread
<1>2. Joined = Bucket
  <2>1. next_bucket >= Buckets /\ next_bucket \in Nat
    BY <1>1 DEF Joining, Drawing, JoiningTypes
  <2>2. \A b \in Bucket : b < next_bucket
    BY <2>1, BucketsAreNumbers
  <2> QED
    BY <2>2, <1>1 DEF Joined
<1>3. \A p : p \in AllPairs <=> \E t \in Thread : \E k \in Found(t) : ThePair(t, k) = p
  <2>1. PairsOf(Joined) = AllPairs
    BY <1>2, PairsHaveBuckets DEF PairsOf
  <2> QED
    BY <2>1 DEF Joining, Finding
<1>4. \A t, u \in Thread : \A k \in Found(t), l \in Found(u) :
        ThePair(t, k) = ThePair(u, l) => t = u /\ k = l
  BY DEF Joining, Finding
<1>5. /\ result \in Seq(AllPairs \cup {NoTuple}) /\ Len(result) = N
      /\ \A t \in Thread : \A k \in Found(t) : result[ResultPlace(t, k)] = ThePair(t, k)
  BY <1>1 DEF Joining, Copying
<1>6. Lengths
  BY DEF Joining, JoiningTypes, Lengths
<1>7. N \in Nat /\ DOMAIN result = 1 .. N /\ result = [i \in 1 .. N |-> result[i]]
  BY <1>5
<1> HIDE DEF N
<1>8. /\ \A t \in Thread : \A k \in Found(t) : ResultPlace(t, k) \in 1 .. N
      /\ \A i \in 1 .. N : \E t \in Thread : \E k \in Found(t) : i = ResultPlace(t, k)
  BY <1>6, PlacesOfThreads DEF N
<1>9. \A i \in 1 .. N : result[i] \in AllPairs
  <2> TAKE i \in 1 .. N
  <2>1. PICK t \in Thread : \E k \in Found(t) : i = ResultPlace(t, k)
    BY <1>8
  <2>2. PICK k \in Found(t) : i = ResultPlace(t, k)
    BY <2>1
  <2> QED
    BY <2>2, <1>3, <1>5
<1>10. \A p \in AllPairs : \E i \in 1 .. N : result[i] = p
  <2> TAKE p \in AllPairs
  <2>1. PICK t \in Thread : \E k \in Found(t) : ThePair(t, k) = p
    BY <1>3
  <2>2. PICK k \in Found(t) : ThePair(t, k) = p
    BY <2>1
  <2> QED
    BY <2>2, <1>5, <1>8
<1>11. \A i, j \in 1 .. N : result[i] = result[j] => i = j
  <2> TAKE i, j \in 1 .. N
  <2> SUFFICES ASSUME result[i] = result[j] PROVE i = j
    OBVIOUS
  <2>1. PICK t \in Thread : \E k \in Found(t) : i = ResultPlace(t, k)
    BY <1>8
  <2>2. PICK k \in Found(t) : i = ResultPlace(t, k)
    BY <2>1
  <2>3. PICK u \in Thread : \E l \in Found(u) : j = ResultPlace(u, l)
    BY <1>8
  <2>4. PICK l \in Found(u) : j = ResultPlace(u, l)
    BY <2>3
  <2>5. ThePair(t, k) = ThePair(u, l)
    BY <2>2, <2>4, <1>5
  <2> QED
    BY <2>2, <2>4, <2>5, <1>4
<1>12. ToSet(result) = AllPairs
  BY <1>7, <1>9, <1>10 DEF ToSet
<1>13. result \in Surjection(1 .. N, AllPairs)
  <2>1. result \in [1 .. N -> AllPairs]
    BY <1>7, <1>9
  <2> QED
    BY <2>1, <1>10 DEF Surjection
<1>14. result \in Injection(1 .. N, AllPairs)
  <2>1. result \in [1 .. N -> AllPairs]
    BY <1>7, <1>9
  <2> QED
    BY <2>1, <1>11 DEF Injection, IsInjective
<1>15. Cardinality(AllPairs) = N
  <2>1. IsFiniteSet(1 .. N) /\ Cardinality(1 .. N) = N
    BY <1>7, IntervalsAreFinite
  <2>2. Cardinality(AllPairs) = Cardinality(1 .. N)
    BY <2>1, <1>13, <1>14, FS_Surjection
  <2> QED
    BY <2>1, <2>2
<1> QED
  BY <1>12, <1>15, <1>5

LEMMA JoiningInitially == Init => Joining
<1> SUFFICES ASSUME Init PROVE Joining
  OBVIOUS
<1>1. /\ next_bucket = 0 /\ pc = [t \in Thread |-> "draw"] /\ drawn = [t \in Thread |-> 0]
      /\ thread_results = [t \in Thread |-> <<>>]
  BY DEF Init
<1>2. \A t \in Thread : pc[t] = "draw" /\ thread_results[t] = <<>>
  BY <1>1
<1>3. JoiningTypes
  BY <1>1 DEF JoiningTypes
<1>4. Gated
  BY <1>2 DEF Gated
<1>5. Drawing
  BY <1>2 DEF Drawing
<1>6. Copying
  BY <1>2 DEF Copying
<1>7. Finding
  <2>1. \A t \in Thread : \A k \in Found(t) : FALSE
    <3> TAKE t \in Thread
    <3>1. Len(thread_results[t]) = 0
      BY <1>2
    <3> QED
      BY <3>1 DEF Found
  <2>2. \A b \in Bucket : ~(b < next_bucket)
    <3>1. bits \in Nat
      BY RadixBitsIsNumber DEF Init
    <3> QED
      BY <3>1, <1>1, BucketsAreNumbers
  <2>3. \A p : p \notin PairsOf(Joined)
    BY <2>2 DEF PairsOf, Joined
  <2> QED
    BY <2>1, <2>3 DEF Finding
<1> QED
  BY <1>3, <1>4, <1>5, <1>6, <1>7 DEF Joining

LEMMA SamePairs ==
  ASSUME UNCHANGED <<input, bits>>
  PROVE  /\ AllPairs' = AllPairs /\ Bucket' = Bucket /\ Buckets' = Buckets
         /\ PairsOf(Joined)' = {p \in AllPairs : BucketOf(input["S"][p[2]]) \in Joined'}
<1>1. Bucket' = Bucket /\ Buckets' = Buckets
  BY SameInput
<1>2. Index("R")' = Index("R") /\ Index("S")' = Index("S")
  BY SameInput
<1>3. \A a, key : FirstOf(a, key)' <=> FirstOf(a, key)
  BY <1>2 DEF FirstOf
<1>4. AllPairs' = AllPairs
  BY <1>2, <1>3 DEF AllPairs
<1>5. \A tuple : BucketOf(tuple)' = BucketOf(tuple)
  BY <1>1 DEF BucketOf
<1>6. PairsOf(Joined)' = {p \in AllPairs : BucketOf(input["S"][p[2]]) \in Joined'}
  BY <1>1, <1>4, <1>5 DEF PairsOf, BucketOf
<1> QED
  BY <1>1, <1>4, <1>6

LEMMA InputStays == ASSUME [Next]_vars PROVE UNCHANGED <<input, bits>>
<1>1. ASSUME NEW rel \in Relation, CopyWhole(rel) \/ PrefixSums(rel)
      PROVE  UNCHANGED <<input, bits>>
  BY <1>1 DEF CopyWhole, PrefixSums
<1>2. ASSUME NEW rel \in Relation, NEW t \in Thread, Count(rel, t) \/ Scatter(rel, t)
      PROVE  UNCHANGED <<input, bits>>
  BY <1>2 DEF Count, Scatter
<1>3. ASSUME NEW t \in Thread, Draw(t) \/ JoinBucket(t) \/ CopyResults(t)
      PROVE  UNCHANGED <<input, bits>>
  BY <1>3 DEF Draw, JoinBucket, CopyResults
<1>4. CASE Resize
  BY <1>4 DEF Resize
<1>5. CASE UNCHANGED vars
  BY <1>5 DEF vars
<1> QED
  BY <1>1, <1>2, <1>3, <1>4, <1>5 DEF Next

\* What is partitioned stays so: no thread has a tuple left.
LEMMA PartitionedStays ==
  ASSUME Partitioning, [Next]_vars, NEW rel \in Relation, Partitioned(rel)
  PROVE  Partitioned(rel)'
<1>0. UNCHANGED <<input, bits>>
  BY InputStays
<1>1. \A t : End(rel, t)' = End(rel, t)
  BY <1>0, SameInput
<1>2. /\ DOMAIN phase = Relation /\ DOMAIN pos = Relation
      /\ \A r \in Relation : DOMAIN pos[r] = Thread
  BY DEF Partitioning, PartitioningTypes
<1>3. ASSUME phase'[rel] = phase[rel], pos'[rel] = pos[rel] PROVE Partitioned(rel)'
  BY <1>1, <1>3 DEF Partitioned, SlicesDone
<1>4. ASSUME NEW r \in Relation, CopyWhole(r) PROVE phase'[rel] = phase[rel] /\ pos'[rel] = pos[rel]
  <2>1. phase[r] = "count" /\ phase' = [phase EXCEPT ![r] = "copied"] /\ pos' = pos
    BY <1>4 DEF CopyWhole
  <2>2. r # rel
    BY <2>1 DEF Partitioned
  <2> QED
    BY <2>1, <2>2
<1>5. ASSUME NEW r \in Relation, PrefixSums(r) PROVE phase'[rel] = phase[rel] /\ pos'[rel] = pos[rel]
  <2>1. /\ phase[r] = "count" /\ phase' = [phase EXCEPT ![r] = "scatter"]
        /\ pos' = [pos EXCEPT ![r] = [t \in Thread |-> Start(r, t)]]
    BY <1>5 DEF PrefixSums
  <2>2. r # rel
    BY <2>1 DEF Partitioned
  <2> QED
    BY <2>1, <2>2
<1>6. ASSUME NEW r \in Relation, NEW t \in Thread, Count(r, t)
      PROVE  phase'[rel] = phase[rel] /\ pos'[rel] = pos[rel]
  <2>1. /\ phase[r] = "count" /\ phase' = phase
        /\ pos' = [pos EXCEPT ![r][t] = End(r, t)]
    BY <1>6 DEF Count
  <2>2. r # rel
    BY <2>1 DEF Partitioned
  <2> QED
    BY <2>1, <2>2
<1>7. ASSUME NEW r \in Relation, NEW t \in Thread, Scatter(r, t)
      PROVE  phase'[rel] = phase[rel] /\ pos'[rel] = pos[rel]
  <2>1. /\ phase[r] = "scatter" /\ phase' = phase
        /\ pos[r][t] # End(r, t) /\ pos' = [pos EXCEPT ![r][t] = @ + 1]
    BY <1>7 DEF Scatter
  <2>2. r # rel
    BY <2>1 DEF Partitioned, SlicesDone
  <2> QED
    BY <2>1, <2>2
<1>8. ASSUME NEW t \in Thread, Draw(t) \/ JoinBucket(t) \/ CopyResults(t)
      PROVE  phase' = phase /\ pos' = pos
  BY <1>8 DEF Draw, JoinBucket, CopyResults, partitioning
<1>9. CASE Resize
  BY <1>9, <1>3 DEF Resize, partitioning
<1>10. CASE UNCHANGED vars
  BY <1>10, <1>3 DEF vars, partitioning
<1> QED
  BY <1>3, <1>4, <1>5, <1>6, <1>7, <1>8, <1>9, <1>10 DEF Next

\* While the relations are partitioned nobody joins.
LEMMA JoiningUnchanged ==
  ASSUME Partitioning, Joining, [Next]_vars, UNCHANGED joining
  PROVE  Joining'
<1>0. UNCHANGED <<input, bits>> /\ UNCHANGED <<next_bucket, pc, drawn, thread_results, result>>
  BY InputStays DEF joining
<1>1. AllPairs' = AllPairs /\ Bucket' = Bucket /\ Buckets' = Buckets
  BY <1>0, SamePairs
<1>2. Joined' = Joined
  BY <1>0, <1>1 DEF Joined
<1>3. PairsOf(Joined)' = PairsOf(Joined)
  BY <1>0, <1>2, SamePairs DEF PairsOf
<1>4. /\ \A t : Found(t)' = Found(t) /\ ResultStart(t)' = ResultStart(t)
      /\ \A t, k : ThePair(t, k)' = ThePair(t, k)
  BY <1>0 DEF Found, ResultStart, ThePair
<1>5. \A t, k : ResultPlace(t, k)' = ResultPlace(t, k)
  BY <1>4 DEF ResultPlace
<1>6. JoiningTypes'
  BY <1>0, <1>1 DEF Joining, JoiningTypes
<1>7. Gated'
  BY <1>0, PartitionedStays DEF Joining, Gated
<1>8. Drawing'
  BY <1>0, <1>1 DEF Joining, Drawing
<1>9. Finding'
  BY <1>3, <1>4 DEF Joining, Finding
<1>10. Copying'
  BY <1>0, <1>1, <1>4, <1>5 DEF Joining, Copying
<1> QED
  BY <1>6, <1>7, <1>8, <1>9, <1>10 DEF Joining

LEMMA DrawKeeps ==
  ASSUME Partitioning, Joining, NEW t \in Thread, Draw(t)
  PROVE  Joining'
<1>0. UNCHANGED <<input, bits>> /\ UNCHANGED <<thread_results, result>> /\ [Next]_vars
  BY DEF Draw, Next
<1>1. /\ \A rel \in Relation : Partitioned(rel)
      /\ pc[t] = "draw"
      /\ pc' = [pc EXCEPT ![t] = IF next_bucket \in Bucket THEN "join" ELSE "over"]
      /\ drawn' = [drawn EXCEPT ![t] = next_bucket]
      /\ next_bucket' = next_bucket + 1
  BY DEF Draw
<1>2. JoiningTypes
  BY DEF Joining
<1>3. pc'[t] = (IF next_bucket \in Bucket THEN "join" ELSE "over") /\ drawn'[t] = next_bucket
  BY <1>1, <1>2 DEF JoiningTypes
<1>4. \A u \in Thread : u # t => pc'[u] = pc[u] /\ drawn'[u] = drawn[u]
  BY <1>1, <1>2 DEF JoiningTypes
<1>5. next_bucket \in Nat /\ next_bucket' \in Nat /\ next_bucket < next_bucket'
  BY <1>1, <1>2 DEF JoiningTypes
<1>6. AllPairs' = AllPairs /\ Bucket' = Bucket /\ Buckets' = Buckets
  BY <1>0, SamePairs
<1>7. bits \in Nat
  BY DEF Partitioning, PartitioningTypes
<1>8. \A b \in Bucket : b \in Nat /\ b < Buckets
  BY <1>7, BucketsAreNumbers
<1>9. Buckets \in Nat
  BY <1>7, BucketsAreNumbers
<1>10. JoiningTypes'
  <2>1. pc' \in [Thread -> {"draw", "join", "over", "copy", "done"}]
    BY <1>1, <1>2 DEF JoiningTypes
  <2>2. drawn' \in [Thread -> Nat]
    BY <1>1, <1>2 DEF JoiningTypes
  <2> QED
    BY <2>1, <2>2, <1>0, <1>2, <1>5, <1>6 DEF JoiningTypes
<1>11. Gated'
  BY <1>0, <1>1, PartitionedStays DEF Gated
<1>12. \A u \in Thread : pc'[u] = "join" => drawn'[u] \in Bucket /\ drawn'[u] < next_bucket'
  <2> TAKE u \in Thread
  <2>1. CASE u = t
    BY <2>1, <1>3, <1>5
  <2>2. CASE u # t
    <3>1. pc[u] = "join" => drawn[u] \in Bucket /\ drawn[u] < next_bucket
      BY DEF Joining, Drawing
    <3> QED
      BY <3>1, <2>2, <1>4, <1>5, <1>8
  <2> QED
    BY <2>1, <2>2
<1>13. \A u \in Thread : u # t /\ pc'[u] = "join" => drawn'[u] # next_bucket
  <2> TAKE u \in Thread
  <2>1. pc[u] = "join" => drawn[u] \in Bucket /\ drawn[u] < next_bucket
    BY DEF Joining, Drawing
  <2> QED
    BY <2>1, <1>4, <1>5, <1>8
<1>14. \A u, v \in Thread : pc'[u] = "join" /\ pc'[v] = "join" /\ drawn'[u] = drawn'[v] => u = v
  <2> TAKE u, v \in Thread
  <2>1. pc[u] = "join" /\ pc[v] = "join" /\ drawn[u] = drawn[v] => u = v
    BY DEF Joining, Drawing
  <2> QED
    BY <2>1, <1>3, <1>4, <1>13
<1>15. \A u \in Thread : pc'[u] \in {"over", "copy", "done"} => next_bucket' >= Buckets
  <2> TAKE u \in Thread
  <2>1. CASE u = t
    <3>1. next_bucket \notin Bucket => next_bucket >= Buckets
      BY <1>5, <1>9 DEF Bucket
    <3> QED
      BY <3>1, <2>1, <1>3, <1>5, <1>9
  <2>2. CASE u # t
    <3>1. pc[u] \in {"over", "copy", "done"} => next_bucket >= Buckets
      BY DEF Joining, Drawing
    <3> QED
      BY <3>1, <2>2, <1>4, <1>5, <1>9
  <2> QED
    BY <2>1, <2>2
<1>16. Drawing'
  BY <1>12, <1>14, <1>15, <1>6 DEF Drawing
<1>17. Joined' = Joined
  <2>1. \A b : b \in Joined' <=>
          b \in Bucket /\ b < next_bucket' /\ \A u \in Thread : pc'[u] = "join" => drawn'[u] # b
    BY <1>6 DEF Joined
  <2>2. \A b : b \in Joined <=>
          b \in Bucket /\ b < next_bucket /\ \A u \in Thread : pc[u] = "join" => drawn[u] # b
    BY DEF Joined
  <2>3. ASSUME NEW b \in Joined' PROVE b \in Joined
    <3>1. b \in Bucket /\ b < next_bucket' /\ \A u \in Thread : pc'[u] = "join" => drawn'[u] # b
      BY <2>1
    <3>2. b # next_bucket
      BY <3>1, <1>3
    <3>3. b < next_bucket
      BY <3>1, <3>2, <1>1, <1>5, <1>8
    <3>4. \A u \in Thread : pc[u] = "join" => drawn[u] # b
      BY <3>1, <1>1, <1>4
    <3> QED
      BY <3>1, <3>3, <3>4, <2>2
  <2>4. ASSUME NEW b \in Joined PROVE b \in Joined'
    <3>1. b \in Bucket /\ b < next_bucket /\ \A u \in Thread : pc[u] = "join" => drawn[u] # b
      BY <2>2
    <3>2. b # next_bucket /\ b < next_bucket'
      BY <3>1, <1>5, <1>8
    <3>3. \A u \in Thread : pc'[u] = "join" => drawn'[u] # b
      BY <3>1, <3>2, <1>3, <1>4
    <3> QED
      BY <3>1, <3>2, <3>3, <2>1
  <2> QED
    BY <2>3, <2>4
<1>18. PairsOf(Joined)' = PairsOf(Joined)
  BY <1>0, <1>17, SamePairs DEF PairsOf
<1>19. Finding'
  <2>1. /\ \A u : Found(u)' = Found(u)
        /\ \A u, k : ThePair(u, k)' = ThePair(u, k)
    BY <1>0 DEF Found, ThePair
  <2> QED
    BY <2>1, <1>18 DEF Joining, Finding
<1>20. Copying'
  <2>1. \A u \in Thread : pc[u] \notin {"copy", "done"}
    BY <1>1 DEF Joining, Copying
  <2>2. \A u \in Thread : pc'[u] \notin {"copy", "done"}
    BY <2>1, <1>3, <1>4
  <2> QED
    BY <2>2 DEF Copying
<1> QED
  BY <1>10, <1>11, <1>16, <1>19, <1>20 DEF Joining

LEMMA ResizeKeeps ==
  ASSUME Partitioning, Joining, Resize
  PROVE  Joining'
<1>0. UNCHANGED <<input, bits>> /\ UNCHANGED <<next_bucket, drawn, thread_results>> /\ [Next]_vars
  BY DEF Resize, Next
<1>1. /\ \A t \in Thread : pc[t] = "over"
      /\ pc' = [t \in Thread |-> "copy"]
      /\ result' = [i \in 1 .. ResultStart(T) |-> NoTuple]
  BY DEF Resize
<1>2. \A t \in Thread : pc'[t] = "copy"
  BY <1>1
<1>3. AllPairs' = AllPairs /\ Bucket' = Bucket /\ Buckets' = Buckets
  BY <1>0, SamePairs
<1>4. JoiningTypes'
  BY <1>0, <1>1, <1>3 DEF Joining, JoiningTypes
<1>5. Gated'
  BY <1>0, <1>1, PartitionedStays DEF Joining, Gated
<1>6. Drawing'
  BY <1>0, <1>1, <1>2, <1>3 DEF Joining, Drawing
<1>7. Joined' = Joined
  BY <1>0, <1>1, <1>2, <1>3 DEF Joined
<1>8. PairsOf(Joined)' = PairsOf(Joined)
  BY <1>0, <1>7, SamePairs DEF PairsOf
<1>9. /\ \A u : Found(u)' = Found(u) /\ ResultStart(u)' = ResultStart(u)
      /\ \A u, k : ThePair(u, k)' = ThePair(u, k)
  BY <1>0 DEF Found, ThePair, ResultStart
<1>10. Finding'
  BY <1>8, <1>9 DEF Joining, Finding
<1>11. Copying'
  <2>1. Lengths /\ T \in 0 .. T
    BY ThreadAssumption DEF Joining, JoiningTypes, Lengths
  <2>2. ResultStart(T) \in Nat
    BY <2>1, PlacesInResult
  <2>3. result' \in Seq(AllPairs \cup {NoTuple}) /\ Len(result') = ResultStart(T)
    BY <2>2, <1>1
  <2> QED
    BY <2>3, <1>2, <1>3, <1>9 DEF Copying
<1> QED
  BY <1>4, <1>5, <1>6, <1>10, <1>11 DEF Joining

LEMMA CopyResultsKeeps ==
  ASSUME Partitioning, Joining, NEW t \in Thread, CopyResults(t)
  PROVE  Joining'
<1>0. UNCHANGED <<input, bits>> /\ UNCHANGED <<next_bucket, drawn, thread_results>> /\ [Next]_vars
  BY DEF CopyResults, Next
<1> DEFINE start == ResultStart(t)
           mine == thread_results[t]
<1>1. /\ pc[t] = "copy" /\ pc' = [pc EXCEPT ![t] = "done"]
      /\ result' = [i \in DOMAIN result |->
           IF i - start \in DOMAIN mine THEN mine[i - start] ELSE result[i]]
  BY DEF CopyResults
<1>2. JoiningTypes
  BY DEF Joining
<1>3. pc'[t] = "done" /\ \A u \in Thread : u # t => pc'[u] = pc[u]
  BY <1>1, <1>2 DEF JoiningTypes
<1>4. AllPairs' = AllPairs /\ Bucket' = Bucket /\ Buckets' = Buckets
  BY <1>0, SamePairs
<1>5. JoiningTypes'
  <2>1. pc' \in [Thread -> {"draw", "join", "over", "copy", "done"}]
    BY <1>1, <1>2 DEF JoiningTypes
  <2> QED
    BY <2>1, <1>0, <1>2, <1>4 DEF JoiningTypes
<1>6. Gated'
  <2>1. \A rel \in Relation : Partitioned(rel)
    BY <1>1 DEF Joining, Gated
  <2> QED
    BY <2>1, <1>0, PartitionedStays DEF Gated
<1>7. Drawing'
  <2>1. next_bucket >= Buckets
    BY <1>1 DEF Joining, Drawing
  <2>2. \A u \in Thread : pc'[u] = "join" => pc[u] = "join"
    BY <1>3
  <2> QED
    BY <2>1, <2>2, <1>0, <1>4 DEF Joining, Drawing
<1>8. Joined' = Joined
  <2>1. \A u \in Thread : pc'[u] = "join" <=> pc[u] = "join"
    BY <1>1, <1>3
  <2> QED
    BY <2>1, <1>0, <1>4 DEF Joined
<1>9. PairsOf(Joined)' = PairsOf(Joined)
  BY <1>0, <1>8, SamePairs DEF PairsOf
<1>10. /\ \A u : Found(u)' = Found(u) /\ ResultStart(u)' = ResultStart(u)
       /\ \A u, k : ThePair(u, k)' = ThePair(u, k)
  BY <1>0 DEF Found, ThePair, ResultStart
<1>11. Finding'
  BY <1>9, <1>10 DEF Joining, Finding
<1>12. /\ \A u \in Thread : pc[u] \in {"copy", "done"}
       /\ result \in Seq(AllPairs \cup {NoTuple}) /\ Len(result) = ResultStart(T)
       /\ \A u \in Thread : pc[u] = "done" =>
            \A k \in Found(u) : result[ResultPlace(u, k)] = ThePair(u, k)
  BY <1>1 DEF Joining, Copying
<1>13. Lengths
  BY <1>2 DEF JoiningTypes, Lengths
<1>14. ResultStart(T) \in Nat /\ start \in Nat
  <2>1. t \in 0 .. T /\ T \in 0 .. T
    BY ThreadAssumption DEF Thread
  <2> QED
    BY <2>1, <1>13, PlacesInResult
<1>15. mine \in Seq(AllPairs) /\ DOMAIN mine = Found(t) /\ \A k \in Found(t) : mine[k] = ThePair(t, k)
  <2>1. mine \in Seq(AllPairs)
    BY <1>2 DEF JoiningTypes
  <2> QED
    BY <2>1 DEF Found, ThePair
<1>16. DOMAIN result = 1 .. ResultStart(T)
  BY <1>12
<1>17. \A k \in Found(t) : k \in Nat
  BY <1>13 DEF Found, Lengths
<1>18. \A k : ResultPlace(t, k) = start + k
  BY DEF ResultPlace
<1> HIDE DEF start, mine
<1>19. \A i \in 1 .. ResultStart(T) :
         /\ i - start \in Found(t) => result'[i] = ThePair(t, i - start)
         /\ i - start \notin Found(t) => result'[i] = result[i]
  BY <1>1, <1>15, <1>16
<1>20. result' \in Seq(AllPairs \cup {NoTuple}) /\ Len(result') = ResultStart(T)
  <2>1. \A i \in 1 .. ResultStart(T) : result'[i] \in AllPairs \cup {NoTuple}
    <3> TAKE i \in 1 .. ResultStart(T)
    <3>1. result[i] \in AllPairs \cup {NoTuple}
      BY <1>12, <1>16
    <3>2. i - start \in Found(t) => ThePair(t, i - start) \in AllPairs
      BY <1>15
    <3> QED
      BY <3>1, <3>2, <1>19
  <2>2. result' = [i \in 1 .. ResultStart(T) |-> result'[i]]
    BY <1>1, <1>16
  <2> QED
    BY <2>1, <2>2, <1>14
<1>21. \A k \in Found(t) : result'[ResultPlace(t, k)] = ThePair(t, k)
  <2> TAKE k \in Found(t)
  <2>1. ResultPlace(t, k) \in 1 .. ResultStart(T)
    BY <1>13, PlacesOfThreads
  <2>2. ResultPlace(t, k) - start = k
    BY <1>14, <1>17, <1>18
  <2> QED
    BY <2>1, <2>2, <1>19
<1>22. ASSUME NEW u \in Thread, u # t, pc[u] = "done", NEW k \in Found(u)
       PROVE  result'[ResultPlace(u, k)] = ThePair(u, k)
  <2> DEFINE i == ResultPlace(u, k)
  <2>1. i \in 1 .. ResultStart(T) /\ result[i] = ThePair(u, k)
    BY <1>12, <1>13, <1>22, PlacesOfThreads
  <2>2. i - start \notin Found(t)
    <3> SUFFICES ASSUME i - start \in Found(t) PROVE FALSE
      OBVIOUS
    <3> DEFINE l == i - start
    <3>1. l \in Found(t) /\ i = start + l
      BY <2>1, <1>14
    <3> HIDE DEF l
    <3>2. ResultPlace(t, l) = ResultPlace(u, k)
      BY <3>1, <1>18
    <3> QED
      BY <3>1, <3>2, <1>13, <1>22, PlacesOfThreads
  <2> HIDE DEF i
  <2>3. result'[i] = ThePair(u, k)
    BY <2>1, <2>2, <1>19
  <2> QED
    BY <2>3 DEF i
<1>23. Copying'
  <2>1. \A u \in Thread : pc'[u] \in {"copy", "done"}
    BY <1>3, <1>12
  <2>2. \A u \in Thread : pc'[u] = "done" =>
          \A k \in Found(u) : result'[ResultPlace(u, k)] = ThePair(u, k)
    BY <1>3, <1>21, <1>22
  <2>3. \A u, k : ResultPlace(u, k)' = ResultPlace(u, k)
    BY <1>10 DEF ResultPlace
  <2> QED
    BY <2>1, <2>2, <2>3, <1>4, <1>10, <1>20 DEF Copying
<1> QED
  BY <1>5, <1>6, <1>7, <1>11, <1>23 DEF Joining

\* Where a bucket is empty on one side there is nothing to find.
LEMMA EmptyBucket ==
  ASSUME Inputs, bits \in Nat, Placed("R"), Placed("S"), NEW b \in Bucket,
         BucketTuples("R", b) = <<>> \/ BucketTuples("S", b) = <<>>
  PROVE  Lists(<<>>, {b})
<1>0. "R" \in Relation /\ "S" \in Relation
  BY DEF Relation
<1>1. \A rel \in Relation : Placed(rel) /\ BucketTuples(rel, b) = <<>> => Members(rel, b) = {}
  <2> SUFFICES ASSUME NEW rel \in Relation, Placed(rel), BucketTuples(rel, b) = <<>>
               PROVE  \A i \in Members(rel, b) : FALSE
    OBVIOUS
  <2>1. Len(BucketTuples(rel, b)) = Cardinality(Members(rel, b))
    BY BucketIsSequence
  <2>2. \A i \in Members(rel, b) : \E n \in 1 .. Cardinality(Members(rel, b)) :
          Nth(Members(rel, b), n) = i
    BY BucketIsSequence
  <2>3. Cardinality(Members(rel, b)) = 0
    BY <2>1
  <2> QED
    BY <2>2, <2>3
<1>2. ASSUME NEW p \in PairsOf({b}) PROVE p[1] \in Members("R", b) /\ p[2] \in Members("S", b)
  <2>1. /\ p[1] \in Index("R") /\ p[2] \in Index("S")
        /\ input["R"][p[1]].key = input["S"][p[2]].key
        /\ BucketOf(input["S"][p[2]]) = b
    BY DEF PairsOf, AllPairs, FirstOf
  <2>2. BucketOf(input["R"][p[1]]) = b
    BY <2>1 DEF BucketOf
  <2> QED
    BY <2>1, <2>2 DEF Members, Index
<1>3. \A p : p \notin PairsOf({b})
  BY <1>0, <1>1, <1>2
<1>4. <<>> \in Seq(AllPairs) /\ \A n \in 1 .. Len(<<>>) : FALSE
  OBVIOUS
<1> QED
  BY <1>3, <1>4 DEF Lists

\* What JoinBucket appends, in each of its cases.
LEMMA BucketIsListed ==
  ASSUME Partitioning, Joining, NEW t \in Thread, JoinBucket(t)
  PROVE  /\ drawn[t] \in Bucket
         /\ \E added : /\ Lists(added, {drawn[t]})
                       /\ thread_results'[t] = thread_results[t] \o added
                       /\ \A u \in Thread : u # t => thread_results'[u] = thread_results[u]
                       /\ DOMAIN thread_results' = Thread
                       /\ thread_results' = [u \in Thread |-> thread_results'[u]]
<1> DEFINE b == drawn[t]
           r == BucketTuples("R", b)
           s == BucketTuples("S", b)
<1>0. "R" \in Relation /\ "S" \in Relation
  BY DEF Relation
<1>1. pc[t] = "join" /\ b \in Bucket
  BY DEF JoinBucket, Joining, Drawing
<1>2. Inputs /\ bits \in Nat
  BY DEF Partitioning, PartitioningTypes
<1>3. Placed("R") /\ Placed("S")
  <2>1. Partitioned("R") /\ Partitioned("S")
    BY <1>0, <1>1 DEF Joining, Gated
  <2> QED
    BY <2>1, <1>0, PlacedWhenPartitioned
<1>4. thread_results \in [Thread -> Seq(AllPairs)]
  BY DEF Joining, JoiningTypes
<1>5. CASE r = <<>> \/ s = <<>>
  <2>1. Lists(<<>>, {b})
    BY <1>1, <1>2, <1>3, <1>5, EmptyBucket
  <2>2. thread_results' = thread_results
    BY <1>5 DEF JoinBucket
  <2>3. thread_results[t] \o <<>> = thread_results[t]
    BY <1>4
  <2>4. thread_results = [u \in Thread |-> thread_results[u]] /\ DOMAIN thread_results = Thread
    BY <1>4
  <2> HIDE DEF b
  <2> QED
    BY <2>1, <2>2, <2>3, <2>4, <1>1 DEF b
<1>6. CASE ~(r = <<>> \/ s = <<>>)
  <2>1. PICK table \in Build(r) : \E hits \in {Hits(table, s)} :
          thread_results' = [thread_results EXCEPT ![t] = @ \o Matches(table, s, hits)]
    BY <1>6 DEF JoinBucket
  <2> DEFINE added == Matches(table, s, Hits(table, s))
  <2>2. thread_results' = [thread_results EXCEPT ![t] = @ \o added]
    BY <2>1
  <2>3. Lists(added, {b})
    BY <1>1, <1>2, <1>3, BucketJoined
  <2> HIDE DEF added, b
  <2>4. /\ thread_results'[t] = thread_results[t] \o added
        /\ \A u \in Thread : u # t => thread_results'[u] = thread_results[u]
        /\ DOMAIN thread_results' = Thread
        /\ thread_results' = [u \in Thread |-> thread_results'[u]]
    BY <2>2, <1>4
  <2> QED
    BY <2>3, <2>4, <1>1 DEF b
<1> QED
  BY <1>5, <1>6

LEMMA JoinBucketKeeps ==
  ASSUME Partitioning, Joining, NEW t \in Thread, JoinBucket(t)
  PROVE  Joining'
<1>0. UNCHANGED <<input, bits>> /\ UNCHANGED <<next_bucket, drawn, result>> /\ [Next]_vars
  BY DEF JoinBucket, Next
<1> DEFINE b == drawn[t]
           old == thread_results[t]
<1>1. pc[t] = "join" /\ pc' = [pc EXCEPT ![t] = "draw"]
  BY DEF JoinBucket
<1>2. JoiningTypes
  BY DEF Joining
<1>3. pc'[t] = "draw" /\ \A u \in Thread : u # t => pc'[u] = pc[u]
  BY <1>1, <1>2 DEF JoiningTypes
<1>4. AllPairs' = AllPairs /\ Bucket' = Bucket /\ Buckets' = Buckets
  BY <1>0, SamePairs
<1>5. b \in Bucket
  BY BucketIsListed
<1>6. PICK added : /\ Lists(added, {b})
                   /\ thread_results'[t] = old \o added
                   /\ \A u \in Thread : u # t => thread_results'[u] = thread_results[u]
                   /\ DOMAIN thread_results' = Thread
                   /\ thread_results' = [u \in Thread |-> thread_results'[u]]
  BY BucketIsListed
<1>7. old \in Seq(AllPairs) /\ added \in Seq(AllPairs)
  BY <1>2, <1>6 DEF JoiningTypes, Lists
<1> HIDE DEF old
<1>8. PICK len \in Nat :
        /\ len = Len(old)
        /\ old \o added \in Seq(AllPairs) /\ Len(old \o added) = len + Len(added)
        /\ Len(added) \in Nat
        /\ \A k \in 1 .. len : (old \o added)[k] = old[k]
        /\ \A k \in 1 .. Len(added) : (old \o added)[len + k] = added[k]
  BY <1>7
<1>9. JoiningTypes'
  <2>1. pc' \in [Thread -> {"draw", "join", "over", "copy", "done"}]
    BY <1>1, <1>2 DEF JoiningTypes
  <2>2. \A u \in Thread : thread_results'[u] \in Seq(AllPairs)
    BY <1>2, <1>6, <1>8 DEF JoiningTypes
  <2>3. thread_results' \in [Thread -> Seq(AllPairs)]
    BY <2>2, <1>6
  <2> QED
    BY <2>1, <2>3, <1>0, <1>2, <1>4 DEF JoiningTypes
<1>10. Gated'
  <2>1. \A rel \in Relation : Partitioned(rel)
    BY <1>1 DEF Joining, Gated
  <2> QED
    BY <2>1, <1>0, PartitionedStays DEF Gated
<1>11. Drawing'
  <2>1. \A u \in Thread : pc'[u] # "draw" => pc'[u] = pc[u]
    BY <1>3
  <2> QED
    BY <2>1, <1>0, <1>4 DEF Joining, Drawing
<1>12. b \notin Joined
  BY <1>1 DEF Joined
<1>13. \A c : c \in Joined' <=> c \in Joined \/ c = b
  <2>1. \A c : c \in Joined' <=>
          c \in Bucket /\ c < next_bucket /\ \A u \in Thread : pc'[u] = "join" => drawn[u] # c
    BY <1>0, <1>4 DEF Joined
  <2>2. b < next_bucket
    BY <1>1 DEF Joining, Drawing
  <2>3. \A u \in Thread : pc'[u] = "join" => drawn[u] # b
    BY <1>1, <1>3 DEF Joining, Drawing
  <2>4. b \in Joined'
    BY <2>1, <2>2, <2>3, <1>5
  <2>5. \A c : c # b => (c \in Joined' <=> c \in Joined)
    BY <2>1, <1>3 DEF Joined
  <2> QED
    BY <2>4, <2>5
<1>14. \A p : p \in PairsOf(Joined)' <=> p \in PairsOf(Joined) \/ p \in PairsOf({b})
  BY <1>0, <1>13, SamePairs DEF PairsOf
<1>15. \A p : ~(p \in PairsOf(Joined) /\ p \in PairsOf({b}))
  BY <1>12 DEF PairsOf
<1>16. /\ \A p : p \in PairsOf({b}) <=> \E n \in 1 .. Len(added) : added[n] = p
       /\ \A m, n \in 1 .. Len(added) : added[m] = added[n] => m = n
  BY <1>6 DEF Lists
<1>17. /\ \A p : p \in PairsOf(Joined) <=> \E u \in Thread : \E k \in Found(u) : ThePair(u, k) = p
       /\ \A u, v \in Thread : \A k \in Found(u), l \in Found(v) :
            ThePair(u, k) = ThePair(v, l) => u = v /\ k = l
  BY DEF Joining, Finding
<1>18. /\ \A u \in Thread : u # t => Found(u)' = Found(u)
       /\ Found(t) = 1 .. len /\ Found(t)' = 1 .. len + Len(added)
  BY <1>6, <1>8 DEF Found, old
<1>19. /\ \A u \in Thread : \A k \in Found(u) : ThePair(u, k)' = ThePair(u, k)
       /\ \A n \in 1 .. Len(added) : ThePair(t, len + n)' = added[n]
  <2>1. \A u \in Thread : u # t => \A k \in Found(u) : ThePair(u, k)' = ThePair(u, k)
    BY <1>6 DEF ThePair
  <2>2. \A k \in Found(t) : ThePair(t, k)' = ThePair(t, k)
    BY <1>6, <1>8, <1>18 DEF ThePair, old
  <2>3. \A n \in 1 .. Len(added) : ThePair(t, len + n)' = added[n]
    BY <1>6, <1>8 DEF ThePair
  <2> QED
    BY <2>1, <2>2, <2>3
<1>20. \A u \in Thread : \A k \in Found(u)' :
         \/ k \in Found(u)
         \/ u = t /\ \E n \in 1 .. Len(added) : k = len + n
  <2> TAKE u \in Thread
  <2> TAKE k \in Found(u)'
  <2>1. CASE u # t
    BY <2>1, <1>18
  <2>2. CASE u = t
    <3>1. k \in 1 .. len + Len(added)
      BY <2>2, <1>18
    <3>2. \/ k \in 1 .. len
          \/ k - len \in 1 .. Len(added) /\ k = len + (k - len)
      BY <3>1, <1>8
    <3> QED
      BY <3>2, <2>2, <1>18
  <2> QED
    BY <2>1, <2>2
<1>21. /\ \A u \in Thread : \A k \in Found(u) : k \in Found(u)'
       /\ \A n \in 1 .. Len(added) : len + n \in Found(t)'
  <2>1. \A k \in 1 .. len : k \in 1 .. len + Len(added)
    BY <1>8
  <2>2. \A n \in 1 .. Len(added) : len + n \in 1 .. len + Len(added)
    BY <1>8
  <2> QED
    BY <2>1, <2>2, <1>18
<1>22. \A u \in Thread : \A k \in Found(u) : ThePair(u, k)' \in PairsOf(Joined)
  BY <1>17, <1>19
<1>23. \A n \in 1 .. Len(added) : ThePair(t, len + n)' \in PairsOf({b})
  BY <1>16, <1>19
<1>24. \A p : p \in PairsOf(Joined)' <=> \E u \in Thread : \E k \in Found(u)' : ThePair(u, k)' = p
  <2> TAKE p
  <2>1. ASSUME p \in PairsOf(Joined) PROVE \E u \in Thread : \E k \in Found(u)' : ThePair(u, k)' = p
    BY <2>1, <1>17, <1>19, <1>21
  <2>2. ASSUME p \in PairsOf({b}) PROVE \E u \in Thread : \E k \in Found(u)' : ThePair(u, k)' = p
    BY <2>2, <1>16, <1>19, <1>21
  <2>3. ASSUME NEW u \in Thread, NEW k \in Found(u)', ThePair(u, k)' = p
        PROVE  p \in PairsOf(Joined) \/ p \in PairsOf({b})
    BY <2>3, <1>20, <1>22, <1>23
  <2> QED
    BY <2>1, <2>2, <2>3, <1>14
<1>25. \A u, v \in Thread : \A k \in Found(u)', l \in Found(v)' :
         ThePair(u, k)' = ThePair(v, l)' => u = v /\ k = l
  <2> SUFFICES ASSUME NEW u \in Thread, NEW v \in Thread, NEW k \in Found(u)', NEW l \in Found(v)',
                      ThePair(u, k)' = ThePair(v, l)'
               PROVE  u = v /\ k = l
    OBVIOUS
  <2>1. CASE k \in Found(u) /\ l \in Found(v)
    BY <2>1, <1>17, <1>19
  <2>2. CASE k \in Found(u) /\ l \notin Found(v)
    BY <2>2, <1>15, <1>20, <1>22, <1>23
  <2>3. CASE k \notin Found(u) /\ l \in Found(v)
    BY <2>3, <1>15, <1>20, <1>22, <1>23
  <2>4. CASE k \notin Found(u) /\ l \notin Found(v)
    <3>1. u = t /\ v = t
      BY <2>4, <1>20
    <3>2. PICK m \in 1 .. Len(added) : k = len + m
      BY <2>4, <1>20
    <3>3. PICK n \in 1 .. Len(added) : l = len + n
      BY <2>4, <1>20
    <3>4. added[m] = added[n]
      BY <3>1, <3>2, <3>3, <1>19
    <3> QED
      BY <3>1, <3>2, <3>3, <3>4, <1>16
  <2> QED
    BY <2>1, <2>2, <2>3, <2>4
<1>26. Finding'
  BY <1>24, <1>25 DEF Finding
<1>27. Copying'
  <2>1. \A u \in Thread : pc[u] \notin {"copy", "done"}
    BY <1>1 DEF Joining, Copying
  <2>2. \A u \in Thread : pc'[u] \notin {"copy", "done"}
    BY <2>1, <1>3
  <2> QED
    BY <2>2 DEF Copying
<1> QED
  BY <1>9, <1>10, <1>11, <1>26, <1>27 DEF Joining

LEMMA JoiningStays == Partitioning /\ Joining /\ [Next]_vars => Joining'
<1> SUFFICES ASSUME Partitioning, Joining, [Next]_vars PROVE Joining'
  OBVIOUS
<1>1. ASSUME NEW rel \in Relation, CopyWhole(rel) \/ PrefixSums(rel) PROVE Joining'
  BY <1>1, JoiningUnchanged DEF CopyWhole, PrefixSums
<1>2. ASSUME NEW rel \in Relation, NEW t \in Thread, Count(rel, t) \/ Scatter(rel, t)
      PROVE  Joining'
  BY <1>2, JoiningUnchanged DEF Count, Scatter
<1>3. ASSUME NEW t \in Thread, Draw(t) \/ JoinBucket(t) \/ CopyResults(t) PROVE Joining'
  BY <1>3, DrawKeeps, JoinBucketKeeps, CopyResultsKeeps
<1>4. CASE Resize
  BY <1>4, ResizeKeeps
<1>5. CASE UNCHANGED vars
  BY <1>5, JoiningUnchanged DEF vars, joining
<1> QED
  BY <1>1, <1>2, <1>3, <1>4, <1>5 DEF Next

(***************************************************************************)
(* For every pair of relations, every number of threads and every hash     *)
(* function, when the threads of join are done the result holds every      *)
(* tuple of S with the first tuple of R that has its key, once, and none   *)
(* of UINT64_MAX: every bucket is drawn by exactly one thread, probing     *)
(* finds the first tuple of a key and nothing else, and no thread          *)
(* overwrites what another one copied.                                     *)
(***************************************************************************)
THEOREM JoinIsExact == Spec => []JoinExact
<1> DEFINE IInv == Partitioning /\ Joining
<1>1. Init => IInv
  BY PartitioningInitially, JoiningInitially
<1>2. IInv /\ [Next]_vars => IInv'
  BY PartitioningStays, JoiningStays
<1>3. IInv => JoinExact
  BY JoinExactWhenDone DEF Partitioning, PartitioningTypes
<1> HIDE DEF IInv
<1> QED
  BY <1>1, <1>2, <1>3, PTL DEF Spec

=============================================================================
