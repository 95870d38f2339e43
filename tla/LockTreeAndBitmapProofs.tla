---------------------- MODULE LockTreeAndBitmapProofs -------------------------
(***************************************************************************)
(* Proofs about two parts of the distributed operators crate that share    *)
(* nothing: the multi-granularity lock tree, for any set of transactions   *)
(* and any tree of nodes, and the bitmap indexes, for every column, range  *)
(* and base.                                                               *)
(***************************************************************************)
EXTENDS MultiGranularityLockTree, BitmapIndexes, FiniteSetTheorems, SequenceTheorems,
        WellFoundedInduction, TLAPS

-----------------------------------------------------------------------------
(* The lock tree *)

\* Whatever a release does, it only takes locks of one transaction away.
LEMMA ReleaseShrinks ==
  ASSUME TypeOK, NEW t \in TID, ReleaseLocks(t)
  PROVE  /\ locks' \in [Node -> SUBSET Lock]
         /\ \A n \in Node : locks'[n] \subseteq locks[n]
BY DEF TypeOK, ReleaseLocks, Without

LEMMA AcquiredType ==
  ASSUME NEW t \in TID, NEW n \in Node, NEW req \in LockRequest
  PROVE  \A m \in Node : Acquired(t, n, req)[m] \subseteq Lock
BY DEF Acquired, Mode, Lock, LockRequest, MGLLock

(***************************************************************************)
(* Every lock in the tree is one a transaction can hold: a refusal, which  *)
(* lock() also writes into its vector, never gets into the tree.           *)
(***************************************************************************)
LEMMA TypeStep == TypeOK /\ [Next]_vars => TypeOK'
<1> SUFFICES ASSUME TypeOK, [Next]_vars PROVE TypeOK'
  OBVIOUS
<1>1. ASSUME NEW t \in TID, NEW n \in Node, NEW req \in LockRequest,
             LockGranted(t, n, req)
      PROVE  TypeOK'
  BY <1>1, AcquiredType DEF LockGranted, TypeOK, Reply
<1>2. ASSUME NEW t \in TID, NEW n \in Node, NEW req \in LockRequest,
             LockDeniedOnPath(t, n, req)
      PROVE  TypeOK'
  BY <1>2, ReleaseShrinks DEF LockDeniedOnPath, TypeOK, Reply
<1>3. ASSUME NEW t \in TID, NEW n \in Node, NEW req \in LockRequest,
             LockDeniedAtNode(t, n, req)
      PROVE  TypeOK'
  BY <1>3, ReleaseShrinks DEF LockDeniedAtNode, TypeOK, Reply
<1>4. ASSUME NEW t \in TID, Release(t)
      PROVE  TypeOK'
  BY <1>4, ReleaseShrinks DEF Release, TypeOK, Reply
<1>5. CASE UNCHANGED vars
  BY <1>5 DEF vars, TypeOK
<1> QED
  BY <1>1, <1>2, <1>3, <1>4, <1>5 DEF Next, LockCall

THEOREM TypeCorrect == Spec => []TypeOK
<1>1. Init => TypeOK
  BY DEF Init, TypeOK, Reply
<1> QED
  BY <1>1, TypeStep, PTL DEF Spec

-----------------------------------------------------------------------------

(***************************************************************************)
(* The modes on a node stay pairwise compatible: what can_grant lets in    *)
(* agrees with every lock that is there.                                   *)
(***************************************************************************)
LEMMA CanGrantCompatible ==
  ASSUME TypeOK, NodeCompatible,
         NEW n \in Node, NEW req \in LockRequest, NEW intention \in BOOLEAN,
         CanGrant(req, locks[n], intention), NEW l \in locks[n]
  PROVE  /\ <<l.mode, Mode(req, intention)>> \in Compatible
         /\ <<Mode(req, intention), l.mode>> \in Compatible
<1>1. l \in Lock /\ l.mode \in MGLLock
  BY DEF TypeOK, Lock
<1>2. l.mode # "Write"
  <2> SUFFICES ASSUME l.mode = "Write" PROVE FALSE
    OBVIOUS
  <2>1. l = [tid |-> l.tid, mode |-> "Write"] /\ l.tid \in TID
    BY <1>1 DEF Lock
  <2>2. ASSUME NEW k \in locks[n], k # l PROVE FALSE
    BY <2>2 DEF NodeCompatible, Compatible
  <2>3. locks[n] = {l}
    BY <2>2
  <2> QED
    BY <2>1, <2>3 DEF CanGrant
<1> QED
  BY <1>1, <1>2 DEF CanGrant, Mode, Compatible, LockRequest, MGLLock

LEMMA NodeCompatibleStep == TypeOK /\ NodeCompatible /\ [Next]_vars => NodeCompatible'
<1> SUFFICES ASSUME TypeOK, NodeCompatible, [Next]_vars PROVE NodeCompatible'
  OBVIOUS
<1>1. ASSUME NEW t \in TID, NEW n \in Node, NEW req \in LockRequest,
             LockGranted(t, n, req)
      PROVE  NodeCompatible'
  <2> SUFFICES ASSUME NEW m \in Node, NEW l1 \in locks'[m], NEW l2 \in locks'[m], l1 # l2
               PROVE  <<l1.mode, l2.mode>> \in Compatible
    BY DEF NodeCompatible
  <2> DEFINE new == [tid |-> t, mode |-> Mode(req, m # n)]
  <2>1. locks'[m] = IF m \in Path(n) THEN locks[m] \cup {new} ELSE locks[m]
    BY <1>1 DEF LockGranted, Acquired, TypeOK
  <2>2. CASE m \in Path(n)
    <3>1. CanGrant(req, locks[m], m # n)
      BY <1>1, <2>2, AboveAssumption DEF LockGranted, Path
    <3>2. \A l \in locks[m] : /\ <<l.mode, new.mode>> \in Compatible
                              /\ <<new.mode, l.mode>> \in Compatible
      BY <3>1, CanGrantCompatible
    <3>3. CASE l1 \in locks[m] /\ l2 \in locks[m]
      BY <3>3 DEF NodeCompatible
    <3>4. CASE l1 = new \/ l2 = new
      BY <2>1, <2>2, <3>2, <3>4
    <3> QED
      BY <2>1, <2>2, <3>3, <3>4
  <2>3. CASE m \notin Path(n)
    BY <2>1, <2>3 DEF NodeCompatible
  <2> QED
    BY <2>2, <2>3
<1>2. ASSUME NEW t \in TID, ReleaseLocks(t) PROVE NodeCompatible'
  BY <1>2, ReleaseShrinks DEF NodeCompatible
<1>3. CASE UNCHANGED vars
  BY <1>3 DEF vars, NodeCompatible
<1> QED
  BY <1>1, <1>2, <1>3
  DEF Next, LockCall, LockDeniedOnPath, LockDeniedAtNode, Release

THEOREM LocksOnANodeCompatible == Spec => []NodeCompatible
<1>1. Init => NodeCompatible
  BY DEF Init, NodeCompatible
<1> QED
  BY <1>1, TypeCorrect, NodeCompatibleStep, PTL DEF Spec

(***************************************************************************)
(* Looking for an exclusive lock only on nodes with a single lock loses    *)
(* nothing: can_grant answers as the compatibility matrix does.            *)
(***************************************************************************)
THEOREM CanGrantIsTheMatrix == Spec => []GrantsByMatrix
<1>1. TypeOK /\ NodeCompatible => GrantsByMatrix
  <2> SUFFICES ASSUME TypeOK, NodeCompatible,
                      NEW n \in Node, NEW req \in LockRequest, NEW intention \in BOOLEAN
               PROVE  CanGrant(req, locks[n], intention) <=>
                        \A l \in locks[n] : <<l.mode, Mode(req, intention)>> \in Compatible
    BY DEF GrantsByMatrix
  <2>1. ASSUME CanGrant(req, locks[n], intention), NEW l \in locks[n]
        PROVE  <<l.mode, Mode(req, intention)>> \in Compatible
    BY <2>1, CanGrantCompatible
  <2>2. ASSUME \A l \in locks[n] : <<l.mode, Mode(req, intention)>> \in Compatible,
               ~CanGrant(req, locks[n], intention)
        PROVE  FALSE
    <3>1. PICK l \in locks[n] : TRUE
      BY <2>2 DEF CanGrant
    <3>2. \A k \in locks[n] : k.mode \in MGLLock /\ k.mode # "Write"
      BY <2>2 DEF TypeOK, Lock, Compatible
    <3>3. \A t \in TID : locks[n] # {[tid |-> t, mode |-> "Write"]}
      BY <3>1, <3>2
    <3> QED
      BY <2>2, <3>1, <3>3 DEF CanGrant, Mode, Compatible, LockRequest
  <2> QED
    BY <2>1, <2>2
<1> QED
  BY <1>1, TypeCorrect, LocksOnANodeCompatible, PTL

-----------------------------------------------------------------------------

(***************************************************************************)
(* Releasing a transaction's locks below one child of the root leaves no   *)
(* lock without its intentions: were a node above a lock cleared, the walk *)
(* would have come through it and cleared the lock too.                    *)
(***************************************************************************)
LEMMA ReleaseKeepsIntentions ==
  ASSUME TypeOK, IntentionsHeld, NEW t \in TID, ReleaseLocks(t)
  PROVE  IntentionsHeld'
<1>1. CASE UNCHANGED locks
  BY <1>1 DEF IntentionsHeld
<1>2. ASSUME NEW c \in TopLevel \cap LockedBy(t), locks' = Without(t, Reached(t, c))
      PROVE  IntentionsHeld'
  <2> SUFFICES ASSUME NEW n \in Node, NEW l \in locks'[n], NEW a \in Above[n]
               PROVE  Intention(l) \in locks'[a]
    BY DEF IntentionsHeld
  <2>1. a \in Node /\ l \in locks[n] /\ Intention(l) \in locks[a]
    BY <1>2, ReleaseShrinks, AboveAssumption DEF IntentionsHeld
  <2>2. CASE l.tid # t
    BY <1>2, <2>1, <2>2 DEF Without, Intention
  <2>3. CASE l.tid = t
    <3>1. n \notin Reached(t, c)
      BY <1>2, <2>1, <2>3 DEF Without
    <3>2. a \notin Reached(t, c)
      <4> SUFFICES ASSUME a \in Reached(t, c) PROVE FALSE
        OBVIOUS
      <4>1. c \in Path(n)
        BY AboveAssumption DEF Reached, Path
      <4>2. Path(n) \subseteq LockedBy(t)
        <5>1. n \in LockedBy(t)
          BY <2>1, <2>3 DEF LockedBy
        <5>2. ASSUME NEW b \in Above[n] PROVE b \in LockedBy(t)
          <6>1. b \in Node /\ Intention(l) \in locks[b]
            BY <2>1, AboveAssumption DEF IntentionsHeld
          <6> QED
            BY <2>3, <6>1 DEF LockedBy, Intention
        <5> QED
          BY <5>1, <5>2 DEF Path
      <4> QED
        BY <3>1, <4>1, <4>2 DEF Reached, Path
    <3> QED
      BY <1>2, <2>1, <3>2 DEF Without
  <2> QED
    BY <2>2, <2>3
<1> QED
  BY <1>1, <1>2 DEF ReleaseLocks

LEMMA IntentionsStep == TypeOK /\ IntentionsHeld /\ [Next]_vars => IntentionsHeld'
<1> SUFFICES ASSUME TypeOK, IntentionsHeld, [Next]_vars PROVE IntentionsHeld'
  OBVIOUS
<1>1. ASSUME NEW t \in TID, NEW n \in Node, NEW req \in LockRequest,
             LockGranted(t, n, req)
      PROVE  IntentionsHeld'
  <2> SUFFICES ASSUME NEW m \in Node, NEW l \in locks'[m], NEW a \in Above[m]
               PROVE  Intention(l) \in locks'[a]
    BY DEF IntentionsHeld
  <2>1. \A k \in Node : locks'[k] = locks[k] \cup Acquired(t, n, req)[k]
    BY <1>1 DEF LockGranted
  <2>2. a \in Node
    BY AboveAssumption
  <2>3. CASE l \in locks[m]
    BY <2>1, <2>2, <2>3 DEF IntentionsHeld
  <2>4. CASE l \in Acquired(t, n, req)[m]
    <3>1. m \in Path(n) /\ l = [tid |-> t, mode |-> Mode(req, m # n)]
      BY <2>4 DEF Acquired
    <3>2. a \in Path(n) /\ a # n
      BY <3>1, AboveAssumption DEF Path
    <3>3. [tid |-> t, mode |-> Mode(req, TRUE)] \in locks'[a]
      BY <2>1, <2>2, <3>2 DEF Acquired
    <3>4. Intention(l) = [tid |-> t, mode |-> Mode(req, TRUE)]
      BY <3>1 DEF Intention, Mode, LockRequest
    <3> QED
      BY <3>3, <3>4
  <2> QED
    BY <2>1, <2>3, <2>4
<1>2. ASSUME NEW t \in TID, ReleaseLocks(t) PROVE IntentionsHeld'
  BY <1>2, ReleaseKeepsIntentions
<1>3. CASE UNCHANGED vars
  BY <1>3 DEF vars, IntentionsHeld
<1> QED
  BY <1>1, <1>2, <1>3
  DEF Next, LockCall, LockDeniedOnPath, LockDeniedAtNode, Release

THEOREM IntentionsAlwaysHeld == Spec => []IntentionsHeld
<1>1. Init => IntentionsHeld
  BY AboveAssumption DEF Init, IntentionsHeld
<1> QED
  BY <1>1, TypeCorrect, IntentionsStep, PTL DEF Spec

-----------------------------------------------------------------------------

(***************************************************************************)
(* Nobody else reads or writes inside a subtree that is being written,     *)
(* for every tree: the writer's or the other transaction's intention       *)
(* stands on the node on which the two meet.                               *)
(***************************************************************************)
LEMMA IntentionsExclude ==
  TypeOK /\ NodeCompatible /\ IntentionsHeld => SubtreeExclusion
<1> SUFFICES ASSUME TypeOK, NodeCompatible, IntentionsHeld,
                    NEW n \in Node, NEW m \in Node,
                    NEW w \in locks[n], NEW l \in locks[m],
                    w.mode = "Write", l.mode \in {"Read", "Write"},
                    n \in Path(m) \/ m \in Path(n),
                    w.tid # l.tid
             PROVE  FALSE
  BY DEF SubtreeExclusion
<1>1. CASE n = m
  BY <1>1 DEF NodeCompatible, Compatible
<1>2. CASE n \in Above[m]
  <2>1. Intention(l) \in locks[n]
    BY <1>2 DEF IntentionsHeld
  <2>2. Intention(l).tid # w.tid
    BY DEF Intention
  <2> QED
    BY <2>1, <2>2 DEF NodeCompatible, Compatible
<1>3. CASE m \in Above[n]
  <2>1. Intention(w) \in locks[m]
    BY <1>3 DEF IntentionsHeld
  <2>2. Intention(w).tid # l.tid /\ Intention(w).mode = "IntentionWrite"
    BY DEF Intention, Mode
  <2> QED
    BY <2>1, <2>2 DEF NodeCompatible, Compatible
<1> QED
  BY <1>1, <1>2, <1>3 DEF Path

THEOREM SubtreesExclusive == Spec => []SubtreeExclusion
BY TypeCorrect, LocksOnANodeCompatible, IntentionsAlwaysHeld, IntentionsExclude, PTL

-----------------------------------------------------------------------------
(***************************************************************************)
(* What the three indexes find, for every column, every two bounds and     *)
(* every base: the naive one the rows whose key is in the range, the       *)
(* range-encoded one the same or it panics, the decomposed one the rows    *)
(* between the bounds cut to the digits of its largest key; and the        *)
(* iterator over it, proved to return those rows, each once and in order.  *)
(***************************************************************************)
(* The decomposed index compares numbers digit by digit.  What makes that  *)
(* right: numbers of D digits differ first at one digit, seen from above,  *)
(* and the one whose digit is less there is the lesser number.             *)
(***************************************************************************)

BitmapSpec == BitmapInit /\ [][BitmapNext]_bitmaps

\* No call changes the column or an index.
Built ==
  /\ column \in Seq(0 .. MaxKey) \ {<<>>}
  /\ index.naive = NewNaive
  /\ index.ranges = NewRangeEncoded
  /\ index.digits = NewDecomposed

(***************************************************************************)
(* What each lookup finds, and when the range-encoded one panics.          *)
(***************************************************************************)
RangeEncodedExact(start, end) ==
  IF RangeEncodedAnswers(index.ranges, start, end)
  THEN RangeEncodedLookup(index.ranges, start, end) = RowsBetween(start, end)
  ELSE RowsBetween(start, end) = {} \/ \A r \in Rows : KeyOf(r) <= end

IndexesExact ==
  \A start, end \in 0 .. MaxKey :
    /\ NaiveLookup(index.naive, start, end) = RowsBetween(start, end)
    /\ RangeEncodedExact(start, end)
    /\ DecomposedLookup(index.digits, start, end) = RowsBetween(Cut(start), Cut(end))

-----------------------------------------------------------------------------

\* A set of numbers has a least one.
LEMMA LeastNumber ==
  ASSUME NEW S \in SUBSET Nat, S # {}
  PROVE  \E x \in S : \A y \in S : x <= y
<1>1. PICK x \in S : \A y \in S : ~(<<y, x>> \in OpToRel(<, Nat))
  BY WFMin, NatLessThanWellFounded
<1>2. \A y \in S : ~(y < x)
  BY <1>1, Zenon DEF OpToRel
<1> QED
  BY <1>2

\* A set of keys has a least one, and Min is it.
LEMMA LeastKey ==
  ASSUME NEW S, S \subseteq Nat, S # {}
  PROVE  Min(S) \in S /\ \A k \in S : Min(S) <= k
BY LeastNumber DEF Min

\* The keys of the rows are numbers, and every key belongs to a row.
LEMMA KeysAreNumbers ==
  ASSUME Built
  PROVE  /\ Rows \subseteq Nat
         /\ \A r \in Rows : KeyOf(r) \in Nat /\ KeyOf(r) \in Keys
         /\ Keys \subseteq Nat
<1>1. \A r \in Rows : r \in Nat /\ r + 1 \in 1 .. Len(column)
  BY DEF Rows, Built
<1>2. column \in Seq(0 .. MaxKey)
  BY DEF Built
<1>3. \A r \in Rows : KeyOf(r) \in 0 .. MaxKey
  BY <1>1, <1>2, ElementOfSeq DEF KeyOf
<1> QED
  BY <1>1, <1>3, KeyBoundAssumption DEF Keys

\* The bytes of a bitmap have room for all rows.
LEMMA RowsHaveBits ==
  ASSUME Built
  PROVE  Rows \subseteq Bits
<1>1. Len(column) \in Nat
  BY DEF Built
<1>2. ASSUME NEW n \in Nat PROVE n <= 8 * ((n + 7) \div 8) /\ 8 * ((n + 7) \div 8) \in Nat
  OBVIOUS
<1> QED
  BY <1>1, <1>2 DEF Rows, Bits

LEMMA NaiveExact ==
  ASSUME Built, NEW start \in 0 .. MaxKey, NEW end \in 0 .. MaxKey
  PROVE  NaiveLookup(index.naive, start, end) = RowsBetween(start, end)
<1>1. NewNaive = [k \in Keys |-> {r \in Rows : KeyOf(r) = k}]
  BY DEF NewNaive
<1>2. InRange(NewNaive, start, end) = {k \in Keys : start <= k /\ k <= end}
  BY <1>1 DEF InRange
<1>3. \A r \in Rows : KeyOf(r) \in Keys
  BY KeysAreNumbers
<1>4. ASSUME NEW r
      PROVE  r \in NaiveLookup(NewNaive, start, end) <=> r \in RowsBetween(start, end)
  <2>1. r \in NaiveLookup(NewNaive, start, end) <=>
          \E k \in InRange(NewNaive, start, end) : r \in NewNaive[k]
    BY DEF NaiveLookup
  <2>2. \A k \in Keys : r \in NewNaive[k] <=> r \in Rows /\ KeyOf(r) = k
    BY <1>1
  <2> QED
    BY <1>2, <1>3, <2>1, <2>2 DEF RowsBetween
<1> QED
  BY <1>4 DEF Built

LEMMA RangeEncodedFinds ==
  ASSUME Built, NEW start \in 0 .. MaxKey, NEW end \in 0 .. MaxKey,
         RangeEncodedAnswers(index.ranges, start, end)
  PROVE  RangeEncodedLookup(index.ranges, start, end) = RowsBetween(start, end)
<1> DEFINE inside == InRange(NewRangeEncoded, start, end)
           above  == Behind(NewRangeEncoded, end)
           lo     == Min(inside)
           hi     == Min(above)
<1>1. NewRangeEncoded = [k \in Keys |-> {r \in Rows : k <= KeyOf(r)}]
  BY DEF NewRangeEncoded
<1>2. /\ inside = {k \in Keys : start <= k /\ k <= end}
      /\ above = {k \in Keys : k > end}
  BY <1>1 DEF InRange, Behind
<1>3. inside # {} /\ above # {}
  BY DEF RangeEncodedAnswers, Built
<1>4. start \in Nat /\ end \in Nat
  BY KeyBoundAssumption
<1>5. /\ Keys \subseteq Nat
      /\ \A r \in Rows : KeyOf(r) \in Nat /\ KeyOf(r) \in Keys
  BY KeysAreNumbers
<1>6. lo \in inside /\ \A k \in inside : lo <= k
  <2>1. inside \subseteq Nat
    BY <1>2, <1>5
  <2> QED
    BY <1>3, <2>1, LeastKey
<1>7. hi \in above /\ \A k \in above : hi <= k
  <2>1. above \subseteq Nat
    BY <1>2, <1>5
  <2> QED
    BY <1>3, <2>1, LeastKey
<1>8. RangeEncodedLookup(NewRangeEncoded, start, end) =
        NewRangeEncoded[lo] \cap (Bits \ NewRangeEncoded[hi])
  BY DEF RangeEncodedLookup
<1> HIDE DEF inside, above, lo, hi
<1>9. ASSUME NEW r \in Rows
      PROVE  (lo <= KeyOf(r) /\ ~(hi <= KeyOf(r))) <=> (start <= KeyOf(r) /\ KeyOf(r) <= end)
  BY <1>2, <1>4, <1>5, <1>6, <1>7
<1>10. /\ NewRangeEncoded[lo] = {r \in Rows : lo <= KeyOf(r)}
       /\ NewRangeEncoded[hi] = {r \in Rows : hi <= KeyOf(r)}
  BY <1>1, <1>2, <1>6, <1>7
<1>11. NewRangeEncoded[lo] \cap (Bits \ NewRangeEncoded[hi]) = RowsBetween(start, end)
  BY <1>9, <1>10, RowsHaveBits DEF RowsBetween
<1> QED
  BY <1>8, <1>11 DEF Built

-----------------------------------------------------------------------------
(***************************************************************************)
(* What repeated division leaves, and the digits it takes off.             *)
(***************************************************************************)

\* The first steps of the divisions.
IsRest(f, k) ==
  \A i \in 0 .. k : f[i] = [n \in 0 .. MaxKey |-> IF i = 0 THEN n ELSE f[i - 1][n] \div Base]

\* The recursive definition has a solution, built step by step.
LEMMA RestIsDefined ==
  \A i \in 0 .. MaxKey + 1 :
    Rest[i] = [n \in 0 .. MaxKey |-> IF i = 0 THEN n ELSE Rest[i - 1][n] \div Base]
<1> DEFINE Steps == 0 .. MaxKey + 1
           Divide(f) == [i \in Steps |->
             [n \in 0 .. MaxKey |-> IF i = 0 THEN n ELSE f[i - 1][n] \div Base]]
           Stuck == {k \in Steps : ~ \E f : IsRest(f, k)}
<1>m. MaxKey \in Nat /\ Steps \subseteq Nat
  BY KeyBoundAssumption
<1>1. Stuck = {}
  <2> SUFFICES ASSUME Stuck # {} PROVE FALSE
    OBVIOUS
  <2>1. Stuck \in SUBSET Nat
    BY <1>m
  <2>2. PICK k \in Stuck : \A j \in Stuck : k <= j
    BY <2>1, LeastNumber
  <2>3. k # 0
    <3> DEFINE first == [i \in 0 .. 0 |-> [n \in 0 .. MaxKey |-> n]]
    <3>1. IsRest(first, 0)
      BY DEF IsRest
    <3> QED
      BY <3>1, <2>2
  <2>4. k \in Nat /\ k \in Steps /\ k - 1 \in Steps /\ k - 1 \notin Stuck
    BY <1>m, <2>1, <2>2, <2>3
  <2>5. PICK f : IsRest(f, k - 1)
    BY <2>4
  <2> DEFINE g == [i \in 0 .. k |-> IF i < k THEN f[i]
                                    ELSE [n \in 0 .. MaxKey |-> f[k - 1][n] \div Base]]
  <2>6. IsRest(g, k)
    <3> SUFFICES ASSUME NEW i \in 0 .. k
                 PROVE  g[i] = [n \in 0 .. MaxKey |-> IF i = 0 THEN n ELSE g[i - 1][n] \div Base]
      BY DEF IsRest
    <3>1. CASE i < k
      <4>1. i \in 0 .. k - 1 /\ g[i] = f[i] /\ (i # 0 => g[i - 1] = f[i - 1])
        BY <2>4, <3>1
      <4>2. f[i] = [n \in 0 .. MaxKey |-> IF i = 0 THEN n ELSE f[i - 1][n] \div Base]
        BY <2>5, <4>1 DEF IsRest
      <4>3. CASE i = 0
        BY <4>1, <4>2, <4>3
      <4>4. CASE i # 0
        BY <4>1, <4>2, <4>4
      <4> QED
        BY <4>3, <4>4
    <3>2. CASE i = k
      <4>1. g[k] = [n \in 0 .. MaxKey |-> f[k - 1][n] \div Base] /\ g[k - 1] = f[k - 1] /\ k # 0
        BY <2>3, <2>4
      <4> QED
        BY <3>2, <4>1
    <3> QED
      BY <2>4, <3>1, <3>2
  <2> QED
    BY <2>2, <2>6
<1>2. \E f : f = Divide(f)
  <2>1. MaxKey + 1 \in Steps
    BY <1>m
  <2>2. PICK f : IsRest(f, MaxKey + 1)
    BY <1>1, <2>1
  <2> DEFINE g == [i \in Steps |-> f[i]]
  <2>3. \A i \in Steps : g[i] = Divide(g)[i]
    <3> TAKE i \in Steps
    <3>1. f[i] = [n \in 0 .. MaxKey |-> IF i = 0 THEN n ELSE f[i - 1][n] \div Base]
      BY <2>2 DEF IsRest
    <3>2. CASE i = 0
      BY <3>1, <3>2
    <3>3. CASE i # 0
      <4>1. i - 1 \in Steps
        BY <1>m, <3>3
      <4>2. g[i - 1] = f[i - 1]
        BY <4>1
      <4> QED
        BY <3>1, <3>3, <4>2
    <3> QED
      BY <3>2, <3>3
  <2>4. g = Divide(g)
    BY <2>3
  <2> QED
    BY <2>4
<1>3. Rest = CHOOSE f : f = Divide(f)
  BY DEF Rest
<1>4. Rest = Divide(Rest)
  <2> HIDE DEF Divide
  <2> QED
    BY <1>2, <1>3
<1> QED
  BY <1>4

LEMMA RestStep ==
  /\ \A n \in 0 .. MaxKey : Rest[0][n] = n
  /\ \A i \in 0 .. MaxKey, n \in 0 .. MaxKey : Rest[i + 1][n] = Rest[i][n] \div Base
<1>1. \A n \in 0 .. MaxKey : Rest[0][n] = n
  <2>1. 0 \in 0 .. MaxKey + 1
    BY KeyBoundAssumption
  <2>2. Rest[0] = [n \in 0 .. MaxKey |-> IF 0 = 0 THEN n ELSE Rest[0 - 1][n] \div Base]
    BY <2>1, RestIsDefined
  <2> QED
    BY <2>2
<1>2. \A i \in 0 .. MaxKey, n \in 0 .. MaxKey : Rest[i + 1][n] = Rest[i][n] \div Base
  <2> TAKE i \in 0 .. MaxKey, n \in 0 .. MaxKey
  <2>1. i + 1 \in 0 .. MaxKey + 1 /\ i + 1 # 0 /\ i + 1 - 1 = i
    BY KeyBoundAssumption
  <2>2. Rest[i + 1] = [m \in 0 .. MaxKey |-> IF i + 1 = 0 THEN m ELSE Rest[i + 1 - 1][m] \div Base]
    BY <2>1, RestIsDefined
  <2> QED
    BY <2>1, <2>2
<1> QED
  BY <1>1, <1>2

\* Division by the base.
LEMMA Division ==
  ASSUME NEW x \in Nat
  PROVE  /\ x \div Base \in Nat /\ x % Base \in 0 .. Base - 1
         /\ x = Base * (x \div Base) + (x % Base)
         /\ x # 0 => x \div Base < x
<1> DEFINE q == x \div Base
           d == x % Base
<1>1. q \in Int /\ d \in 0 .. Base - 1 /\ x = Base * q + d
  BY BaseAssumption
<1>2. q \in Nat /\ (x # 0 => q < x)
  <2> HIDE DEF q, d
  <2>1. q >= 0
    <3> SUFFICES ASSUME q + 1 <= 0 PROVE FALSE
      BY <1>1
    <3>1. Base * (q + 1) = Base * q + Base /\ Base * (q + 1) <= 0
      BY <1>1, BaseAssumption
    <3> QED
      BY <3>1, <1>1, BaseAssumption
  <2>2. x # 0 => q < x
    <3>1. CASE q = 0
      BY <1>1, <3>1
    <3>2. CASE q # 0
      <4>1. Base * q >= 2 * q
        BY <1>1, <2>1, <3>2, BaseAssumption
      <4> QED
        BY <4>1, <1>1, <2>1, <3>2, BaseAssumption
    <3> QED
      BY <3>1, <3>2
  <2> QED
    BY <1>1, <2>1, <2>2
<1> HIDE DEF q, d
<1>3. q \in Nat /\ d \in 0 .. Base - 1 /\ x = Base * q + d /\ (x # 0 => q < x)
  BY <1>1, <1>2
<1> QED
  BY <1>3 DEF q, d

LEMMA DivisionGrows ==
  ASSUME NEW x \in Nat, NEW y \in Nat, x <= y
  PROVE  x \div Base <= y \div Base
<1> DEFINE p == x \div Base
           q == y \div Base
<1>1. /\ p \in Nat /\ q \in Nat /\ x % Base \in 0 .. Base - 1 /\ y % Base \in 0 .. Base - 1
      /\ x = Base * p + (x % Base) /\ y = Base * q + (y % Base)
  BY Division
<1> HIDE DEF p, q
<1>2. ASSUME q < p PROVE FALSE
  <2>1. Base * q + Base <= Base * p
    <3>1. PICK c \in Nat : p = q + 1 + c
      <4>1. p - (q + 1) \in Nat /\ p = q + 1 + (p - (q + 1))
        BY <1>1, <1>2
      <4> QED
        BY <4>1
    <3>2. Base * p = Base * q + Base + Base * c /\ Base * c \in Nat
      BY <1>1, <3>1, BaseAssumption
    <3>3. Base * q \in Nat /\ Base \in Nat
      BY <1>1, BaseAssumption
    <3> QED
      BY <3>2, <3>3
  <2> DEFINE P == Base * p
             Q == Base * q
             c == x % Base
             d == y % Base
  <2>2. Q \in Nat /\ P \in Nat /\ Base \in Nat /\ c \in Nat /\ d \in 0 .. Base - 1
    BY <1>1, BaseAssumption
  <2>3. x = P + c /\ y = Q + d /\ Q + Base <= P
    BY <1>1, <2>1
  <2> HIDE DEF P, Q, c, d
  <2>4. y < Q + Base
    BY <2>2, <2>3
  <2>5. P <= x
    BY <2>2, <2>3
  <2> QED
    BY <2>2, <2>3, <2>4, <2>5
<1>3. p <= q
  BY <1>1, <1>2
<1> QED
  BY <1>3 DEF p, q

\* What is left is a number, smaller with every division until nothing is left.
LEMMA RestShrinks ==
  \A i \in 0 .. MaxKey + 1, n \in 0 .. MaxKey :
    Rest[i][n] \in Nat /\ Rest[i][n] <= n /\ (Rest[i][n] = 0 \/ Rest[i][n] + i <= n)
<1> DEFINE Shrinks(i, n) ==
      Rest[i][n] \in Nat /\ Rest[i][n] <= n /\ (Rest[i][n] = 0 \/ Rest[i][n] + i <= n)
<1> SUFFICES ASSUME NEW n \in 0 .. MaxKey PROVE \A i \in 0 .. MaxKey + 1 : Shrinks(i, n)
  OBVIOUS
<1> DEFINE Wrong == {i \in 0 .. MaxKey + 1 : ~Shrinks(i, n)}
<1> SUFFICES ASSUME Wrong # {} PROVE FALSE
  OBVIOUS
<1>0. MaxKey \in Nat /\ n \in Nat
  BY KeyBoundAssumption
<1>1. Wrong \in SUBSET Nat
  BY <1>0
<1>2. PICK k \in Wrong : \A j \in Wrong : k <= j
  BY <1>1, LeastNumber
<1>3. k # 0
  <2>1. Rest[0][n] = n
    BY RestStep
  <2> QED
    BY <1>0, <1>2, <2>1
<1>4. k \in Nat /\ k - 1 \in 0 .. MaxKey /\ Shrinks(k - 1, n)
  BY <1>0, <1>1, <1>2, <1>3
<1>5. Rest[k][n] = Rest[k - 1][n] \div Base
  <2>1. Rest[(k - 1) + 1][n] = Rest[k - 1][n] \div Base
    BY <1>4, RestStep
  <2>2. (k - 1) + 1 = k
    BY <1>4
  <2> QED
    BY <2>1, <2>2
<1> DEFINE x == Rest[k - 1][n]
           y == Rest[k][n]
<1>6. x \in Nat /\ x <= n /\ (x = 0 \/ x + (k - 1) <= n)
  BY <1>4
<1>7. y \in Nat /\ (x # 0 => y < x) /\ (x = 0 => y = 0)
  <2>1. y = x \div Base
    BY <1>5
  <2> HIDE DEF x, y
  <2>2. /\ x \div Base \in Nat /\ x % Base \in 0 .. Base - 1
        /\ x = Base * (x \div Base) + (x % Base)
        /\ x # 0 => x \div Base < x
    BY <1>6, Division
  <2>3. x = 0 => x \div Base = 0
    BY BaseAssumption
  <2> QED
    BY <2>1, <2>2, <2>3
<1>8. Shrinks(k, n)
  <2>1. y \in Nat /\ y <= n /\ (y = 0 \/ y + k <= n)
    <3> HIDE DEF x, y
    <3> QED
      BY <1>0, <1>4, <1>6, <1>7
  <2> QED
    BY <2>1
<1> QED
  BY <1>2, <1>8

\* The larger number leaves more.
LEMMA RestGrows ==
  ASSUME NEW a \in 0 .. MaxKey, NEW b \in 0 .. MaxKey, a <= b
  PROVE  \A i \in 0 .. MaxKey + 1 : Rest[i][a] <= Rest[i][b]
<1> DEFINE Wrong == {i \in 0 .. MaxKey + 1 : ~(Rest[i][a] <= Rest[i][b])}
<1> SUFFICES ASSUME Wrong # {} PROVE FALSE
  OBVIOUS
<1>0. MaxKey \in Nat
  BY KeyBoundAssumption
<1>1. Wrong \in SUBSET Nat
  BY <1>0
<1>2. PICK k \in Wrong : \A j \in Wrong : k <= j
  BY <1>1, LeastNumber
<1>3. k # 0
  <2>1. Rest[0][a] = a /\ Rest[0][b] = b
    BY RestStep
  <2> QED
    BY <1>2, <2>1
<1>4. k \in Nat /\ k - 1 \in 0 .. MaxKey /\ k - 1 \in 0 .. MaxKey + 1 /\ k - 1 \notin Wrong
  BY <1>0, <1>1, <1>2, <1>3
<1>5. Rest[k - 1][a] <= Rest[k - 1][b] /\ Rest[k - 1][a] \in Nat /\ Rest[k - 1][b] \in Nat
  BY <1>4, RestShrinks
<1>6. Rest[k][a] = Rest[k - 1][a] \div Base /\ Rest[k][b] = Rest[k - 1][b] \div Base
  <2>1. (k - 1) + 1 = k
    BY <1>4
  <2> QED
    BY <1>4, <2>1, RestStep
<1>7. Rest[k][a] <= Rest[k][b]
  BY <1>5, <1>6, DivisionGrows
<1> QED
  BY <1>2, <1>7

LEMMA DigitOfRest ==
  ASSUME NEW i \in 0 .. MaxKey, NEW n \in 0 .. MaxKey
  PROVE  /\ Rest[i][n] \in Nat /\ Rest[i + 1][n] \in Nat
         /\ Digit(n, i) \in 0 .. Base - 1
         /\ Rest[i][n] = Base * Rest[i + 1][n] + Digit(n, i)
<1>1. i \in 0 .. MaxKey + 1
  BY KeyBoundAssumption
<1>2. Rest[i][n] \in Nat
  BY <1>1, RestShrinks
<1>3. Rest[i + 1][n] = Rest[i][n] \div Base
  BY RestStep
<1> QED
  BY <1>2, <1>3, Division DEF Digit

\* Numbers that leave the same after a division agree before it when their digits do.
LEMMA DigitDecides ==
  ASSUME NEW i \in 0 .. MaxKey, NEW a \in 0 .. MaxKey, NEW b \in 0 .. MaxKey,
         Rest[i + 1][a] = Rest[i + 1][b]
  PROVE  /\ Rest[i][a] = Rest[i][b] <=> Digit(a, i) = Digit(b, i)
         /\ Rest[i][a] < Rest[i][b] <=> Digit(a, i) < Digit(b, i)
<1> DEFINE p == Base * Rest[i + 1][a]
<1>1. /\ Rest[i][a] = p + Digit(a, i) /\ Rest[i][b] = p + Digit(b, i)
      /\ Digit(a, i) \in Nat /\ Digit(b, i) \in Nat
  BY DigitOfRest, BaseAssumption
<1>2. p \in Nat
  BY DigitOfRest, BaseAssumption
<1> HIDE DEF p
<1> QED
  BY <1>1, <1>2

-----------------------------------------------------------------------------
(***************************************************************************)
(* Digits compare as numbers do, from the most significant one down, when  *)
(* D digits are enough for both numbers.                                   *)
(***************************************************************************)

Fits(D, n) == D \in 1 .. MaxKey + 1 /\ n \in 0 .. MaxKey /\ Rest[D][n] = 0

SameDigits(D, a, b, i) == \A j \in 0 .. D - 1 : j >= i => Digit(a, j) = Digit(b, j)

LEMMA SameDigitsSameRest ==
  ASSUME NEW D, NEW a, NEW b, Fits(D, a), Fits(D, b), NEW i \in 0 .. D
  PROVE  SameDigits(D, a, b, i) <=> Rest[i][a] = Rest[i][b]
<1>0. /\ D \in Nat /\ D # 0 /\ MaxKey \in Nat /\ D <= MaxKey + 1
      /\ a \in 0 .. MaxKey /\ b \in 0 .. MaxKey
      /\ Rest[D][a] = Rest[D][b]
  BY KeyBoundAssumption DEF Fits
<1>1. ASSUME SameDigits(D, a, b, i), Rest[i][a] # Rest[i][b] PROVE FALSE
  <2> DEFINE Wrong == {k \in 0 .. D : D - k >= i /\ Rest[D - k][a] # Rest[D - k][b]}
  <2>1. Wrong \in SUBSET Nat
    BY <1>0
  <2>2. D - i \in Wrong
    <3>1. D - i \in 0 .. D /\ D - (D - i) = i
      BY <1>0
    <3> QED
      BY <1>1, <3>1
  <2>3. PICK k \in Wrong : \A j \in Wrong : k <= j
    BY <2>1, <2>2, LeastNumber
  <2>4. k # 0
    BY <1>0, <2>3
  <2>5. k \in Nat /\ k - 1 \in 0 .. D /\ k - 1 \notin Wrong
    BY <1>0, <2>1, <2>3, <2>4
  <2> DEFINE m == D - k
  <2>6. m \in 0 .. D - 1 /\ m >= i /\ m \in 0 .. MaxKey /\ D - (k - 1) = m + 1
    BY <1>0, <2>3, <2>4, <2>5
  <2>7. Rest[m][a] # Rest[m][b]
    BY <2>3
  <2>8. Rest[D - (k - 1)][a] = Rest[D - (k - 1)][b]
    BY <2>5, <2>6, <1>0
  <2> HIDE DEF m
  <2>9. Rest[m + 1][a] = Rest[m + 1][b]
    BY <2>6, <2>8
  <2>10. Digit(a, m) = Digit(b, m)
    BY <1>1, <2>6 DEF SameDigits
  <2> QED
    BY <1>0, <2>6, <2>7, <2>9, <2>10, DigitDecides
<1>2. ASSUME Rest[i][a] = Rest[i][b] PROVE SameDigits(D, a, b, i)
  <2> DEFINE Wrong == {j \in 0 .. D : j >= i /\ Rest[j][a] # Rest[j][b]}
  <2>1. Wrong = {}
    <3> SUFFICES ASSUME Wrong # {} PROVE FALSE
      OBVIOUS
    <3>1. Wrong \in SUBSET Nat
      BY <1>0
    <3>2. PICK k \in Wrong : \A j \in Wrong : k <= j
      BY <3>1, LeastNumber
    <3>3. k # i
      BY <1>2, <3>2
    <3>4. k - 1 \in 0 .. D /\ k - 1 >= i /\ k - 1 \in 0 .. MaxKey /\ (k - 1) + 1 = k /\ k - 1 \notin Wrong
      BY <1>0, <3>1, <3>2, <3>3
    <3>5. Rest[k - 1][a] = Rest[k - 1][b]
      BY <3>4
    <3>6. Rest[k][a] = Rest[k - 1][a] \div Base /\ Rest[k][b] = Rest[k - 1][b] \div Base
      BY <1>0, <3>4, RestStep
    <3> QED
      BY <3>2, <3>5, <3>6
  <2>2. \A j \in 0 .. D - 1 : j >= i => Digit(a, j) = Digit(b, j)
    <3> TAKE j \in 0 .. D - 1
    <3> HAVE j >= i
    <3>1. j \in 0 .. D
      BY <1>0
    <3>2. Rest[j][a] = Rest[j][b]
      BY <2>1, <3>1
    <3> QED
      BY <3>2 DEF Digit
  <2> QED
    BY <2>2 DEF SameDigits
<1> QED
  BY <1>1, <1>2

\* The first digit that differs decides.
LEMMA FirstDigitDecides ==
  ASSUME NEW D, NEW a, NEW b, Fits(D, a), Fits(D, b)
  PROVE  a < b <=> \E i \in 0 .. D - 1 : SameDigits(D, a, b, i + 1) /\ Digit(a, i) < Digit(b, i)
<1>0. /\ D \in Nat /\ D # 0 /\ MaxKey \in Nat /\ D <= MaxKey + 1
      /\ a \in 0 .. MaxKey /\ b \in 0 .. MaxKey
      /\ Rest[D][a] = Rest[D][b]
  BY KeyBoundAssumption DEF Fits
<1>1. \A i \in 0 .. D - 1 : i \in 0 .. MaxKey /\ i \in 0 .. MaxKey + 1 /\ i + 1 \in 0 .. D
  BY <1>0
<1>2. ASSUME NEW i \in 0 .. D - 1, SameDigits(D, a, b, i + 1), Digit(a, i) < Digit(b, i)
      PROVE  a < b
  <2>1. Rest[i + 1][a] = Rest[i + 1][b]
    BY <1>1, <1>2, SameDigitsSameRest
  <2>2. Rest[i][a] < Rest[i][b]
    BY <1>0, <1>1, <1>2, <2>1, DigitDecides
  <2>3. ASSUME b <= a PROVE FALSE
    <3>1. Rest[i][b] <= Rest[i][a]
      BY <1>0, <1>1, <2>3, RestGrows
    <3>2. Rest[i][a] \in Nat /\ Rest[i][b] \in Nat
      BY <1>0, <1>1, RestShrinks
    <3> QED
      BY <2>2, <3>1, <3>2
  <2> QED
    BY <1>0, <2>3
<1>3. ASSUME a < b
      PROVE  \E i \in 0 .. D - 1 : SameDigits(D, a, b, i + 1) /\ Digit(a, i) < Digit(b, i)
  <2> DEFINE Same == {k \in 0 .. D : Rest[k][a] = Rest[k][b]}
  <2>1. Same \in SUBSET Nat /\ D \in Same
    BY <1>0
  <2>2. PICK k \in Same : \A j \in Same : k <= j
    BY <2>1, LeastNumber
  <2>3. k # 0
    BY <1>0, <1>3, <2>2, RestStep
  <2> DEFINE i == k - 1
  <2>4. i \in 0 .. D - 1 /\ i + 1 = k /\ i \notin Same /\ i \in 0 .. D
    BY <1>0, <2>1, <2>2, <2>3
  <2>5. Rest[i + 1][a] = Rest[i + 1][b] /\ Rest[i][a] # Rest[i][b]
    BY <2>2, <2>4
  <2> HIDE DEF i
  <2>6. Rest[i][a] <= Rest[i][b] /\ Rest[i][a] \in Nat /\ Rest[i][b] \in Nat
    BY <1>0, <1>1, <1>3, <2>4, RestGrows, RestShrinks
  <2>7. Rest[i][a] < Rest[i][b]
    BY <2>5, <2>6
  <2>8. Digit(a, i) < Digit(b, i)
    BY <1>0, <1>1, <2>4, <2>5, <2>7, DigitDecides
  <2>9. SameDigits(D, a, b, i + 1)
    BY <1>1, <2>4, <2>5, SameDigitsSameRest
  <2> QED
    BY <2>4, <2>8, <2>9
<1> QED
  BY <1>2, <1>3

-----------------------------------------------------------------------------
(***************************************************************************)
(* What cutting a number to its lowest D digits leaves.  The least number  *)
(* with more digits is written with a one and D zeros, so that the         *)
(* remainder of a division by it has the digits that were not cut.         *)
(***************************************************************************)

LEMMA QuotientOf ==
  ASSUME NEW p \in Nat, NEW d \in 0 .. Base - 1
  PROVE  (Base * p + d) \div Base = p /\ (Base * p + d) % Base = d
<1> DEFINE x == Base * p + d
           q == x \div Base
           r == x % Base
<1>1. Base \in Nat /\ Base > 0 /\ Base * p \in Nat /\ d \in Nat /\ d < Base
  BY BaseAssumption
<1>2. x \in Nat
  BY <1>1
<1>3. q \in Nat /\ r \in 0 .. Base - 1 /\ x = Base * q + r
  BY <1>2, Division
<1>4. Base * p + d = Base * q + r
  BY <1>3
<1> HIDE DEF x, q, r
<1>5. ASSUME NEW a \in Nat, NEW b \in Nat, a < b
      PROVE  Base * a + Base <= Base * b
  <2>1. PICK k \in Nat : b = a + 1 + k
    <3>1. b - (a + 1) \in Nat /\ b = a + 1 + (b - (a + 1))
      BY <1>5
    <3> QED
      BY <3>1
  <2>2. Base * b = Base * a + Base + Base * k /\ Base * k \in Nat
    BY <2>1, <1>1
  <2>3. Base * a \in Nat
    BY <1>1
  <2> QED
    BY <2>2, <2>3, <1>1
<1>6. Base * p \in Nat /\ Base * q \in Nat
  BY <1>1, <1>3
<1>7. ~(p < q)
  BY <1>1, <1>3, <1>4, <1>5, <1>6
<1>8. ~(q < p)
  BY <1>1, <1>3, <1>4, <1>5, <1>6
<1>9. p = q
  BY <1>3, <1>7, <1>8
<1>10. r = d
  BY <1>1, <1>3, <1>4, <1>6, <1>9
<1> QED
  BY <1>9, <1>10 DEF x, q, r

\* The quotient of the next number is the same, or the next one and nothing is left over.
LEMMA NextQuotient ==
  ASSUME NEW y \in Nat
  PROVE  \/ (y + 1) \div Base = y \div Base
         \/ (y + 1) \div Base = y \div Base + 1 /\ (y + 1) % Base = 0
<1> DEFINE q == y \div Base
           r == y % Base
<1>1. Base \in Nat /\ Base > 1 /\ q \in Nat /\ r \in 0 .. Base - 1 /\ y = Base * q + r
  BY Division, BaseAssumption
<1> HIDE DEF q, r
<1>2. CASE r + 1 \in 0 .. Base - 1
  <2>1. y + 1 = Base * q + (r + 1)
    BY <1>1
  <2>2. (Base * q + (r + 1)) \div Base = q
    BY <1>1, <1>2, QuotientOf
  <2> QED
    BY <2>1, <2>2 DEF q
<1>3. CASE r + 1 = Base
  <2>1. Base * (q + 1) = Base * q + Base
    BY <1>1
  <2>2. y + 1 = Base * (q + 1) + 0
    <3>1. Base * q \in Nat
      BY <1>1
    <3> QED
      BY <1>1, <1>3, <2>1, <3>1
  <2>3. q + 1 \in Nat /\ 0 \in 0 .. Base - 1
    BY <1>1
  <2>4. (Base * (q + 1) + 0) \div Base = q + 1 /\ (Base * (q + 1) + 0) % Base = 0
    BY <2>3, QuotientOf
  <2> QED
    BY <2>2, <2>4 DEF q
<1> QED
  BY <1>1, <1>2, <1>3

\* Numbers that leave the same once leave the same from then on.
LEMMA SameRestStays ==
  ASSUME NEW D \in 0 .. MaxKey + 1, NEW a \in 0 .. MaxKey, NEW b \in 0 .. MaxKey,
         NEW i \in 0 .. D, Rest[i][a] = Rest[i][b]
  PROVE  Rest[D][a] = Rest[D][b]
<1>0. MaxKey \in Nat /\ D \in Nat /\ i \in Nat /\ i <= D
  BY KeyBoundAssumption
<1> DEFINE Wrong == {j \in 0 .. D : j >= i /\ Rest[j][a] # Rest[j][b]}
<1>1. Wrong = {}
  <2> SUFFICES ASSUME Wrong # {} PROVE FALSE
    OBVIOUS
  <2>1. Wrong \in SUBSET Nat
    BY <1>0
  <2>2. PICK k \in Wrong : \A j \in Wrong : k <= j
    BY <2>1, LeastNumber
  <2>3. k # i
    BY <2>2
  <2>4. k - 1 \in 0 .. D /\ k - 1 >= i /\ k - 1 \in 0 .. MaxKey /\ (k - 1) + 1 = k /\ k - 1 \notin Wrong
    BY <1>0, <2>1, <2>2, <2>3
  <2>5. Rest[k - 1][a] = Rest[k - 1][b]
    BY <2>4
  <2>6. Rest[k][a] = Rest[k - 1][a] \div Base /\ Rest[k][b] = Rest[k - 1][b] \div Base
    BY <2>4, RestStep
  <2> QED
    BY <2>2, <2>5, <2>6
<1>2. D \in 0 .. D /\ D >= i
  BY <1>0
<1> QED
  BY <1>1, <1>2

\* w is the least number with more than D digits.
IsLeastTooLong(D, w) ==
  /\ D \in 1 .. MaxKey + 1
  /\ w \in 0 .. MaxKey
  /\ Rest[D][w] # 0
  /\ \A n \in 0 .. MaxKey : Rest[D][n] # 0 => w <= n

LEMMA LeastTooLong ==
  ASSUME NEW D, NEW w, IsLeastTooLong(D, w)
  PROVE  /\ w # 0
         /\ \A i \in 0 .. D - 1 : Rest[i][w] = Base * Rest[i + 1][w]
<1>0. /\ MaxKey \in Nat /\ D \in Nat /\ D # 0 /\ D <= MaxKey + 1
      /\ D \in 0 .. MaxKey + 1 /\ w \in 0 .. MaxKey /\ w \in Nat
  BY KeyBoundAssumption DEF IsLeastTooLong
<1>1. w # 0
  <2>1. Rest[D][w] \in Nat /\ Rest[D][w] <= w
    BY <1>0, RestShrinks
  <2> QED
    BY <1>0, <2>1 DEF IsLeastTooLong
<1> DEFINE v == w - 1
<1>2. v \in 0 .. MaxKey /\ v \in Nat /\ w = v + 1
  BY <1>0, <1>1
<1> HIDE DEF v
<1>3. Rest[D][v] = 0
  <2>1. ~(w <= v)
    BY <1>0, <1>2
  <2> QED
    BY <1>2, <2>1 DEF IsLeastTooLong
<1>4. \A i \in 0 .. D : Rest[i][w] # Rest[i][v]
  <2>1. Rest[D][w] # Rest[D][v]
    BY <1>3 DEF IsLeastTooLong
  <2> QED
    BY <1>0, <1>2, <2>1, SameRestStays
<1> DEFINE Wrong == {i \in 0 .. D : Rest[i][w] # Rest[i][v] + 1}
<1>5. Wrong = {}
  <2> SUFFICES ASSUME Wrong # {} PROVE FALSE
    OBVIOUS
  <2>1. Wrong \in SUBSET Nat
    BY <1>0
  <2>2. PICK k \in Wrong : \A j \in Wrong : k <= j
    BY <2>1, LeastNumber
  <2>3. k # 0
    <3>1. Rest[0][w] = w /\ Rest[0][v] = v
      BY <1>0, <1>2, RestStep
    <3> QED
      BY <1>2, <2>2, <3>1
  <2>4. k - 1 \in 0 .. D /\ k - 1 \in 0 .. MaxKey /\ (k - 1) + 1 = k /\ k - 1 \notin Wrong /\ k \in 0 .. D
    BY <1>0, <2>1, <2>2, <2>3
  <2> DEFINE y == Rest[k - 1][v]
  <2>5. y \in Nat /\ Rest[k - 1][w] = y + 1
    <3>1. k - 1 \in 0 .. MaxKey + 1
      BY <1>0, <2>4
    <3> QED
      BY <1>2, <2>4, <3>1, RestShrinks
  <2>6. Rest[k][v] = y \div Base /\ Rest[k][w] = (y + 1) \div Base
    BY <1>0, <1>2, <2>4, <2>5, RestStep
  <2> HIDE DEF y
  <2>7. Rest[k][w] # Rest[k][v]
    BY <1>4, <2>4
  <2> QED
    BY <2>2, <2>5, <2>6, <2>7, NextQuotient
<1>6. ASSUME NEW i \in 0 .. D - 1 PROVE Rest[i][w] = Base * Rest[i + 1][w]
  <2>1. i \in 0 .. D /\ i + 1 \in 0 .. D /\ i \in 0 .. MaxKey /\ i \in 0 .. MaxKey + 1
    BY <1>0
  <2> DEFINE y == Rest[i][v]
  <2>2. y \in Nat /\ Rest[i][w] = y + 1
    BY <1>2, <1>5, <2>1, RestShrinks
  <2>3. Rest[i + 1][v] = y \div Base /\ Rest[i + 1][w] = (y + 1) \div Base
    BY <1>0, <1>2, <2>1, <2>2, RestStep
  <2> HIDE DEF y
  <2>4. Rest[i + 1][w] # Rest[i + 1][v]
    BY <1>4, <2>1
  <2>5. (y + 1) % Base = 0
    BY <2>2, <2>3, <2>4, NextQuotient
  <2>6. /\ (y + 1) \div Base \in Nat
        /\ y + 1 = Base * ((y + 1) \div Base) + ((y + 1) % Base)
    <3>1. y + 1 \in Nat
      BY <2>2
    <3> QED
      BY <3>1, Division
  <2>7. Base * ((y + 1) \div Base) \in Nat
    BY <2>6, BaseAssumption
  <2> QED
    BY <2>2, <2>3, <2>5, <2>6, <2>7
<1> QED
  BY <1>1, <1>6

LEMMA SumOfMultiples ==
  ASSUME NEW w \in Nat, NEW q \in Nat, NEW y \in Nat, NEW d \in 0 .. Base - 1
  PROVE  /\ w * q + y \in Nat
         /\ (Base * w) * q + (Base * y + d) = Base * (w * q + y) + d
<1>1. Base \in Nat /\ w * q \in Nat
  BY BaseAssumption
<1>2. (Base * w) * q = Base * (w * q)
  BY <1>1
<1>3. Base * (w * q + y) = Base * (w * q) + Base * y
  BY <1>1
<1>4. Base * (w * q) \in Nat /\ Base * y \in Nat /\ d \in Nat
  BY <1>1
<1> QED
  BY <1>1, <1>2, <1>3, <1>4

\* The remainder has the lowest digits of the number, and no others.
LEMMA RemainderHasTheDigits ==
  ASSUME NEW D, NEW w, IsLeastTooLong(D, w), NEW n \in 0 .. MaxKey
  PROVE  /\ Fits(D, n % w)
         /\ \A i \in 0 .. D - 1 : Digit(n % w, i) = Digit(n, i)
<1> DEFINE c == n % w
           q == n \div w
<1>0. /\ MaxKey \in Nat /\ D \in Nat /\ D # 0 /\ D <= MaxKey + 1
      /\ w \in 0 .. MaxKey /\ w \in Nat /\ w > 0 /\ n \in Nat
  BY KeyBoundAssumption, LeastTooLong DEF IsLeastTooLong
<1>1. q \in Int /\ c \in 0 .. w - 1 /\ n = w * q + c
  BY <1>0
<1> HIDE DEF c, q
<1>2. q \in Nat
  <2> SUFFICES ASSUME q + 1 <= 0 PROVE FALSE
    BY <1>1
  <2>1. w * (q + 1) = w * q + w /\ w * (q + 1) <= 0
    BY <1>0, <1>1
  <2>2. w * q \in Int
    BY <1>0, <1>1
  <2> QED
    BY <1>0, <1>1, <2>1, <2>2
<1>3. c \in 0 .. MaxKey /\ ~(w <= c)
  BY <1>0, <1>1
<1>4. Fits(D, c)
  BY <1>3 DEF IsLeastTooLong, Fits
<1>5. ASSUME NEW i \in 0 .. D - 1, Rest[i][n] = Rest[i][w] * q + Rest[i][c]
      PROVE  /\ Rest[i + 1][n] = Rest[i + 1][w] * q + Rest[i + 1][c]
             /\ Digit(n, i) = Digit(c, i)
  <2>1. i \in 0 .. MaxKey
    BY <1>0
  <2> DEFINE u == Rest[i + 1][w]
             y == Rest[i + 1][c]
             d == Digit(c, i)
  <2>2. u \in Nat /\ Rest[i][w] = Base * u
    BY <1>0, <2>1, LeastTooLong, DigitOfRest
  <2>3. y \in Nat /\ d \in 0 .. Base - 1 /\ Rest[i][c] = Base * y + d
    BY <1>3, <2>1, DigitOfRest
  <2>4. Rest[i + 1][n] = Rest[i][n] \div Base /\ Digit(n, i) = Rest[i][n] % Base
    BY <2>1, RestStep DEF Digit
  <2> HIDE DEF u, y, d
  <2>5. Rest[i][n] = (Base * u) * q + (Base * y + d)
    BY <1>5, <2>2, <2>3
  <2>6. u * q + y \in Nat /\ Rest[i][n] = Base * (u * q + y) + d
    BY <1>2, <2>2, <2>3, <2>5, SumOfMultiples
  <2>7. Rest[i][n] \div Base = u * q + y /\ Rest[i][n] % Base = d
    BY <2>3, <2>6, QuotientOf
  <2> QED
    BY <2>4, <2>7 DEF u, y, d
<1>6. \A i \in 0 .. D : Rest[i][n] = Rest[i][w] * q + Rest[i][c]
  <2> DEFINE Wrong == {i \in 0 .. D : Rest[i][n] # Rest[i][w] * q + Rest[i][c]}
  <2> SUFFICES ASSUME Wrong # {} PROVE FALSE
    OBVIOUS
  <2>1. Wrong \in SUBSET Nat
    BY <1>0
  <2>2. PICK k \in Wrong : \A j \in Wrong : k <= j
    BY <2>1, LeastNumber
  <2>3. k # 0
    <3>1. Rest[0][n] = n /\ Rest[0][w] = w /\ Rest[0][c] = c
      BY <1>0, <1>3, RestStep
    <3> QED
      BY <1>1, <2>2, <3>1
  <2>4. k - 1 \in 0 .. D - 1 /\ k - 1 \in 0 .. D /\ (k - 1) + 1 = k /\ k - 1 \notin Wrong
    BY <1>0, <2>1, <2>2, <2>3
  <2>5. Rest[k - 1][n] = Rest[k - 1][w] * q + Rest[k - 1][c]
    BY <2>4
  <2> QED
    BY <1>5, <2>2, <2>4, <2>5
<1>7. \A i \in 0 .. D - 1 : Digit(c, i) = Digit(n, i)
  <2> TAKE i \in 0 .. D - 1
  <2>1. i \in 0 .. D
    BY <1>0
  <2> QED
    BY <1>5, <1>6, <2>1
<1> QED
  BY <1>4, <1>7 DEF c

-----------------------------------------------------------------------------
(***************************************************************************)
(* The decomposed index.                                                   *)
(***************************************************************************)

\* The largest key has the most digits, and they are enough for all keys.
LEMMA DigitsAreEnough ==
  ASSUME Built
  PROVE  LET D == NumDigits(Max(Keys)) IN
           /\ D \in 1 .. MaxKey + 1
           /\ \A r \in Rows : Fits(D, KeyOf(r))
<1> DEFINE top == Max(Keys)
           D == NumDigits(top)
<1>0. MaxKey \in Nat
  BY KeyBoundAssumption
<1>1. /\ Len(column) \in Nat \ {0}
      /\ \A r \in Rows : r + 1 \in 1 .. Len(column) /\ KeyOf(r) \in 0 .. MaxKey /\ KeyOf(r) \in Keys
  <2>1. column \in Seq(0 .. MaxKey) /\ column # <<>>
    BY DEF Built
  <2>2. Len(column) \in Nat \ {0}
    BY <2>1, EmptySeq
  <2>3. \A r \in Rows : r + 1 \in 1 .. Len(column)
    BY <2>2 DEF Rows
  <2> QED
    BY <2>1, <2>2, <2>3, ElementOfSeq DEF KeyOf, Keys
<1>2. Keys # {} /\ Keys \subseteq 0 .. MaxKey
  <2>1. 0 \in Rows
    BY <1>1 DEF Rows
  <2> QED
    BY <1>1, <2>1 DEF Keys
<1>3. top \in Keys /\ \A k \in Keys : k <= top
  <2> DEFINE Distances == {MaxKey - k : k \in Keys}
  <2>1. Distances \in SUBSET Nat /\ Distances # {}
    <3>1. \A k \in Keys : MaxKey - k \in Nat
      BY <1>0, <1>2
    <3> QED
      BY <1>2, <3>1, Zenon
  <2>2. PICK d \in Distances : \A e \in Distances : d <= e
    BY <2>1, LeastNumber
  <2>3. PICK k \in Keys : d = MaxKey - k
    BY <2>2
  <2>4. \A j \in Keys : k >= j
    <3> TAKE j \in Keys
    <3>1. d <= MaxKey - j
      BY <2>2
    <3>2. j \in Int /\ k \in Int
      BY <1>2
    <3> QED
      BY <1>0, <2>3, <3>1, <3>2
  <2>5. \E m \in Keys : \A j \in Keys : m >= j
    BY <2>4
  <2>6. top = CHOOSE m \in Keys : \A j \in Keys : m >= j
    BY DEF Max
  <2>7. top \in Keys /\ \A j \in Keys : top >= j
    BY <2>5, <2>6
  <2>8. \A j \in Keys : j \in Int
    BY <1>2
  <2> HIDE DEF top
  <2> QED
    BY <2>7, <2>8
<1> HIDE DEF top
<1>4. top \in 0 .. MaxKey
  BY <1>2, <1>3
<1>5. D \in 1 .. MaxKey + 1 /\ Rest[D][top] = 0
  <2> DEFINE Enough == {d \in 1 .. MaxKey + 1 : Rest[d][top] = 0}
  <2>1. MaxKey + 1 \in Enough
    <3>1. MaxKey + 1 \in 0 .. MaxKey + 1 /\ MaxKey + 1 \in 1 .. MaxKey + 1
      BY <1>0
    <3>2. /\ Rest[MaxKey + 1][top] \in Nat
          /\ Rest[MaxKey + 1][top] = 0 \/ Rest[MaxKey + 1][top] + (MaxKey + 1) <= top
      BY <1>4, <3>1, RestShrinks
    <3> QED
      BY <1>0, <1>4, <3>1, <3>2
  <2>2. Enough \subseteq Nat /\ Enough # {}
    BY <1>0, <2>1
  <2>3. Min(Enough) \in Enough
    BY <2>2, LeastKey
  <2>4. D = Min(Enough)
    BY DEF NumDigits
  <2> QED
    BY <2>3, <2>4
<1>6. \A r \in Rows : Fits(D, KeyOf(r))
  <2> TAKE r \in Rows
  <2> HIDE DEF D
  <2>1. KeyOf(r) \in 0 .. MaxKey /\ KeyOf(r) <= top
    BY <1>1, <1>3
  <2>2. D \in 0 .. MaxKey + 1
    BY <1>0, <1>5
  <2>3. Rest[D][KeyOf(r)] <= Rest[D][top] /\ Rest[D][KeyOf(r)] \in Nat
    BY <1>4, <2>1, <2>2, RestGrows, RestShrinks
  <2> QED
    BY <1>5, <2>1, <2>3 DEF Fits
<1> QED
  BY <1>5, <1>6 DEF top

\* The bitmaps of an index of D digits.
IsDecomposed(vecs, D) ==
  vecs = [i \in 0 .. D - 1 |-> [d \in 0 .. Base - 1 |-> {r \in Rows : Digit(KeyOf(r), i) = d}]]

LEMMA MaskIs ==
  ASSUME Built, NEW D, NEW vecs, IsDecomposed(vecs, D), NEW n, Fits(D, n), NEW i \in 0 .. D,
         NEW r \in Rows
  PROVE  r \in Mask(vecs, n, i) <=> SameDigits(D, KeyOf(r), n, i)
<1>1. D \in Nat /\ D <= MaxKey + 1 /\ n \in 0 .. MaxKey /\ MaxKey \in Nat
  BY KeyBoundAssumption DEF Fits
<1>2. DOMAIN vecs = 0 .. D - 1
  BY DEF IsDecomposed
<1>3. \A j \in 0 .. D - 1 : r \in vecs[j][Digit(n, j)] <=> Digit(KeyOf(r), j) = Digit(n, j)
  <2> TAKE j \in 0 .. D - 1
  <2>1. j \in 0 .. MaxKey
    BY <1>1
  <2>2. Digit(n, j) \in 0 .. Base - 1
    BY <1>1, <2>1, DigitOfRest
  <2>3. vecs[j][Digit(n, j)] = {x \in Rows : Digit(KeyOf(x), j) = Digit(n, j)}
    BY <2>2 DEF IsDecomposed
  <2> QED
    BY <2>3
<1>4. r \in Bits
  BY RowsHaveBits
<1> QED
  BY <1>2, <1>3, <1>4 DEF Mask, SameDigits

\* Only rows agree with a number, and only those with this key.
LEMMA MaskOfAll ==
  ASSUME Built, NEW D, NEW vecs, IsDecomposed(vecs, D), NEW n, Fits(D, n),
         \A r \in Rows : Fits(D, KeyOf(r))
  PROVE  \A r : r \in Mask(vecs, n, 0) <=> r \in Rows /\ KeyOf(r) = n
<1> TAKE r
<1>1. D \in Nat /\ D # 0 /\ D <= MaxKey + 1 /\ n \in 0 .. MaxKey /\ MaxKey \in Nat
  BY KeyBoundAssumption DEF Fits
<1>2. r \in Mask(vecs, n, 0) => r \in Rows
  <2>1. 0 \in DOMAIN vecs /\ 0 \in 0 .. MaxKey /\ 0 \in 0 .. D - 1
    BY <1>1 DEF IsDecomposed
  <2>2. Digit(n, 0) \in 0 .. Base - 1
    BY <1>1, <2>1, DigitOfRest
  <2>3. vecs[0][Digit(n, 0)] = {x \in Rows : Digit(KeyOf(x), 0) = Digit(n, 0)}
    BY <2>1, <2>2 DEF IsDecomposed
  <2> QED
    BY <2>1, <2>3 DEF Mask
<1>3. ASSUME r \in Rows PROVE r \in Mask(vecs, n, 0) <=> KeyOf(r) = n
  <2>1. 0 \in 0 .. D /\ Fits(D, KeyOf(r))
    BY <1>1, <1>3
  <2>2. r \in Mask(vecs, n, 0) <=> SameDigits(D, KeyOf(r), n, 0)
    BY <1>3, <2>1, MaskIs
  <2>3. SameDigits(D, KeyOf(r), n, 0) <=> Rest[0][KeyOf(r)] = Rest[0][n]
    BY <2>1, SameDigitsSameRest
  <2>4. Rest[0][KeyOf(r)] = KeyOf(r) /\ Rest[0][n] = n
    BY <1>1, <2>1, RestStep DEF Fits
  <2> QED
    BY <2>2, <2>3, <2>4
<1> QED
  BY <1>2, <1>3

LEMMA DecidingIs ==
  ASSUME Built, NEW D, NEW vecs, IsDecomposed(vecs, D), NEW n, Fits(D, n),
         NEW values \in [0 .. Base - 1 -> SUBSET (0 .. Base - 1)]
  PROVE  \A r : r \in Deciding(vecs, n, values) <=>
           /\ r \in Rows
           /\ \E i \in 0 .. D - 1 : /\ SameDigits(D, KeyOf(r), n, i + 1)
                                    /\ Digit(KeyOf(r), i) \in values[Digit(n, i)]
<1> TAKE r
<1>1. D \in Nat /\ D # 0 /\ D <= MaxKey + 1 /\ n \in 0 .. MaxKey /\ MaxKey \in Nat
  BY KeyBoundAssumption DEF Fits
<1>2. DOMAIN vecs = 0 .. D - 1
  BY DEF IsDecomposed
<1>3. \A i \in 0 .. D - 1 : i + 1 \in 0 .. D /\ values[Digit(n, i)] \in SUBSET (0 .. Base - 1)
  <2> TAKE i \in 0 .. D - 1
  <2>1. i \in 0 .. MaxKey /\ i + 1 \in 0 .. D
    BY <1>1
  <2> QED
    BY <1>1, <2>1, DigitOfRest
<1>4. \A i \in 0 .. D - 1 :
        (\E d \in values[Digit(n, i)] : r \in vecs[i][d]) <=>
          r \in Rows /\ Digit(KeyOf(r), i) \in values[Digit(n, i)]
  <2> TAKE i \in 0 .. D - 1
  <2>1. \A d \in 0 .. Base - 1 : vecs[i][d] = {x \in Rows : Digit(KeyOf(x), i) = d}
    BY DEF IsDecomposed
  <2>2. \A d \in values[Digit(n, i)] : d \in 0 .. Base - 1
    BY <1>3
  <2> QED
    BY <2>1, <2>2
<1>5. ASSUME r \in Rows
      PROVE  \A i \in 0 .. D - 1 :
               r \in Mask(vecs, n, i + 1) <=> SameDigits(D, KeyOf(r), n, i + 1)
  BY <1>3, <1>5, MaskIs
<1>6. r \in Deciding(vecs, n, values) <=>
        \E i \in 0 .. D - 1 :
          r \in Mask(vecs, n, i + 1) /\ \E d \in values[Digit(n, i)] : r \in vecs[i][d]
  <2> DEFINE Part(i) == Mask(vecs, n, i + 1) \cap UNION {vecs[i][d] : d \in values[Digit(n, i)]}
  <2>0. Deciding(vecs, n, values) = UNION {Part(i) : i \in DOMAIN vecs}
    BY DEF Deciding
  <2> HIDE DEF Part
  <2>1. r \in Deciding(vecs, n, values) <=> \E i \in DOMAIN vecs : r \in Part(i)
    BY <2>0
  <2> USE DEF Part
  <2>2. \A i : r \in UNION {vecs[i][d] : d \in values[Digit(n, i)]} <=>
                 \E d \in values[Digit(n, i)] : r \in vecs[i][d]
    OBVIOUS
  <2> QED
    BY <1>2, <2>1, <2>2
<1> QED
  BY <1>4, <1>5, <1>6

\* Rows whose key is above n, and below it.
LEMMA AboveAndBelow ==
  ASSUME Built, NEW D, NEW vecs, IsDecomposed(vecs, D), NEW n, Fits(D, n),
         \A r \in Rows : Fits(D, KeyOf(r))
  PROVE  /\ \A r : r \in Deciding(vecs, n, [d \in 0 .. Base - 1 |-> d + 1 .. Base - 1]) <=>
                     r \in Rows /\ n < KeyOf(r)
         /\ \A r : r \in Deciding(vecs, n, [d \in 0 .. Base - 1 |-> 0 .. d - 1]) <=>
                     r \in Rows /\ KeyOf(r) < n
<1> DEFINE above == [d \in 0 .. Base - 1 |-> d + 1 .. Base - 1]
           below == [d \in 0 .. Base - 1 |-> 0 .. d - 1]
<1>0. D \in Nat /\ D # 0 /\ D <= MaxKey + 1 /\ n \in 0 .. MaxKey /\ MaxKey \in Nat /\ Base \in Nat
  BY KeyBoundAssumption, BaseAssumption DEF Fits
<1>1. /\ above \in [0 .. Base - 1 -> SUBSET (0 .. Base - 1)]
      /\ below \in [0 .. Base - 1 -> SUBSET (0 .. Base - 1)]
  BY <1>0
<1>2. \A c, d \in 0 .. Base - 1 : (c \in above[d] <=> d < c) /\ (c \in below[d] <=> c < d)
  BY <1>0
<1> HIDE DEF above, below
<1>3. \A r \in Rows : \A i \in 0 .. D - 1 :
        /\ Digit(KeyOf(r), i) \in above[Digit(n, i)] <=> Digit(n, i) < Digit(KeyOf(r), i)
        /\ Digit(KeyOf(r), i) \in below[Digit(n, i)] <=> Digit(KeyOf(r), i) < Digit(n, i)
  <2> TAKE r \in Rows
  <2> TAKE i \in 0 .. D - 1
  <2>1. i \in 0 .. MaxKey /\ KeyOf(r) \in 0 .. MaxKey
    BY <1>0 DEF Fits
  <2>2. Digit(KeyOf(r), i) \in 0 .. Base - 1 /\ Digit(n, i) \in 0 .. Base - 1
    BY <1>0, <2>1, DigitOfRest
  <2> QED
    BY <1>2, <2>2
<1>4. \A r \in Rows :
        /\ n < KeyOf(r) <=> \E i \in 0 .. D - 1 : /\ SameDigits(D, n, KeyOf(r), i + 1)
                                                  /\ Digit(n, i) < Digit(KeyOf(r), i)
        /\ KeyOf(r) < n <=> \E i \in 0 .. D - 1 : /\ SameDigits(D, KeyOf(r), n, i + 1)
                                                  /\ Digit(KeyOf(r), i) < Digit(n, i)
  BY FirstDigitDecides
<1>5. \A r, i : SameDigits(D, n, KeyOf(r), i) <=> SameDigits(D, KeyOf(r), n, i)
  BY DEF SameDigits
<1>6. \A r : r \in Deciding(vecs, n, above) <=> r \in Rows /\ n < KeyOf(r)
  <2> TAKE r
  <2>1. r \in Deciding(vecs, n, above) <=>
          /\ r \in Rows
          /\ \E i \in 0 .. D - 1 : /\ SameDigits(D, KeyOf(r), n, i + 1)
                                   /\ Digit(KeyOf(r), i) \in above[Digit(n, i)]
    BY <1>1, DecidingIs
  <2> QED
    BY <2>1, <1>3, <1>4, <1>5
<1>7. \A r : r \in Deciding(vecs, n, below) <=> r \in Rows /\ KeyOf(r) < n
  <2> TAKE r
  <2>1. r \in Deciding(vecs, n, below) <=>
          /\ r \in Rows
          /\ \E i \in 0 .. D - 1 : /\ SameDigits(D, KeyOf(r), n, i + 1)
                                   /\ Digit(KeyOf(r), i) \in below[Digit(n, i)]
    BY <1>1, DecidingIs
  <2> QED
    BY <2>1, <1>3, <1>4
<1> QED
  BY <1>6, <1>7 DEF above, below

\* A lookup sees no more of its bounds than their lowest digits.
LEMMA SameDigitsSameRows ==
  ASSUME NEW D, NEW vecs, IsDecomposed(vecs, D), NEW a, NEW b,
         \A i \in 0 .. D - 1 : Digit(a, i) = Digit(b, i)
  PROVE  /\ \A i : Mask(vecs, a, i) = Mask(vecs, b, i)
         /\ \A values : Deciding(vecs, a, values) = Deciding(vecs, b, values)
<1>1. \A i \in DOMAIN vecs : Digit(a, i) = Digit(b, i)
  BY DEF IsDecomposed
<1>2. \A i : Mask(vecs, a, i) = Mask(vecs, b, i)
  BY <1>1 DEF Mask
<1>3. \A values : Deciding(vecs, a, values) = Deciding(vecs, b, values)
  <2> TAKE values
  <2> DEFINE Part(n, i) == Mask(vecs, n, i + 1) \cap UNION {vecs[i][d] : d \in values[Digit(n, i)]}
  <2>1. \A i \in DOMAIN vecs : Part(a, i) = Part(b, i)
    BY <1>1, <1>2
  <2>2. /\ Deciding(vecs, a, values) = UNION {Part(a, i) : i \in DOMAIN vecs}
        /\ Deciding(vecs, b, values) = UNION {Part(b, i) : i \in DOMAIN vecs}
    BY DEF Deciding
  <2> HIDE DEF Part
  <2> QED
    BY <2>1, <2>2
<1> QED
  BY <1>2, <1>3

\* Bounds that fit are compared with the keys as numbers.
LEMMA FittingBounds ==
  ASSUME Built, NEW D, NEW vecs, IsDecomposed(vecs, D), \A r \in Rows : Fits(D, KeyOf(r)),
         NEW start, Fits(D, start), NEW end, Fits(D, end)
  PROVE  DecomposedLookup(vecs, start, end) = RowsBetween(start, end)
<1>3. MaxKey \in Nat /\ start \in Nat /\ end \in Nat
  BY KeyBoundAssumption DEF Fits
<1> DEFINE above == Deciding(vecs, start, [d \in 0 .. Base - 1 |-> d + 1 .. Base - 1])
           below == Deciding(vecs, end, [d \in 0 .. Base - 1 |-> 0 .. d - 1])
<1>7. /\ \A r : r \in above <=> r \in Rows /\ start < KeyOf(r)
      /\ \A r : r \in below <=> r \in Rows /\ KeyOf(r) < end
  BY AboveAndBelow
<1>8. /\ \A r : r \in Mask(vecs, start, 0) <=> r \in Rows /\ KeyOf(r) = start
      /\ \A r : r \in Mask(vecs, end, 0) <=> r \in Rows /\ KeyOf(r) = end
  BY MaskOfAll
<1>9. DecomposedLookup(vecs, start, end) =
        (above \cup Mask(vecs, start, 0)) \cap (below \cup Mask(vecs, end, 0))
  BY DEF DecomposedLookup
<1> HIDE DEF above, below
<1>10. \A r \in Rows : KeyOf(r) \in Nat
  BY KeysAreNumbers
<1>11. \A r : r \in DecomposedLookup(vecs, start, end) <=> r \in RowsBetween(start, end)
  <2> TAKE r
  <2>1. r \in DecomposedLookup(vecs, start, end) <=>
          /\ r \in above \/ r \in Mask(vecs, start, 0)
          /\ r \in below \/ r \in Mask(vecs, end, 0)
    BY <1>9
  <2> QED
    BY <1>3, <1>7, <1>8, <1>10, <2>1 DEF RowsBetween
<1> QED
  BY <1>11

\* A cut bound has the lowest digits of the bound, as many as the largest key has.
LEMMA CutFits ==
  ASSUME NEW D, D = NumDigits(Max(Keys)), D \in 1 .. MaxKey + 1, NEW n \in 0 .. MaxKey
  PROVE  /\ Fits(D, Cut(n))
         /\ \A i \in 0 .. D - 1 : Digit(n, i) = Digit(Cut(n), i)
<1>1. TooLong = {m \in 0 .. MaxKey : Rest[D][m] # 0}
  BY DEF TooLong
<1>2. CASE TooLong = {}
  BY <1>1, <1>2 DEF Cut, Fits
<1>3. CASE TooLong # {}
  <2>1. TooLong \subseteq Nat
    BY <1>1, KeyBoundAssumption
  <2>2. Min(TooLong) \in TooLong /\ \A m \in TooLong : Min(TooLong) <= m
    BY <1>3, <2>1, LeastKey
  <2>3. PICK w : w = Min(TooLong)
    OBVIOUS
  <2>4. IsLeastTooLong(D, w)
    BY <1>1, <2>2, <2>3 DEF IsLeastTooLong
  <2>5. Cut(n) = n % w
    BY <1>3, <2>3 DEF Cut
  <2> QED
    BY <2>4, <2>5, RemainderHasTheDigits
<1> QED
  BY <1>2, <1>3

LEMMA DecomposedFinds ==
  ASSUME Built, NEW start \in 0 .. MaxKey, NEW end \in 0 .. MaxKey
  PROVE  DecomposedLookup(index.digits, start, end) = RowsBetween(Cut(start), Cut(end))
<1> DEFINE D == NumDigits(Max(Keys))
           vecs == index.digits
<1>1. D \in 1 .. MaxKey + 1 /\ \A r \in Rows : Fits(D, KeyOf(r))
  BY DigitsAreEnough
<1>2. IsDecomposed(vecs, D)
  BY DEF Built, NewDecomposed, IsDecomposed
<1>3. /\ Fits(D, Cut(start)) /\ \A i \in 0 .. D - 1 : Digit(start, i) = Digit(Cut(start), i)
      /\ Fits(D, Cut(end)) /\ \A i \in 0 .. D - 1 : Digit(end, i) = Digit(Cut(end), i)
  BY <1>1, CutFits
<1> HIDE DEF D
<1>4. DecomposedLookup(vecs, start, end) = DecomposedLookup(vecs, Cut(start), Cut(end))
  <2>1. /\ Mask(vecs, start, 0) = Mask(vecs, Cut(start), 0)
        /\ \A values : Deciding(vecs, start, values) = Deciding(vecs, Cut(start), values)
    BY <1>2, <1>3, SameDigitsSameRows
  <2>2. /\ Mask(vecs, end, 0) = Mask(vecs, Cut(end), 0)
        /\ \A values : Deciding(vecs, end, values) = Deciding(vecs, Cut(end), values)
    BY <1>2, <1>3, SameDigitsSameRows
  <2> QED
    BY <2>1, <2>2 DEF DecomposedLookup
<1>5. DecomposedLookup(vecs, Cut(start), Cut(end)) = RowsBetween(Cut(start), Cut(end))
  BY <1>1, <1>2, <1>3, FittingBounds
<1> QED
  BY <1>4, <1>5

-----------------------------------------------------------------------------

LEMMA BuiltInitially == BitmapInit => Built
BY ColumnAssumption DEF BitmapInit, Built

LEMMA BuiltStays == Built /\ [BitmapNext]_bitmaps => Built'
<1> SUFFICES ASSUME Built, [BitmapNext]_bitmaps PROVE Built'
  OBVIOUS
<1>1. UNCHANGED <<column, index>>
  BY DEF BitmapNext, RangeLookup, Lookup, NextRowID, bitmaps
<1> QED
  BY <1>1 DEF Built, NewNaive, NewRangeEncoded, NewDecomposed, Keys, Rows, KeyOf

\* The range-encoded index panics when no key is in the range, or none is behind it.
LEMMA RangeEncodedPanics ==
  ASSUME Built, NEW start \in 0 .. MaxKey, NEW end \in 0 .. MaxKey,
         ~RangeEncodedAnswers(index.ranges, start, end)
  PROVE  RowsBetween(start, end) = {} \/ \A r \in Rows : KeyOf(r) <= end
<1>1. DOMAIN index.ranges = Keys
  BY DEF Built, NewRangeEncoded
<1>2. \A r \in Rows : KeyOf(r) \in Keys /\ KeyOf(r) \in Nat
  BY KeysAreNumbers
<1>3. CASE InRange(index.ranges, start, end) = {}
  BY <1>1, <1>2, <1>3 DEF InRange, RowsBetween
<1>4. CASE Behind(index.ranges, end) = {}
  <2>1. \A r \in Rows : ~(KeyOf(r) > end)
    BY <1>1, <1>2, <1>4 DEF Behind
  <2>2. end \in Nat
    BY KeyBoundAssumption
  <2> QED
    BY <1>2, <2>1, <2>2
<1> QED
  BY <1>3, <1>4 DEF RangeEncodedAnswers

LEMMA AnswersExact == Built => IndexesExact
<1> SUFFICES ASSUME Built, NEW start \in 0 .. MaxKey, NEW end \in 0 .. MaxKey
             PROVE  /\ NaiveLookup(index.naive, start, end) = RowsBetween(start, end)
                    /\ RangeEncodedExact(start, end)
                    /\ DecomposedLookup(index.digits, start, end) =
                         RowsBetween(Cut(start), Cut(end))
  BY DEF IndexesExact
<1>1. NaiveLookup(index.naive, start, end) = RowsBetween(start, end)
  BY NaiveExact
<1>2. RangeEncodedExact(start, end)
  BY RangeEncodedFinds, RangeEncodedPanics DEF RangeEncodedExact
<1>3. DecomposedLookup(index.digits, start, end) = RowsBetween(Cut(start), Cut(end))
  BY DecomposedFinds
<1> QED
  BY <1>1, <1>2, <1>3

(***************************************************************************)
(* What every lookup of the three indexes finds, whatever was looked up    *)
(* before and for any two bounds.  The union of bitmaps of the naive index *)
(* is the rows whose key is in the range.  So is one bitmap less another   *)
(* of the range-encoded index, with all the padding bits of a complement   *)
(* in it; it panics only when no key is in the range or none behind it.    *)
(* The comparison digit by digit of the decomposed index is the rows       *)
(* between the bounds cut to the digits of its largest key, which are not  *)
(* those in the range when a bound has more digits.                        *)
(***************************************************************************)
THEOREM LookupsExact == BitmapSpec => []IndexesExact
BY AnswersExact, BuiltInitially, BuiltStays, PTL DEF BitmapSpec

-----------------------------------------------------------------------------
(***************************************************************************)
(* The iterator.                                                           *)
(***************************************************************************)

\* Rows returned are rows, and so is what is left.
FoundTypes ==
  /\ found = [by |-> found.by, bits |-> found.bits, start |-> found.start, end |-> found.end]
  /\ found.by # "panic" \/ (found.bits = {} /\ row_ids = <<>>)
  /\ found.bits \subseteq Rows
  /\ row_ids \in Seq(Rows)

Iterated == Built /\ FoundTypes /\ LookupsAgree

\* What has been returned is in the sequence, and nothing else is.
LEMMA ReturnedRows ==
  ASSUME NEW S, NEW s \in Seq(S), NEW x \in S
  PROVE  /\ Append(s, x) \in Seq(S)
         /\ Len(s) \in Nat
         /\ DOMAIN s = 1 .. Len(s)
         /\ DOMAIN Append(s, x) = 1 .. Len(s) + 1
         /\ \A i \in 1 .. Len(s) : Append(s, x)[i] = s[i] /\ s[i] \in S
         /\ Append(s, x)[Len(s) + 1] = x
         /\ ToSet(Append(s, x)) = ToSet(s) \cup {x}
<1>1. /\ Append(s, x) \in Seq(S)
      /\ Len(s) \in Nat
      /\ DOMAIN s = 1 .. Len(s)
      /\ DOMAIN Append(s, x) = 1 .. Len(s) + 1
      /\ \A i \in 1 .. Len(s) : Append(s, x)[i] = s[i] /\ s[i] \in S
      /\ Append(s, x)[Len(s) + 1] = x
  OBVIOUS
<1>2. \A y : y \in ToSet(s) <=> \E i \in 1 .. Len(s) : s[i] = y
  BY <1>1 DEF ToSet
<1>3. \A y : y \in ToSet(Append(s, x)) <=> \E i \in 1 .. Len(s) + 1 : Append(s, x)[i] = y
  BY <1>1 DEF ToSet
<1>4. \A i : i \in 1 .. Len(s) + 1 <=> i \in 1 .. Len(s) \/ i = Len(s) + 1
  BY <1>1
<1>5. \A y : y \in ToSet(Append(s, x)) <=> y \in ToSet(s) \/ y = x
  BY <1>1, <1>2, <1>3, <1>4
<1>6. ToSet(Append(s, x)) = ToSet(s) \cup {x}
  BY <1>5
<1> QED
  BY <1>1, <1>6

LEMMA IteratedInitially == BitmapInit => Iterated
<1> SUFFICES ASSUME BitmapInit PROVE Iterated
  OBVIOUS
<1>1. Built
  BY BuiltInitially
<1>2. found = NoLookup /\ row_ids = <<>>
  BY DEF BitmapInit
<1>3. FoundTypes
  BY <1>2 DEF FoundTypes, NoLookup
<1>4. Wanted = {}
  <2>1. \A r \in Rows : KeyOf(r) \in Nat
    BY <1>1, KeysAreNumbers
  <2>2. found.by = "none" /\ found.start = 1 /\ found.end = 0
    BY <1>2 DEF NoLookup
  <2> QED
    BY <2>1, <2>2 DEF Wanted, RowsBetween
<1>5. ToSet(row_ids) = {} /\ DOMAIN row_ids = {} /\ found.bits = {} /\ found.by # "panic"
  BY <1>2 DEF ToSet, NoLookup
<1>6. LookupsAgree
  BY <1>4, <1>5 DEF LookupsAgree
<1> QED
  BY <1>1, <1>3, <1>6 DEF Iterated

\* What a lookup owes depends on the column alone, which no call changes.
LEMMA ColumnStays ==
  ASSUME column' = column
  PROVE  /\ Rows' = Rows
         /\ \A r : KeyOf(r)' = KeyOf(r)
         /\ Wanted' = IF found'.by = "digits"
                      THEN RowsBetween(Cut(found'.start), Cut(found'.end))
                      ELSE RowsBetween(found'.start, found'.end)
         /\ RowsBetween(found.start, found.end)' = RowsBetween(found'.start, found'.end)
<1>1. Rows' = Rows /\ \A r : KeyOf(r)' = KeyOf(r)
  BY DEF Rows, KeyOf
<1>2. Keys' = Keys
  BY <1>1 DEF Keys
<1>3. TooLong' = TooLong
  BY <1>2 DEF TooLong
<1>4. Wanted' = IF found'.by = "digits"
                THEN RowsBetween(Cut(found'.start), Cut(found'.end))
                ELSE RowsBetween(found'.start, found'.end)
  BY <1>1, <1>3 DEF Wanted, RowsBetween, Cut
<1>5. RowsBetween(found.start, found.end)' = RowsBetween(found'.start, found'.end)
  BY <1>1 DEF RowsBetween
<1> QED
  BY <1>1, <1>4, <1>5

\* A lookup starts with all the rows it owes, or panics with none.
LEMMA LookupAgrees ==
  ASSUME Iterated, RangeLookup
  PROVE  FoundTypes' /\ LookupsAgree'
<1>1. PICK start \in 0 .. MaxKey, end \in 0 .. MaxKey :
        \/ Lookup("naive", NaiveLookup(index.naive, start, end), start, end)
        \/ /\ RangeEncodedAnswers(index.ranges, start, end)
           /\ Lookup("ranges", RangeEncodedLookup(index.ranges, start, end), start, end)
        \/ /\ ~RangeEncodedAnswers(index.ranges, start, end)
           /\ Lookup("panic", {}, start, end)
        \/ Lookup("digits", DecomposedLookup(index.digits, start, end), start, end)
  BY DEF RangeLookup
<1>2. /\ NaiveLookup(index.naive, start, end) = RowsBetween(start, end)
      /\ RangeEncodedExact(start, end)
      /\ DecomposedLookup(index.digits, start, end) = RowsBetween(Cut(start), Cut(end))
  BY AnswersExact DEF Iterated, IndexesExact
<1>3. \/ Lookup("naive", RowsBetween(start, end), start, end)
      \/ Lookup("ranges", RowsBetween(start, end), start, end)
      \/ /\ RowsBetween(start, end) = {} \/ \A r \in Rows : KeyOf(r) <= end
         /\ Lookup("panic", {}, start, end)
      \/ Lookup("digits", RowsBetween(Cut(start), Cut(end)), start, end)
  BY <1>1, <1>2 DEF RangeEncodedExact
<1>4. row_ids' = <<>> /\ column' = column /\ found'.start = start /\ found'.end = end
  BY <1>3 DEF Lookup
<1>5. /\ found' = [by |-> found'.by, bits |-> found'.bits, start |-> found'.start, end |-> found'.end]
      /\ \/ found'.by # "panic" /\ found'.by # "digits" /\ found'.bits = RowsBetween(start, end)
         \/ found'.by = "digits" /\ found'.bits = RowsBetween(Cut(start), Cut(end))
         \/ /\ found'.by = "panic" /\ found'.bits = {}
            /\ RowsBetween(start, end) = {} \/ \A r \in Rows : KeyOf(r) <= end
  BY <1>3 DEF Lookup
<1>6. /\ Rows' = Rows
      /\ \A r : KeyOf(r)' = KeyOf(r)
      /\ Wanted' = IF found'.by = "digits" THEN RowsBetween(Cut(start), Cut(end))
                                           ELSE RowsBetween(start, end)
      /\ RowsBetween(found.start, found.end)' = RowsBetween(start, end)
  BY <1>4, ColumnStays
<1>7. FoundTypes'
  <2>1. \A a, b : RowsBetween(a, b) \subseteq Rows
    BY DEF RowsBetween
  <2>2. found'.bits \subseteq Rows'
    BY <1>5, <1>6, <2>1
  <2>3. row_ids' \in Seq(Rows')
    BY <1>4
  <2> QED
    BY <1>4, <1>5, <2>2, <2>3 DEF FoundTypes
<1>8. ToSet(row_ids)' = {} /\ DOMAIN row_ids' = {}
  BY <1>4 DEF ToSet
<1>9. CASE found'.by = "panic"
  <2>1. RowsBetween(start, end) = {} \/ \A r \in Rows : KeyOf(r) <= end
    BY <1>5, <1>9
  <2>2. RowsBetween(found.start, found.end)' = {} \/ \A r \in Rows' : KeyOf(r)' <= found'.end
    BY <1>4, <1>6, <2>1
  <2>3. LookupsAgree'
    BY <1>8, <1>9, <2>2 DEF LookupsAgree
  <2> QED
    BY <1>7, <2>3
<1>10. CASE found'.by # "panic"
  <2>1. found'.bits = Wanted'
    BY <1>5, <1>6, <1>10
  <2>2. (ToSet(row_ids) \cup found.bits)' = Wanted'
    BY <1>8, <2>1
  <2>3. LookupsAgree'
    BY <1>8, <1>10, <2>2 DEF LookupsAgree
  <2> QED
    BY <1>7, <2>3
<1> QED
  BY <1>7, <1>9, <1>10

\* The lowest row that is left moves to the end of those returned.
LEMMA NextAgrees ==
  ASSUME Iterated, NextRowID
  PROVE  FoundTypes' /\ LookupsAgree'
<1> DEFINE low == Min(found.bits)
<1>1. /\ found.bits # {}
      /\ row_ids' = Append(row_ids, low)
      /\ found' = [found EXCEPT !.bits = found.bits \ {low}]
      /\ column' = column
  BY DEF NextRowID
<1>2. /\ found = [by |-> found.by, bits |-> found.bits, start |-> found.start, end |-> found.end]
      /\ found.by # "panic"
      /\ found.bits \subseteq Rows
      /\ row_ids \in Seq(Rows)
  BY <1>1 DEF Iterated, FoundTypes
<1>3. Rows \subseteq Nat
  BY KeysAreNumbers DEF Iterated
<1>4. low \in found.bits /\ \A r \in found.bits : low <= r
  BY <1>1, <1>2, <1>3, LeastKey
<1>5. /\ ToSet(row_ids) \cup found.bits = Wanted
      /\ \A i, j \in DOMAIN row_ids : i < j => row_ids[i] < row_ids[j]
      /\ \A i \in DOMAIN row_ids, r \in found.bits : row_ids[i] < r
  BY <1>2 DEF Iterated, LookupsAgree
<1> HIDE DEF low
<1>6. /\ found' = [by |-> found.by, bits |-> found.bits \ {low},
                   start |-> found.start, end |-> found.end]
      /\ found'.by = found.by
      /\ found'.bits = found.bits \ {low}
      /\ found'.start = found.start
      /\ found'.end = found.end
  BY <1>1, <1>2
<1>7. Rows' = Rows /\ Wanted' = Wanted
  BY <1>1, <1>6, ColumnStays DEF Wanted
<1>8. /\ Append(row_ids, low) \in Seq(Rows)
      /\ Len(row_ids) \in Nat
      /\ DOMAIN row_ids = 1 .. Len(row_ids)
      /\ DOMAIN Append(row_ids, low) = 1 .. Len(row_ids) + 1
      /\ \A i \in 1 .. Len(row_ids) : Append(row_ids, low)[i] = row_ids[i] /\ row_ids[i] \in Rows
      /\ Append(row_ids, low)[Len(row_ids) + 1] = low
      /\ ToSet(Append(row_ids, low)) = ToSet(row_ids) \cup {low}
  BY <1>2, <1>4, ReturnedRows
<1>9. FoundTypes'
  <2>1. found.bits \ {low} \subseteq Rows
    BY <1>2
  <2> QED
    BY <1>1, <1>2, <1>6, <1>7, <1>8, <2>1 DEF FoundTypes
<1>10. ToSet(row_ids') \cup found'.bits = Wanted
  BY <1>1, <1>4, <1>5, <1>6, <1>8
<1>11. ASSUME NEW i \in DOMAIN row_ids', NEW j \in DOMAIN row_ids', i < j
       PROVE  row_ids'[i] < row_ids'[j]
  <2>1. i \in 1 .. Len(row_ids) /\ j \in 1 .. Len(row_ids) + 1
    BY <1>1, <1>8, <1>11
  <2>2. CASE j = Len(row_ids) + 1
    BY <1>1, <1>4, <1>5, <1>8, <2>1, <2>2
  <2>3. CASE j # Len(row_ids) + 1
    <3>1. j \in 1 .. Len(row_ids)
      BY <1>8, <2>1, <2>3
    <3> QED
      BY <1>1, <1>5, <1>8, <1>11, <2>1, <3>1
  <2> QED
    BY <2>2, <2>3
<1>12. ASSUME NEW i \in DOMAIN row_ids', NEW r \in found'.bits
       PROVE  row_ids'[i] < r
  <2>1. r \in found.bits /\ r # low /\ r \in Nat /\ low \in Nat /\ low <= r
    BY <1>2, <1>3, <1>4, <1>6
  <2>2. CASE i = Len(row_ids) + 1
    BY <1>1, <1>8, <2>1, <2>2
  <2>3. CASE i # Len(row_ids) + 1
    <3>1. i \in 1 .. Len(row_ids)
      BY <1>1, <1>8, <2>3
    <3> QED
      BY <1>1, <1>5, <1>8, <2>1, <3>1
  <2> QED
    BY <2>2, <2>3
<1>13. LookupsAgree'
  BY <1>2, <1>6, <1>7, <1>10, <1>11, <1>12 DEF LookupsAgree
<1> QED
  BY <1>9, <1>13

LEMMA IteratedStays == Iterated /\ [BitmapNext]_bitmaps => Iterated'
<1> SUFFICES ASSUME Iterated, [BitmapNext]_bitmaps PROVE Iterated'
  OBVIOUS
<1>1. Built'
  BY BuiltStays DEF Iterated
<1>2. CASE RangeLookup
  BY <1>1, <1>2, LookupAgrees DEF Iterated
<1>3. CASE NextRowID
  BY <1>1, <1>3, NextAgrees DEF Iterated
<1>4. CASE UNCHANGED bitmaps
  <2>1. column' = column /\ found' = found /\ row_ids' = row_ids
    BY <1>4 DEF bitmaps
  <2>2. /\ Rows' = Rows /\ \A r : KeyOf(r)' = KeyOf(r)
        /\ Wanted' = Wanted
        /\ RowsBetween(found.start, found.end)' = RowsBetween(found.start, found.end)
    BY <2>1, ColumnStays DEF Wanted
  <2>3. FoundTypes'
    BY <2>1, <2>2 DEF Iterated, FoundTypes
  <2>4. LookupsAgree'
    BY <2>1, <2>2 DEF Iterated, LookupsAgree
  <2> QED
    BY <1>1, <2>3, <2>4 DEF Iterated
<1> QED
  BY <1>2, <1>3, <1>4 DEF BitmapNext

(***************************************************************************)
(* After any calls, the rows the iterator has returned and those it still  *)
(* has are the rows between the bounds of the last lookup, cut to the      *)
(* digits of the largest key when the decomposed index was asked; they     *)
(* come in ascending order, each once, and no padding bit behind the last  *)
(* row is among them.  The range-encoded index has panicked only if no key *)
(* was in the range or none behind it.                                     *)
(***************************************************************************)
THEOREM LookupsAgreeAlways == BitmapSpec => []LookupsAgree
<1>1. Iterated => LookupsAgree
  BY DEF Iterated
<1> QED
  BY <1>1, IteratedInitially, IteratedStays, PTL DEF BitmapSpec

=============================================================================
