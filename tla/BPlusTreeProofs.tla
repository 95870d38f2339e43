---------------------------- MODULE BPlusTreeProofs ----------------------------
(***************************************************************************)
(* Proofs about BPlusTree for any keys, requests and capacities.           *)
(*                                                                         *)
(* While a split is on its way up, a page is missing from the tree: its    *)
(* parent has no entry for it yet.  The invariant is therefore stated      *)
(* about the tree that the next page above would complete, whatever its    *)
(* capacity.  Every page of it has a scope, the keys whose way from the    *)
(* root leads to it, and a height.                                         *)
(*                                                                         *)
(* The links between the leaves have an invariant of their own, Chain:     *)
(* they lead from leaf to leaf in the order of the keys.                   *)
(***************************************************************************)
EXTENDS BPlusTree, FiniteSetTheorems, SequenceTheorems, WellFoundedInduction, TLAPS

-----------------------------------------------------------------------------
(***************************************************************************)
(* Slots.                                                                  *)
(***************************************************************************)

Entry == [key : Key \cup {DefaultKey}, value : Rid \cup Nat]

\* Keys 1 to n are in order.
Ordered(records, n) == \A i, j \in 1 .. n : i < j => records[i].key < records[j].key

LEMMA KeysAreNumbers == Key \cup {DefaultKey} \subseteq Int
BY KeyAssumption DEF DefaultKey

LEMMA KeyOfEntry ==
  ASSUME NEW records \in Seq(Entry), NEW i \in 1 .. Len(records)
  PROVE  records[i].key \in Int /\ records[i].key \in Key \cup {DefaultKey}
<1>1. records[i] \in Entry
  BY ElementOfSeq
<1> QED
  BY <1>1, KeysAreNumbers DEF Entry

\* A set of numbers has a least one.
LEMMA LeastNumber ==
  ASSUME NEW S \in SUBSET Nat, S # {}
  PROVE  \E x \in S : \A y \in S : x <= y
<1>1. PICK x \in S : \A y \in S : ~(<<y, x>> \in OpToRel(<, Nat))
  BY WFMin, NatLessThanWellFounded
<1>2. \A y \in S : ~(y < x)
  BY <1>1, Zenon DEF OpToRel
<1> QED
  BY <1>2

\* A part of 1 .. n that has all numbers below its members is as long as it is large.
LEMMA InitialPart ==
  ASSUME NEW n \in Nat, NEW D \in SUBSET (1 .. n),
         \A i \in D : \A j \in 1 .. i : j \in D
  PROVE  /\ Cardinality(D) \in 0 .. n
         /\ D = 1 .. Cardinality(D)
<1> DEFINE Out == {i \in 1 .. n + 1 : i \notin D}
<1>1. n + 1 \in Out /\ Out \in SUBSET Nat
  OBVIOUS
<1>2. PICK k \in Out : \A j \in Out : k <= j
  BY <1>1, LeastNumber
<1>3. k \in 1 .. n + 1 /\ k \notin D
  BY <1>2
<1>4. \A j \in 1 .. k - 1 : j \in D
  BY <1>2, <1>3
<1>5. ASSUME NEW i \in D PROVE i \in 1 .. k - 1
  <2>1. i \in 1 .. n
    OBVIOUS
  <2>2. ~(k <= i)
    BY <1>3, <1>5, <2>1
  <2> QED
    BY <1>3, <2>1, <2>2
<1>6. D = 1 .. k - 1
  BY <1>4, <1>5
<1>7. Cardinality(1 .. (k - 1)) = IF 1 > k - 1 THEN 0 ELSE (k - 1) - 1 + 1
  BY <1>3, FS_Interval
<1>8. Cardinality(D) = k - 1
  BY <1>3, <1>6, <1>7
<1> QED
  BY <1>3, <1>6, <1>8

\* The child of a key: the keys between children that are no larger are before it.
LEMMA ChildIs ==
  ASSUME NEW records \in Seq(Entry), records # <<>>, Ordered(records, Len(records) - 1),
         NEW key \in Int
  PROVE  /\ Child(records, key) \in 1 .. Len(records)
         /\ \A i \in 1 .. Len(records) - 1 :
              records[i].key <= key <=> i < Child(records, key)
<1> DEFINE n == Len(records) - 1
           D == {i \in 1 .. n : records[i].key <= key}
<1>1. Len(records) \in Nat \ {0} /\ n \in Nat
  BY EmptySeq
<1>2. \A i \in 1 .. n : records[i].key \in Int
  BY <1>1, KeyOfEntry
<1>3. \A i \in D : \A j \in 1 .. i : j \in D
  <2> SUFFICES ASSUME NEW i \in D, NEW j \in 1 .. i, j # i PROVE j \in D
    OBVIOUS
  <2>1. i \in 1 .. n /\ j \in 1 .. n /\ j < i /\ records[i].key <= key
    BY <1>1
  <2>2. records[j].key < records[i].key
    BY <2>1 DEF Ordered
  <2> QED
    BY <1>2, <2>1, <2>2
<1>4. D \in SUBSET (1 .. n)
  OBVIOUS
<1> HIDE DEF n, D
<1>5. Cardinality(D) \in 0 .. n /\ D = 1 .. Cardinality(D)
  BY <1>1, <1>3, <1>4, InitialPart
<1>6. Child(records, key) = 1 + Cardinality(D)
  BY DEF Child, D, n
<1>7. \A i \in 1 .. n : records[i].key <= key <=> i \in 1 .. Cardinality(D)
  BY <1>5 DEF D
<1>8. Child(records, key) \in 1 .. Len(records)
  BY <1>1, <1>5, <1>6 DEF n
<1>9. \A i \in 1 .. n : records[i].key <= key <=> i < Child(records, key)
  <2> TAKE i \in 1 .. n
  <2>1. i \in 1 .. Cardinality(D) <=> i < Child(records, key)
    BY <1>1, <1>5, <1>6
  <2> QED
    BY <1>7, <2>1
<1> QED
  BY <1>8, <1>9 DEF n

\* It is the only slot of which this is true.
LEMMA ChildOnly ==
  ASSUME NEW records \in Seq(Entry), records # <<>>, Ordered(records, Len(records) - 1),
         NEW key \in Int, NEW c \in 1 .. Len(records),
         \A i \in 1 .. Len(records) - 1 : records[i].key <= key <=> i < c
  PROVE  Child(records, key) = c
<1> DEFINE d == Child(records, key)
<1>1. /\ d \in 1 .. Len(records)
      /\ \A i \in 1 .. Len(records) - 1 : records[i].key <= key <=> i < d
  BY ChildIs
<1>2. Len(records) \in Nat
  BY LenProperties
<1> HIDE DEF d
<1>3. ~(c < d)
  <2> SUFFICES ASSUME c < d PROVE FALSE
    OBVIOUS
  <2>1. c \in 1 .. Len(records) - 1
    BY <1>1, <1>2
  <2> QED
    BY <1>1, <2>1
<1>4. ~(d < c)
  <2> SUFFICES ASSUME d < c PROVE FALSE
    OBVIOUS
  <2>1. d \in 1 .. Len(records) - 1
    BY <1>1, <1>2
  <2> QED
    BY <1>1, <2>1
<1> QED
  BY <1>1, <1>2, <1>3, <1>4 DEF d

\* The slot of a key in a leaf: the keys before it are the smaller ones.
LEMMA SlotIs ==
  ASSUME NEW records \in Seq(Entry), Ordered(records, Len(records)), NEW key \in Int
  PROVE  /\ Slot(records, key) \in 1 .. Len(records) + 1
         /\ \A i \in 1 .. Len(records) :
              /\ records[i].key < key <=> i < Slot(records, key)
              /\ records[i].key = key => i = Slot(records, key)
<1> DEFINE n == Len(records)
           D == {i \in 1 .. n : records[i].key < key}
<1>1. n \in Nat /\ DOMAIN records = 1 .. n
  BY LenProperties
<1>2. \A i \in 1 .. n : records[i].key \in Int
  BY <1>1, KeyOfEntry
<1>3. \A i \in D : \A j \in 1 .. i : j \in D
  <2> SUFFICES ASSUME NEW i \in D, NEW j \in 1 .. i, j # i PROVE j \in D
    OBVIOUS
  <2>1. i \in 1 .. n /\ j \in 1 .. n /\ j < i /\ records[i].key < key
    BY <1>1
  <2>2. records[j].key < records[i].key
    BY <2>1 DEF Ordered
  <2> QED
    BY <1>2, <2>1, <2>2
<1>4. D \in SUBSET (1 .. n)
  OBVIOUS
<1>5. Slot(records, key) = 1 + Cardinality(D)
  BY <1>1 DEF Slot
<1>6. Ordered(records, n)
  OBVIOUS
<1> HIDE DEF n, D
<1>7. Cardinality(D) \in 0 .. n /\ D = 1 .. Cardinality(D)
  BY <1>1, <1>3, <1>4, InitialPart
<1>8. \A i \in 1 .. n : records[i].key < key <=> i \in 1 .. Cardinality(D)
  BY <1>7 DEF D
<1>9. \A i \in 1 .. n : records[i].key < key <=> i < Slot(records, key)
  <2> TAKE i \in 1 .. n
  <2>1. i \in 1 .. Cardinality(D) <=> i < Slot(records, key)
    BY <1>1, <1>5, <1>7
  <2> QED
    BY <1>8, <2>1
<1>10. Slot(records, key) \in 1 .. n + 1
  BY <1>1, <1>5, <1>7
<1>11. ASSUME NEW i \in 1 .. n, records[i].key = key PROVE i = Slot(records, key)
  <2>1. ~(i < Slot(records, key))
    BY <1>2, <1>9, <1>11
  <2>2. ~(Slot(records, key) < i)
    <3> SUFFICES ASSUME Slot(records, key) < i PROVE FALSE
      OBVIOUS
    <3>1. Slot(records, key) \in 1 .. n
      BY <1>1, <1>10
    <3>2. records[Slot(records, key)].key < key
      BY <1>6, <1>11, <3>1 DEF Ordered
    <3> QED
      BY <1>1, <1>9, <1>10, <3>1, <3>2
  <2> QED
    BY <1>1, <1>10, <2>1, <2>2
<1> QED
  BY <1>9, <1>10, <1>11 DEF n

-----------------------------------------------------------------------------
(***************************************************************************)
(* Records after an insert, slot by slot.                                  *)
(***************************************************************************)

\* The records of a leaf with a new one in slot i.
Inserted(all, s, i, e) ==
  /\ all \in Seq(Entry)
  /\ Len(all) = Len(s) + 1
  /\ \A j \in 1 .. Len(s) + 1 :
       all[j] = IF j < i THEN s[j] ELSE IF j = i THEN e ELSE s[j - 1]

LEMMA InsertIs ==
  ASSUME NEW s \in Seq(Entry), NEW e \in Entry, NEW i \in 1 .. Len(s) + 1
  PROVE  Inserted(InsertAt(s, i, e), s, i, e)
<1> DEFINE n == Len(s)
           before == SubSeq(s, 1, i - 1)
           after == SubSeq(s, i, n)
<1>1. n \in Nat /\ \A j \in 1 .. n : s[j] \in Entry
  BY LenProperties, ElementOfSeq
<1>2. /\ before \in Seq(Entry)
      /\ Len(before) = i - 1
      /\ \A j \in 1 .. i - 1 : before[j] = s[j]
  <2>1. \A j \in 1 .. (i - 1) : s[j] \in Entry
    BY <1>1
  <2>2. 1 \in Int /\ i - 1 \in Int
    BY <1>1
  <2>3. /\ before \in Seq(Entry)
        /\ Len(before) = IF 1 <= i - 1 THEN (i - 1) - 1 + 1 ELSE 0
        /\ \A j \in 1 .. (i - 1) - 1 + 1 : before[j] = s[1 + j - 1]
    BY <2>1, <2>2, SubSeqProperties
  <2> QED
    BY <1>1, <2>3
<1>3. /\ after \in Seq(Entry)
      /\ Len(after) = n - i + 1
      /\ \A j \in 1 .. n - i + 1 : after[j] = s[i + j - 1]
  <2>1. \A j \in i .. n : s[j] \in Entry
    BY <1>1
  <2>2. i \in Int /\ n \in Int
    BY <1>1
  <2>3. /\ after \in Seq(Entry)
        /\ Len(after) = IF i <= n THEN n - i + 1 ELSE 0
        /\ \A j \in 1 .. n - i + 1 : after[j] = s[i + j - 1]
    BY <2>1, <2>2, SubSeqProperties
  <2> QED
    BY <1>1, <2>3
<1>4. <<e>> \in Seq(Entry) /\ Len(<<e>>) = 1 /\ <<e>>[1] = e
  OBVIOUS
<1> DEFINE front == before \o <<e>>
<1>5. InsertAt(s, i, e) = front \o after
  BY DEF InsertAt
<1> HIDE DEF before, after
<1>6. /\ front \in Seq(Entry)
      /\ Len(front) = i
      /\ \A j \in 1 .. i : front[j] = IF j <= i - 1 THEN before[j] ELSE <<e>>[j - (i - 1)]
  <2>1. /\ front \in Seq(Entry)
        /\ Len(front) = Len(before) + Len(<<e>>)
        /\ \A j \in 1 .. Len(before) + Len(<<e>>) :
             front[j] = IF j <= Len(before) THEN before[j] ELSE <<e>>[j - Len(before)]
    BY <1>2, <1>4, ConcatProperties
  <2> QED
    BY <1>1, <1>2, <1>4, <2>1
<1> HIDE DEF front
<1>7. /\ front \o after \in Seq(Entry)
      /\ Len(front \o after) = Len(front) + Len(after)
      /\ \A j \in 1 .. Len(front) + Len(after) :
           (front \o after)[j] = IF j <= Len(front) THEN front[j] ELSE after[j - Len(front)]
  BY <1>3, <1>6, ConcatProperties
<1>8. Len(front) + Len(after) = n + 1
  BY <1>1, <1>3, <1>6
<1>9. \A j \in 1 .. n + 1 :
        (front \o after)[j] = IF j < i THEN s[j] ELSE IF j = i THEN e ELSE s[j - 1]
  <2> TAKE j \in 1 .. n + 1
  <2>1. (front \o after)[j] = IF j <= i THEN front[j] ELSE after[j - i]
    BY <1>6, <1>7, <1>8
  <2>2. CASE j < i
    <3>1. j \in 1 .. i /\ j \in 1 .. i - 1
      BY <1>1, <2>2
    <3> QED
      BY <1>1, <1>2, <1>6, <2>1, <2>2, <3>1
  <2>3. CASE j = i
    <3>1. i \in 1 .. i /\ i - (i - 1) = 1 /\ ~(i <= i - 1)
      BY <1>1
    <3> QED
      BY <1>1, <1>4, <1>6, <2>1, <2>3, <3>1
  <2>4. CASE j > i
    <3>1. j - i \in 1 .. n - i + 1 /\ i + (j - i) - 1 = j - 1
      BY <1>1, <2>4
    <3>2. after[j - i] = s[j - 1]
      BY <1>3, <3>1
    <3> QED
      BY <1>1, <2>1, <2>4, <3>2
  <2>5. j \in Int /\ i \in Int
    BY <1>1
  <2>6. j < i \/ j = i \/ j > i
    BY <2>5
  <2> QED
    BY <2>2, <2>3, <2>4, <2>6
<1> QED
  BY <1>5, <1>7, <1>8, <1>9 DEF n, Inserted

\* The records of an inner page with a further child behind child i.
Widened(wide, records, i, key, child) ==
  /\ wide \in Seq(Entry)
  /\ Len(wide) = Len(records) + 1
  /\ \A j \in 1 .. Len(records) + 1 :
       wide[j] = IF j < i THEN records[j]
                 ELSE IF j = i THEN Record(key, records[i].value)
                 ELSE IF j = i + 1 THEN Record(records[i].key, child)
                 ELSE records[j - 1]

LEMMA WithChildIs ==
  ASSUME NEW records \in Seq(Entry), NEW key \in Key, NEW child \in Nat,
         Child(records, key) \in 1 .. Len(records)
  PROVE  Widened(WithChild(records, key, child), records, Child(records, key), key, child)
<1> DEFINE n == Len(records)
           i == Child(records, key)
           before == SubSeq(records, 1, i - 1)
           after == SubSeq(records, i + 1, n)
           two == <<Record(key, records[i].value), Record(records[i].key, child)>>
<1>1. n \in Nat /\ i \in 1 .. n /\ \A j \in 1 .. n : records[j] \in Entry
  BY LenProperties, ElementOfSeq
<1>0. WithChild(records, key, child) = (before \o two) \o after
  BY DEF WithChild
<1> HIDE DEF i
<1>2. /\ before \in Seq(Entry)
      /\ Len(before) = i - 1
      /\ \A j \in 1 .. i - 1 : before[j] = records[j]
  <2>1. \A j \in 1 .. (i - 1) : records[j] \in Entry
    BY <1>1
  <2>2. 1 \in Int /\ i - 1 \in Int
    BY <1>1
  <2>3. /\ before \in Seq(Entry)
        /\ Len(before) = IF 1 <= i - 1 THEN (i - 1) - 1 + 1 ELSE 0
        /\ \A j \in 1 .. (i - 1) - 1 + 1 : before[j] = records[1 + j - 1]
    BY <2>1, <2>2, SubSeqProperties
  <2> QED
    BY <1>1, <2>3
<1>3. /\ after \in Seq(Entry)
      /\ Len(after) = n - i
      /\ \A j \in 1 .. n - i : after[j] = records[i + j]
  <2>1. \A j \in i + 1 .. n : records[j] \in Entry
    BY <1>1
  <2>2. i + 1 \in Int /\ n \in Int
    BY <1>1
  <2>3. /\ after \in Seq(Entry)
        /\ Len(after) = IF i + 1 <= n THEN n - (i + 1) + 1 ELSE 0
        /\ \A j \in 1 .. n - (i + 1) + 1 : after[j] = records[(i + 1) + j - 1]
    BY <2>1, <2>2, SubSeqProperties
  <2>5. \A j \in 1 .. n - i : after[j] = records[i + j]
    <3> TAKE j \in 1 .. n - i
    <3>1. j \in 1 .. n - (i + 1) + 1 /\ (i + 1) + j - 1 = i + j
      BY <1>1
    <3> QED
      BY <2>3, <3>1
  <2>6. Len(after) = n - i
    BY <1>1, <2>3
  <2> QED
    BY <2>3, <2>5, <2>6
<1>4. /\ two \in Seq(Entry) /\ Len(two) = 2
      /\ two[1] = Record(key, records[i].value)
      /\ two[2] = Record(records[i].key, child)
  <2>1. Record(key, records[i].value) \in Entry /\ Record(records[i].key, child) \in Entry
    BY <1>1 DEF Entry, Record
  <2> QED
    BY <2>1
<1> DEFINE front == before \o two
<1> HIDE DEF before, after, two
<1>6. /\ front \in Seq(Entry)
      /\ Len(front) = i + 1
      /\ \A j \in 1 .. i + 1 : front[j] = IF j <= i - 1 THEN before[j] ELSE two[j - (i - 1)]
  <2>1. /\ front \in Seq(Entry)
        /\ Len(front) = Len(before) + Len(two)
        /\ \A j \in 1 .. Len(before) + Len(two) :
             front[j] = IF j <= Len(before) THEN before[j] ELSE two[j - Len(before)]
    BY <1>2, <1>4, ConcatProperties
  <2>2. Len(before) + Len(two) = i + 1
    BY <1>1, <1>2, <1>4
  <2> QED
    BY <1>2, <2>1, <2>2
<1> HIDE DEF front
<1>7. /\ front \o after \in Seq(Entry)
      /\ Len(front \o after) = Len(front) + Len(after)
      /\ \A j \in 1 .. Len(front) + Len(after) :
           (front \o after)[j] = IF j <= Len(front) THEN front[j] ELSE after[j - Len(front)]
  BY <1>3, <1>6, ConcatProperties
<1>8. Len(front) + Len(after) = n + 1
  BY <1>1, <1>3, <1>6
<1>9. \A j \in 1 .. n + 1 :
        (front \o after)[j] = IF j < i THEN records[j]
                              ELSE IF j = i THEN Record(key, records[i].value)
                              ELSE IF j = i + 1 THEN Record(records[i].key, child)
                              ELSE records[j - 1]
  <2> TAKE j \in 1 .. n + 1
  <2>1. (front \o after)[j] = IF j <= i + 1 THEN front[j] ELSE after[j - (i + 1)]
    BY <1>6, <1>7, <1>8
  <2>2. CASE j < i
    <3>1. j \in 1 .. i + 1 /\ j \in 1 .. i - 1 /\ j <= i - 1 /\ j <= i + 1
      BY <1>1, <2>2
    <3>2. front[j] = before[j]
      BY <1>6, <3>1
    <3> QED
      BY <1>2, <2>1, <2>2, <3>1, <3>2
  <2>3. CASE j = i
    <3>1. i \in 1 .. i + 1 /\ i - (i - 1) = 1 /\ ~(i <= i - 1) /\ i <= i + 1 /\ ~(i < i)
      BY <1>1
    <3>2. front[i] = two[1]
      BY <1>6, <3>1
    <3> QED
      BY <1>4, <2>1, <2>3, <3>1, <3>2
  <2>4. CASE j = i + 1
    <3>1. j \in 1 .. i + 1 /\ j - (i - 1) = 2 /\ ~(j <= i - 1) /\ j <= i + 1 /\ ~(j < i) /\ j # i
      BY <1>1, <2>4
    <3>2. front[j] = two[2]
      BY <1>6, <3>1
    <3> QED
      BY <1>4, <2>1, <2>4, <3>1, <3>2
  <2>5. CASE j > i + 1
    <3>1. j - (i + 1) \in 1 .. n - i /\ i + (j - (i + 1)) = j - 1 /\ ~(j <= i + 1) /\ ~(j < i) /\ j # i
      BY <1>1, <2>5
    <3>2. after[j - (i + 1)] = records[j - 1]
      BY <1>3, <3>1
    <3> QED
      BY <2>1, <2>5, <3>1, <3>2
  <2>6. j \in Int /\ i \in Int
    BY <1>1
  <2>7. j < i \/ j = i \/ j = i + 1 \/ j > i + 1
    BY <2>6
  <2> QED
    BY <2>2, <2>3, <2>4, <2>5, <2>7
<1>10. WithChild(records, key, child) = front \o after
  BY <1>0 DEF front
<1> QED
  BY <1>7, <1>8, <1>9, <1>10 DEF n, i, Widened

-----------------------------------------------------------------------------
(***************************************************************************)
(* A page and the set of keys it is responsible for.                       *)
(***************************************************************************)

Page == [leaf : BOOLEAN, records : Seq(Entry), right : Nat]

\* The last key of an inner page is dead.
NumKeys(page) == IF page.leaf THEN Len(page.records) ELSE Len(page.records) - 1

NodeOK(page, S) ==
  /\ \A i \in 1 .. NumKeys(page) : page.records[i].key \in S
  /\ Ordered(page.records, NumKeys(page))
  /\ page.leaf \/ page.records # <<>>

\* What of S belongs to child i.
Region(records, S, i) == {k \in S : Child(records, k) = i}

Lower(S, s) == {k \in S : k < s}
Upper(S, s) == {k \in S : s <= k}

\* Low has the first m records of page, high the rest.
Cut(page, low, high, m) ==
  /\ low.leaf = page.leaf /\ high.leaf = page.leaf
  /\ m \in 1 .. Len(page.records) - 1
  /\ Len(low.records) = m
  /\ Len(high.records) = Len(page.records) - m
  /\ \A i \in 1 .. m : low.records[i] = page.records[i]
  /\ \A i \in 1 .. Len(page.records) - m : high.records[i] = page.records[m + i]

LEMMA LeafCut ==
  ASSUME NEW page \in Page, NEW low \in Page, NEW high \in Page, page.leaf,
         NEW S \in SUBSET Int, NodeOK(page, S), NEW m, Cut(page, low, high, m)
  PROVE  LET s == page.records[m + 1].key IN
         /\ s \in S /\ \E k \in S : k < s
         /\ NodeOK(low, Lower(S, s)) /\ NodeOK(high, Upper(S, s))
<1> DEFINE n == Len(page.records)
           s == page.records[m + 1].key
<1>1. /\ n \in Nat /\ m \in 1 .. n - 1
      /\ NumKeys(page) = n /\ NumKeys(low) = m /\ NumKeys(high) = n - m
      /\ low.leaf /\ high.leaf
  BY LenProperties DEF Cut, NumKeys, Page
<1>2. \A i \in 1 .. n : page.records[i].key \in S /\ page.records[i].key \in Int
  BY <1>1 DEF NodeOK
<1>3. \A i, j \in 1 .. n : i < j => page.records[i].key < page.records[j].key
  BY <1>1 DEF NodeOK, Ordered
<1>4. /\ \A i \in 1 .. m : low.records[i].key = page.records[i].key
      /\ \A i \in 1 .. n - m : high.records[i].key = page.records[m + i].key
  BY DEF Cut
<1>5. s \in S /\ s \in Int
  BY <1>1, <1>2
<1>6. \A i \in 1 .. m : i \in 1 .. n /\ page.records[i].key < s
  <2> TAKE i \in 1 .. m
  <2>1. i \in 1 .. n /\ m + 1 \in 1 .. n /\ i < m + 1
    BY <1>1
  <2> QED
    BY <1>3, <2>1
<1>7. \A i \in 1 .. n - m : m + i \in 1 .. n /\ s <= page.records[m + i].key
  <2> TAKE i \in 1 .. n - m
  <2>1. m + i \in 1 .. n /\ m + 1 \in 1 .. n /\ (m + 1 < m + i \/ i = 1)
    BY <1>1
  <2>2. s < page.records[m + i].key \/ s = page.records[m + i].key
    BY <1>3, <2>1
  <2> QED
    BY <1>2, <1>5, <2>1, <2>2
<1> HIDE DEF s, n
<1>8. \E k \in S : k < s
  <2>1. 1 \in 1 .. m
    BY <1>1
  <2> QED
    BY <1>2, <1>6, <2>1
<1>9. NodeOK(low, Lower(S, s))
  <2>1. \A i \in 1 .. m : low.records[i].key \in Lower(S, s)
    BY <1>2, <1>4, <1>6 DEF Lower
  <2>2. Ordered(low.records, m)
    BY <1>3, <1>4, <1>6 DEF Ordered
  <2> QED
    BY <1>1, <2>1, <2>2 DEF NodeOK
<1>10. NodeOK(high, Upper(S, s))
  <2>1. \A i \in 1 .. n - m : high.records[i].key \in Upper(S, s)
    BY <1>2, <1>4, <1>7 DEF Upper
  <2>2. Ordered(high.records, n - m)
    <3> SUFFICES ASSUME NEW i \in 1 .. n - m, NEW j \in 1 .. n - m, i < j
                 PROVE  high.records[i].key < high.records[j].key
      BY DEF Ordered
    <3>1. m + i < m + j
      BY <1>1
    <3> QED
      BY <1>3, <1>4, <1>7, <3>1
  <2> QED
    BY <1>1, <2>1, <2>2 DEF NodeOK
<1> QED
  BY <1>5, <1>8, <1>9, <1>10 DEF s

LEMMA InnerCut ==
  ASSUME NEW page \in Page, NEW low \in Page, NEW high \in Page, ~page.leaf,
         NEW S \in SUBSET Int, NodeOK(page, S), NEW m, Cut(page, low, high, m), m # 1
  PROVE  LET s == page.records[m].key IN
         /\ s \in S /\ \E k \in S : k < s
         /\ NodeOK(low, Lower(S, s)) /\ NodeOK(high, Upper(S, s))
         /\ \A i \in 1 .. m : Region(low.records, Lower(S, s), i) = Region(page.records, S, i)
         /\ \A i \in 1 .. Len(page.records) - m :
              Region(high.records, Upper(S, s), i) = Region(page.records, S, m + i)
<1> DEFINE n == Len(page.records)
           s == page.records[m].key
<1>1. /\ n \in Nat /\ m \in 1 .. n - 1 /\ m - 1 \in 1 .. n - 1
      /\ NumKeys(page) = n - 1 /\ NumKeys(low) = m - 1 /\ NumKeys(high) = n - m - 1
      /\ ~low.leaf /\ ~high.leaf
      /\ Len(low.records) = m /\ Len(high.records) = n - m
  BY LenProperties DEF Cut, NumKeys, Page
<1>0. /\ page.records \in Seq(Entry) /\ low.records \in Seq(Entry) /\ high.records \in Seq(Entry)
      /\ page.records # <<>> /\ low.records # <<>> /\ high.records # <<>>
  BY <1>1, EmptySeq DEF Page
<1>2. \A i \in 1 .. n - 1 : page.records[i].key \in S /\ page.records[i].key \in Int
  BY <1>1 DEF NodeOK
<1>3. \A i, j \in 1 .. n - 1 : i < j => page.records[i].key < page.records[j].key
  BY <1>1 DEF NodeOK, Ordered
<1>4. /\ \A i \in 1 .. m : low.records[i].key = page.records[i].key
      /\ \A i \in 1 .. n - m : high.records[i].key = page.records[m + i].key
  BY DEF Cut
<1>5. s \in S /\ s \in Int
  BY <1>1, <1>2
<1>6. \A i \in 1 .. m - 1 : i \in 1 .. n - 1 /\ i \in 1 .. m /\ page.records[i].key < s
  <2> TAKE i \in 1 .. m - 1
  <2>1. i \in 1 .. n - 1 /\ i \in 1 .. m /\ m \in 1 .. n - 1 /\ i < m
    BY <1>1
  <2> QED
    BY <1>3, <2>1
<1>7. \A i \in 1 .. n - m - 1 :
        m + i \in 1 .. n - 1 /\ i \in 1 .. n - m /\ s < page.records[m + i].key
  <2> TAKE i \in 1 .. n - m - 1
  <2>1. m + i \in 1 .. n - 1 /\ i \in 1 .. n - m /\ m \in 1 .. n - 1 /\ m < m + i
    BY <1>1
  <2> QED
    BY <1>3, <2>1
<1>s. Ordered(page.records, n - 1)
  BY <1>3 DEF Ordered
<1> HIDE DEF s, n
<1>8. \E k \in S : k < s
  <2>1. m - 1 \in 1 .. m - 1
    BY <1>1
  <2> QED
    BY <1>2, <1>6, <2>1
<1>9. Ordered(low.records, m - 1)
  BY <1>3, <1>4, <1>6 DEF Ordered
<1>10. NodeOK(low, Lower(S, s))
  <2>1. \A i \in 1 .. m - 1 : low.records[i].key \in Lower(S, s)
    BY <1>2, <1>4, <1>6 DEF Lower
  <2> QED
    BY <1>0, <1>1, <1>9, <2>1 DEF NodeOK
<1>11. Ordered(high.records, n - m - 1)
  <2> SUFFICES ASSUME NEW i \in 1 .. n - m - 1, NEW j \in 1 .. n - m - 1, i < j
               PROVE  high.records[i].key < high.records[j].key
    BY DEF Ordered
  <2>1. m + i < m + j
    BY <1>1
  <2> QED
    BY <1>3, <1>4, <1>7, <2>1
<1>12. NodeOK(high, Upper(S, s))
  <2>1. \A i \in 1 .. n - m - 1 : high.records[i].key \in Upper(S, s)
    BY <1>2, <1>4, <1>5, <1>7 DEF Upper
  <2> QED
    BY <1>0, <1>1, <1>11, <2>1 DEF NodeOK
<1>13. \A k \in S : /\ Child(page.records, k) \in 1 .. n
                    /\ \A i \in 1 .. n - 1 : page.records[i].key <= k <=> i < Child(page.records, k)
  <2> TAKE k \in S
  <2>1. k \in Int
    OBVIOUS
  <2> QED
    BY <1>0, <1>s, <2>1, ChildIs DEF n
<1>14. \A k \in S : k < s <=> Child(page.records, k) <= m
  <2> TAKE k \in S
  <2>1. s <= k <=> m < Child(page.records, k)
    BY <1>1, <1>13 DEF s
  <2>2. k \in Int /\ Child(page.records, k) \in Int
    <3>1. Child(page.records, k) \in 1 .. n
      BY <1>13
    <3> QED
      BY <1>1, <3>1
  <2> QED
    BY <1>1, <1>5, <2>1, <2>2
<1>15. ASSUME NEW k \in S, k < s PROVE Child(low.records, k) = Child(page.records, k)
  <2> DEFINE c == Child(page.records, k)
  <2>1. c \in 1 .. n /\ c <= m
    BY <1>13, <1>14, <1>15
  <2>2. \A i \in 1 .. m - 1 : low.records[i].key <= k <=> i < c
    BY <1>4, <1>6, <1>13
  <2> HIDE DEF c
  <2>3. c \in 1 .. Len(low.records) /\ Len(low.records) - 1 = m - 1 /\ k \in Int
    BY <1>1, <2>1
  <2>4. Child(low.records, k) = c
    BY <1>0, <1>9, <2>2, <2>3, ChildOnly
  <2> QED
    BY <2>4 DEF c
<1>16. ASSUME NEW k \in S, s <= k PROVE Child(page.records, k) = m + Child(high.records, k)
  <2> DEFINE c == Child(page.records, k) - m
  <2>0. k \in Int
    OBVIOUS
  <2>1. Child(page.records, k) \in 1 .. n /\ ~(Child(page.records, k) <= m)
    BY <1>5, <1>13, <1>14, <1>16, <2>0
  <2>2. \A i \in 1 .. n - m - 1 : high.records[i].key <= k <=> i < c
    <3> TAKE i \in 1 .. n - m - 1
    <3>1. high.records[i].key <= k <=> m + i < Child(page.records, k)
      BY <1>4, <1>7, <1>13
    <3>2. m + i < Child(page.records, k) <=> i < c
      BY <1>1, <2>1
    <3> QED
      BY <3>1, <3>2
  <2>3. c \in 1 .. n - m /\ Child(page.records, k) = m + c
    BY <1>1, <2>1
  <2> HIDE DEF c
  <2>4. c \in 1 .. Len(high.records) /\ Len(high.records) - 1 = n - m - 1
    BY <1>1, <2>3
  <2>5. Child(high.records, k) = c
    BY <1>0, <1>11, <2>0, <2>2, <2>4, ChildOnly
  <2> QED
    BY <2>3, <2>5
<1>17. \A i \in 1 .. m : Region(low.records, Lower(S, s), i) = Region(page.records, S, i)
  <2> TAKE i \in 1 .. m
  <2>1. i <= m
    BY <1>1
  <2> QED
    BY <1>14, <1>15, <2>1 DEF Region, Lower
<1>18. \A i \in 1 .. n - m : Region(high.records, Upper(S, s), i) = Region(page.records, S, m + i)
  <2> TAKE i \in 1 .. n - m
  <2>1. ASSUME NEW k \in S, Child(page.records, k) = m + i
        PROVE  s <= k /\ Child(high.records, k) = i
    <3>1. ~(m + i <= m) /\ k \in Int
      BY <1>1
    <3>2. s <= k
      BY <1>5, <1>14, <2>1, <3>1
    <3>3. m + i = m + Child(high.records, k)
      BY <1>16, <2>1, <3>2
    <3>4. Child(high.records, k) \in 1 .. Len(high.records)
      BY <1>0, <1>1, <1>11, <3>1, ChildIs
    <3> QED
      BY <1>1, <3>2, <3>3, <3>4
  <2>2. ASSUME NEW k \in S, s <= k, Child(high.records, k) = i
        PROVE  Child(page.records, k) = m + i
    BY <1>16, <2>2
  <2> QED
    BY <2>1, <2>2 DEF Region, Upper
<1> QED
  BY <1>5, <1>8, <1>10, <1>12, <1>17, <1>18 DEF s, n

\* A page with a further child keeps its keys, and the scope of one child becomes two.
WidePage(wide, page, i, key, child) ==
  /\ page \in Page /\ wide \in Page /\ ~page.leaf /\ ~wide.leaf
  /\ i \in 1 .. Len(page.records)
  /\ Widened(wide.records, page.records, i, key, child)

LEMMA WidenedOK ==
  ASSUME NEW page, NEW wide, NEW i, NEW s, NEW child, WidePage(wide, page, i, s, child),
         NEW S \in SUBSET Int, NodeOK(page, S),
         s \in Region(page.records, S, i),
         NEW below \in Region(page.records, S, i), below < s
  PROVE  /\ NodeOK(wide, S)
         /\ \A j \in 1 .. i - 1 : Region(wide.records, S, j) = Region(page.records, S, j)
         /\ Region(wide.records, S, i) = Lower(Region(page.records, S, i), s)
         /\ Region(wide.records, S, i + 1) = Upper(Region(page.records, S, i), s)
         /\ \A j \in i + 1 .. Len(page.records) :
              Region(wide.records, S, j + 1) = Region(page.records, S, j)
<1> DEFINE n == Len(page.records)
           K(j) == page.records[j].key
           W(j) == wide.records[j].key
           c(k) == Child(page.records, k)
<1>0. /\ page \in Page /\ wide \in Page /\ ~page.leaf /\ ~wide.leaf
      /\ i \in 1 .. Len(page.records)
      /\ Widened(wide.records, page.records, i, s, child)
  BY DEF WidePage
<1>1. /\ n \in Nat \ {0} /\ i \in 1 .. n
      /\ Len(wide.records) = n + 1 /\ NumKeys(page) = n - 1 /\ NumKeys(wide) = n
      /\ page.records \in Seq(Entry) /\ wide.records \in Seq(Entry)
      /\ page.records # <<>> /\ wide.records # <<>>
  <2>1. page.records \in Seq(Entry) /\ wide.records \in Seq(Entry)
    BY <1>0 DEF Page
  <2>2. n \in Nat /\ Len(wide.records) = n + 1
    BY <1>0, <2>1, LenProperties DEF Widened
  <2>3. wide.records # <<>>
    BY <2>1, <2>2, EmptySeq
  <2>4. page.records # <<>>
    BY <1>0 DEF NodeOK
  <2>5. n # 0
    BY <2>1, <2>4, EmptySeq
  <2> QED
    BY <1>0, <2>1, <2>2, <2>3, <2>4, <2>5 DEF NumKeys
<1>2. \A j \in 1 .. n - 1 : K(j) \in S /\ K(j) \in Int
  BY <1>0, <1>1 DEF NodeOK
<1>3. Ordered(page.records, n - 1)
  BY <1>0, <1>1 DEF NodeOK
<1>4. \A a, b \in 1 .. n - 1 : a < b => K(a) < K(b)
  BY <1>3 DEF Ordered
<1>5. \A k \in S : c(k) \in 1 .. n /\ \A j \in 1 .. n - 1 : K(j) <= k <=> j < c(k)
  <2> TAKE k \in S
  <2>1. k \in Int
    OBVIOUS
  <2> QED
    BY <1>1, <1>3, <2>1, ChildIs
<1>6. s \in S /\ s \in Int /\ c(s) = i /\ below \in S /\ below \in Int /\ c(below) = i
  BY DEF Region
<1>7. /\ \A j \in 1 .. n + 1 : j < i => W(j) = K(j)
      /\ W(i) = s
      /\ \A j \in 1 .. n + 1 : j > i => W(j) = K(j - 1)
  <2>0. i \in Int /\ ~(i < i)
    BY <1>1
  <2>1. \A j \in 1 .. n + 1 : j < i => W(j) = K(j)
    BY <1>0 DEF Widened
  <2>2. W(i) = s
    <3>1. i \in 1 .. n + 1
      BY <1>1
    <3>2. wide.records[i] = Record(s, page.records[i].value)
      BY <1>0, <2>0, <3>1 DEF Widened
    <3> QED
      BY <3>2 DEF Record
  <2>3. \A j \in 1 .. n + 1 : j > i => W(j) = K(j - 1)
    <3> SUFFICES ASSUME NEW j \in 1 .. n + 1, j > i PROVE W(j) = K(j - 1)
      OBVIOUS
    <3>1. ~(j < i) /\ j # i /\ j \in Int
      BY <1>1
    <3>2. CASE j = i + 1
      <4>1. wide.records[j] = Record(page.records[i].key, child)
        BY <1>0, <3>1, <3>2 DEF Widened
      <4>2. j - 1 = i
        BY <1>1, <3>2
      <4> QED
        BY <4>1, <4>2 DEF Record
    <3>3. CASE j # i + 1
      BY <1>0, <3>1, <3>3 DEF Widened
    <3> QED
      BY <3>2, <3>3
  <2> QED
    BY <2>1, <2>2, <2>3
<1> HIDE DEF n, K, W, c
<1>8. \A a \in 1 .. i - 1 : a \in 1 .. n - 1 /\ K(a) < s
  <2> TAKE a \in 1 .. i - 1
  <2>1. a \in 1 .. n - 1 /\ a < i
    BY <1>1
  <2>2. K(a) <= below
    BY <1>5, <1>6, <2>1
  <2> QED
    BY <1>2, <1>6, <2>1, <2>2
<1>9. \A b \in i .. n - 1 : b \in 1 .. n - 1 /\ s < K(b)
  <2> TAKE b \in i .. n - 1
  <2>1. b \in 1 .. n - 1 /\ ~(b < i)
    BY <1>1
  <2>2. ~(K(b) <= s)
    BY <1>5, <1>6, <2>1
  <2> QED
    BY <1>2, <1>6, <2>1, <2>2
<1>10. \A a, b \in 1 .. n : a < b => W(a) < W(b)
  <2> SUFFICES ASSUME NEW a \in 1 .. n, NEW b \in 1 .. n, a < b PROVE W(a) < W(b)
    OBVIOUS
  <2>0. a \in Int /\ b \in Int /\ a \in 1 .. n + 1 /\ b \in 1 .. n + 1
    BY <1>1
  <2>1. CASE b < i
    <3>1. a < i /\ a \in 1 .. n - 1 /\ b \in 1 .. n - 1
      BY <1>1, <2>0, <2>1
    <3> QED
      BY <1>4, <1>7, <2>0, <2>1, <3>1
  <2>2. CASE b = i
    <3>1. a \in 1 .. i - 1 /\ a < i
      BY <1>1, <2>0, <2>2
    <3> QED
      BY <1>7, <1>8, <2>0, <2>2, <3>1
  <2>3. CASE a = i
    <3>1. b - 1 \in i .. n - 1 /\ b > i
      BY <1>1, <2>0, <2>3
    <3> QED
      BY <1>7, <1>9, <2>0, <2>3, <3>1
  <2>4. CASE a < i /\ b > i
    <3>1. a \in 1 .. n - 1 /\ b - 1 \in 1 .. n - 1 /\ a < b - 1
      BY <1>1, <2>0, <2>4
    <3> QED
      BY <1>4, <1>7, <2>0, <2>4, <3>1
  <2>5. CASE a > i
    <3>1. a - 1 \in 1 .. n - 1 /\ b - 1 \in 1 .. n - 1 /\ a - 1 < b - 1 /\ b > i
      BY <1>1, <2>0, <2>5
    <3> QED
      BY <1>4, <1>7, <2>0, <2>5, <3>1
  <2> QED
    BY <1>1, <2>0, <2>1, <2>2, <2>3, <2>4, <2>5
<1>11. \A j \in 1 .. n : W(j) \in S
  <2> TAKE j \in 1 .. n
  <2>1. CASE j = i
    BY <1>6, <1>7, <2>1
  <2>2. CASE j < i
    <3>1. j \in 1 .. n - 1 /\ j \in 1 .. n + 1
      BY <1>1, <2>2
    <3> QED
      BY <1>2, <1>7, <2>2, <3>1
  <2>3. CASE j > i
    <3>1. j - 1 \in 1 .. n - 1 /\ j \in 1 .. n + 1
      BY <1>1, <2>3
    <3> QED
      BY <1>2, <1>7, <2>3, <3>1
  <2>4. j \in Int /\ i \in Int
    BY <1>1
  <2> QED
    BY <2>1, <2>2, <2>3, <2>4
<1>12. Ordered(wide.records, n)
  BY <1>10 DEF Ordered, W
<1>13. NodeOK(wide, S)
  BY <1>0, <1>1, <1>11, <1>12 DEF NodeOK, W
<1> DEFINE d(k) == IF c(k) < i THEN c(k) ELSE IF c(k) = i /\ k < s THEN i ELSE c(k) + 1
<1>14. \A k \in S : Child(wide.records, k) = d(k) /\ c(k) \in 1 .. n
  <2> TAKE k \in S
  <2>0. c(k) \in 1 .. n /\ k \in Int
    BY <1>5
  <2>1. d(k) \in 1 .. n + 1
    BY <1>1, <2>0
  <2>2. \A j \in 1 .. n : W(j) <= k <=> j < d(k)
    <3> TAKE j \in 1 .. n
    <3>0. j \in Int /\ i \in Int /\ c(k) \in Int /\ j \in 1 .. n + 1
      BY <1>1, <2>0
    <3>1. CASE j < i
      <4>1. j \in 1 .. n - 1
        BY <1>1, <3>1
      <4>2. W(j) <= k <=> j < c(k)
        BY <1>5, <1>7, <3>0, <3>1, <4>1
      <4>3. j < c(k) <=> j < d(k)
        BY <3>0, <3>1
      <4> QED
        BY <4>2, <4>3
    <3>2. CASE j = i
      <4>1. W(j) = s
        BY <1>7, <3>2
      <4>2. CASE c(k) < i
        <5>1. c(k) \in 1 .. n - 1 /\ ~(c(k) < c(k)) /\ c(k) \in 1 .. i - 1
          BY <1>1, <2>0, <4>2
        <5>2. ~(K(c(k)) <= k)
          BY <1>5, <5>1
        <5>3. K(c(k)) < s /\ K(c(k)) \in Int
          BY <1>2, <1>8, <5>1
        <5>4. ~(s <= k)
          BY <1>6, <2>0, <5>2, <5>3
        <5> QED
          BY <3>0, <3>2, <4>1, <4>2, <5>4
      <4>3. CASE c(k) = i
        BY <1>6, <2>0, <3>0, <3>2, <4>1, <4>3
      <4>4. CASE c(k) > i
        <5>1. i \in 1 .. n - 1 /\ i < c(k) /\ i \in i .. n - 1
          BY <1>1, <2>0, <4>4
        <5>2. K(i) <= k /\ s < K(i) /\ K(i) \in Int
          BY <1>2, <1>5, <1>9, <5>1
        <5>3. s <= k
          BY <1>6, <2>0, <5>2
        <5>4. i < d(k)
          BY <3>0, <4>4
        <5> QED
          BY <3>2, <4>1, <5>3, <5>4
      <4> QED
        BY <3>0, <4>2, <4>3, <4>4
    <3>3. CASE j > i
      <4>1. j - 1 \in 1 .. n - 1
        BY <1>1, <3>3
      <4>2. W(j) <= k <=> j - 1 < c(k)
        BY <1>5, <1>7, <3>0, <3>3, <4>1
      <4>3. j - 1 < c(k) <=> j < d(k)
        BY <3>0, <3>3
      <4> QED
        BY <4>2, <4>3
    <3> QED
      BY <3>0, <3>1, <3>2, <3>3
  <2> HIDE DEF d
  <2>3. d(k) \in 1 .. Len(wide.records) /\ Len(wide.records) - 1 = n
    BY <1>1, <2>1
  <2>4. \A j \in 1 .. Len(wide.records) - 1 : wide.records[j].key <= k <=> j < d(k)
    BY <2>2, <2>3 DEF W
  <2>5. Ordered(wide.records, Len(wide.records) - 1)
    BY <1>12, <2>3
  <2>6. Child(wide.records, k) = d(k)
    BY <1>1, <2>0, <2>3, <2>4, <2>5, ChildOnly
  <2> QED
    BY <2>0, <2>6
<1>15. \A j \in 1 .. i - 1 : Region(wide.records, S, j) = Region(page.records, S, j)
  <2> TAKE j \in 1 .. i - 1
  <2>1. \A k \in S : d(k) = j <=> c(k) = j
    <3> TAKE k \in S
    <3>1. c(k) \in Int /\ i \in Int /\ j \in Int /\ j < i
      BY <1>1, <1>14
    <3> QED
      BY <3>1
  <2> QED
    BY <1>14, <2>1 DEF Region, c
<1>16. Region(wide.records, S, i) = Lower(Region(page.records, S, i), s)
  <2>1. \A k \in S : d(k) = i <=> c(k) = i /\ k < s
    <3> TAKE k \in S
    <3>1. c(k) \in Int /\ i \in Int
      BY <1>1, <1>14
    <3> QED
      BY <3>1
  <2> HIDE DEF d
  <2> QED
    BY <1>14, <2>1 DEF Region, Lower, c
<1>17. Region(wide.records, S, i + 1) = Upper(Region(page.records, S, i), s)
  <2>1. \A k \in S : d(k) = i + 1 <=> c(k) = i /\ s <= k
    <3> TAKE k \in S
    <3>1. c(k) \in Int /\ i \in Int /\ k \in Int /\ s \in Int
      BY <1>1, <1>6, <1>14
    <3> QED
      BY <3>1
  <2> HIDE DEF d
  <2> QED
    BY <1>14, <2>1 DEF Region, Upper, c
<1>18. \A j \in i + 1 .. n : Region(wide.records, S, j + 1) = Region(page.records, S, j)
  <2> TAKE j \in i + 1 .. n
  <2>1. \A k \in S : d(k) = j + 1 <=> c(k) = j
    <3> TAKE k \in S
    <3>1. c(k) \in Int /\ i \in Int /\ j \in Int /\ j > i
      BY <1>1, <1>14
    <3> QED
      BY <3>1
  <2> HIDE DEF d
  <2> QED
    BY <1>14, <2>1 DEF Region, c
<1> QED
  BY <1>13, <1>15, <1>16, <1>17, <1>18 DEF n

-----------------------------------------------------------------------------
(***************************************************************************)
(* The tree.  Every page has a scope and a height; the scope of an inner   *)
(* page is divided among its children, and that of the root is everything. *)
(***************************************************************************)

KidOK(B, sc, ht, p, i) ==
  /\ B[p].records[i].value \in DOMAIN B
  /\ ht[B[p].records[i].value] + 1 = ht[p]
  /\ sc[B[p].records[i].value] = Region(B[p].records, sc[p], i)

KidsOK(B, sc, ht, p) == \A i \in 1 .. Len(B[p].records) : KidOK(B, sc, ht, p, i)

PageOK(B, root, sc, ht, p) ==
  /\ ht[p] <= ht[root]
  /\ B[p].leaf <=> ht[p] = 0
  /\ NodeOK(B[p], sc[p])
  /\ ~B[p].leaf => KidsOK(B, sc, ht, p)

Apart(sc, ht, p, q) == p # q /\ ht[p] = ht[q] => sc[p] \cap sc[q] = {}

Tree(B, root, sc, ht) ==
  /\ B \in Seq(Page)
  /\ sc \in [1 .. Len(B) -> SUBSET Int]
  /\ ht \in [1 .. Len(B) -> Nat]
  /\ root \in 1 .. Len(B) /\ sc[root] = Int
  /\ \A p \in 1 .. Len(B) : PageOK(B, root, sc, ht, p)
  /\ \A p, q \in 1 .. Len(B) : Apart(sc, ht, p, q)

LEMMA TreeType ==
  ASSUME NEW B, NEW root, NEW sc, NEW ht, Tree(B, root, sc, ht)
  PROVE  /\ Len(B) \in Nat /\ DOMAIN B = 1 .. Len(B)
         /\ \A p \in 1 .. Len(B) :
              /\ B[p] \in Page /\ B[p].records \in Seq(Entry) /\ Len(B[p].records) \in Nat
              /\ DOMAIN B[p].records = 1 .. Len(B[p].records)
              /\ sc[p] \in SUBSET Int /\ ht[p] \in Nat
<1>1. B \in Seq(Page)
  BY DEF Tree
<1>2. Len(B) \in Nat /\ DOMAIN B = 1 .. Len(B)
  BY <1>1, LenProperties
<1>3. \A p \in 1 .. Len(B) : B[p] \in Page
  BY <1>1, ElementOfSeq
<1>4. \A p \in 1 .. Len(B) : B[p].records \in Seq(Entry)
  BY <1>3 DEF Page
<1>5. \A p \in 1 .. Len(B) : Len(B[p].records) \in Nat /\ DOMAIN B[p].records = 1 .. Len(B[p].records)
  BY <1>4, LenProperties
<1> QED
  BY <1>2, <1>3, <1>4, <1>5 DEF Tree

\* A key of two pages of one height makes them one.
LEMMA OnePage ==
  ASSUME NEW B, NEW root, NEW sc, NEW ht, Tree(B, root, sc, ht),
         NEW p \in 1 .. Len(B), NEW q \in 1 .. Len(B), NEW k \in sc[p], k \in sc[q], ht[p] = ht[q]
  PROVE  p = q
BY DEF Tree, Apart

Parent(B, p, i, c) ==
  /\ p \in 1 .. Len(B) /\ ~B[p].leaf
  /\ i \in 1 .. Len(B[p].records) /\ B[p].records[i].value = c

\* A page with a key in its scope is child of one page only, and once.
LEMMA OneParent ==
  ASSUME NEW B, NEW root, NEW sc, NEW ht, Tree(B, root, sc, ht),
         NEW p, NEW q, NEW i, NEW j, NEW c, Parent(B, p, i, c), Parent(B, q, j, c),
         NEW k \in sc[c]
  PROVE  p = q /\ i = j
<1>1. KidOK(B, sc, ht, p, i) /\ KidOK(B, sc, ht, q, j)
  BY DEF Tree, PageOK, KidsOK, Parent
<1>2. p \in 1 .. Len(B) /\ q \in 1 .. Len(B) /\ B[p].records[i].value = c /\ B[q].records[j].value = c
  BY DEF Parent
<1>3. /\ k \in Region(B[p].records, sc[p], i)
      /\ k \in Region(B[q].records, sc[q], j)
  BY <1>1, <1>2 DEF KidOK
<1>4. k \in sc[p] /\ k \in sc[q] /\ Child(B[p].records, k) = i /\ Child(B[q].records, k) = j
  BY <1>3 DEF Region
<1>5. ht[p] = ht[q]
  <2>1. ht[c] + 1 = ht[p] /\ ht[c] + 1 = ht[q]
    BY <1>1, <1>2 DEF KidOK
  <2> QED
    BY <2>1
<1>6. p = q
  BY <1>2, <1>4, <1>5, OnePage
<1> QED
  BY <1>4, <1>6

\* A leaf may change as long as its keys belong to it.
LEMMA LeafChange ==
  ASSUME NEW B, NEW root, NEW sc, NEW ht, Tree(B, root, sc, ht),
         NEW c \in 1 .. Len(B), B[c].leaf, NEW page \in Page, page.leaf, NodeOK(page, sc[c])
  PROVE  Tree([B EXCEPT ![c] = page], root, sc, ht)
<1> DEFINE D == [B EXCEPT ![c] = page]
<1>1. B \in Seq(Page)
  BY DEF Tree
<1>2. /\ D \in Seq(Page) /\ Len(D) = Len(B)
      /\ \A p \in 1 .. Len(B) : D[p] = IF p = c THEN page ELSE B[p]
  BY <1>1, ExceptSeq
<1>3. DOMAIN D = 1 .. Len(B) /\ DOMAIN B = 1 .. Len(B)
  BY <1>1, <1>2, LenProperties
<1> HIDE DEF D
<1>4. \A p \in 1 .. Len(B) : PageOK(D, root, sc, ht, p)
  <2> TAKE p \in 1 .. Len(B)
  <2>1. PageOK(B, root, sc, ht, p)
    BY DEF Tree
  <2>2. CASE p = c
    BY <1>2, <2>1, <2>2 DEF PageOK
  <2>3. CASE p # c
    <3>1. D[p] = B[p]
      BY <1>2, <2>3
    <3>2. ~B[p].leaf => KidsOK(D, sc, ht, p)
      BY <1>3, <2>1, <3>1 DEF PageOK, KidsOK, KidOK
    <3> QED
      BY <2>1, <3>1, <3>2 DEF PageOK
  <2> QED
    BY <2>2, <2>3
<1>5. Tree(D, root, sc, ht)
  BY <1>2, <1>4 DEF Tree
<1> QED
  BY <1>5 DEF D

\* The key between two halves of a page, the first of the upper one.
Between(page, m) == IF page.leaf THEN page.records[m + 1].key ELSE page.records[m].key

LEMMA HalvesOK ==
  ASSUME NEW page \in Page, NEW low \in Page, NEW high \in Page,
         NEW S \in SUBSET Int, NodeOK(page, S), NEW m, Cut(page, low, high, m),
         page.leaf \/ m # 1
  PROVE  LET s == Between(page, m) IN
         /\ s \in S /\ \E k \in S : k < s
         /\ NodeOK(low, Lower(S, s)) /\ NodeOK(high, Upper(S, s))
         /\ ~page.leaf =>
              /\ \A i \in 1 .. m : Region(low.records, Lower(S, s), i) = Region(page.records, S, i)
              /\ \A i \in 1 .. Len(page.records) - m :
                   Region(high.records, Upper(S, s), i) = Region(page.records, S, m + i)
<1> DEFINE s == Between(page, m)
<1>1. CASE page.leaf
  <2>1. s = page.records[m + 1].key
    BY <1>1 DEF Between
  <2>2. /\ s \in S /\ \E k \in S : k < s
        /\ NodeOK(low, Lower(S, s)) /\ NodeOK(high, Upper(S, s))
    BY <1>1, <2>1, LeafCut
  <2> QED
    BY <1>1, <2>2
<1>2. CASE ~page.leaf
  <2>1. s = page.records[m].key
    BY <1>2 DEF Between
  <2>2. m # 1
    BY <1>2
  <2>3. /\ s \in S /\ \E k \in S : k < s
        /\ NodeOK(low, Lower(S, s)) /\ NodeOK(high, Upper(S, s))
        /\ \A i \in 1 .. m : Region(low.records, Lower(S, s), i) = Region(page.records, S, i)
        /\ \A i \in 1 .. Len(page.records) - m :
             Region(high.records, Upper(S, s), i) = Region(page.records, S, m + i)
    BY <1>2, <2>1, <2>2, InnerCut
  <2> QED
    BY <2>3
<1> QED
  BY <1>1, <1>2

-----------------------------------------------------------------------------
(***************************************************************************)
(* The split of a page.  A page and its scope become two: the old          *)
(* identifier keeps the lower half, a new one gets the upper half.         *)
(***************************************************************************)

\* D has the halves of page c of B, with the scopes T and heights H.
Halved(B, sc, ht, D, T, H, c, low, high, m) ==
  /\ c \in 1 .. Len(B) /\ low \in Page /\ high \in Page
  /\ Cut(B[c], low, high, m) /\ (B[c].leaf \/ m # 1)
  /\ 1 .. Len(B) + 1 \subseteq DOMAIN D
  /\ D[c] = low /\ D[Len(B) + 1] = high
  /\ T[c] = Lower(sc[c], Between(B[c], m)) /\ T[Len(B) + 1] = Upper(sc[c], Between(B[c], m))
  /\ \A p \in 1 .. Len(B) : p # c => T[p] = sc[p]
  /\ \A p \in 1 .. Len(B) : H[p] = ht[p]
  /\ H[Len(B) + 1] = ht[c]

\* All pages but those above c are as they should be.
HalvesFit(B, root, sc, ht, D, T, H, c, s) ==
  /\ s \in sc[c] /\ \E k \in sc[c] : k < s
  /\ PageOK(B, root, sc, ht, c)
  /\ \A p \in {c, Len(B) + 1} :
       /\ D[p].leaf = B[c].leaf /\ H[p] = ht[c]
       /\ NodeOK(D[p], T[p])
       /\ ~B[c].leaf => KidsOK(D, T, H, p)
  /\ \A p \in 1 .. Len(B) :
       /\ p # c /\ D[p] = B[p] /\ ~B[p].leaf
       /\ \A j \in 1 .. Len(B[p].records) : B[p].records[j].value # c
       => KidsOK(D, T, H, p)
  /\ \A p, q \in 1 .. Len(B) + 1 : Apart(T, H, p, q)

LEMMA HalvesKept ==
  ASSUME NEW B, NEW root, NEW sc, NEW ht, Tree(B, root, sc, ht),
         NEW D, NEW T, NEW H, NEW c, NEW low, NEW high, NEW m,
         Halved(B, sc, ht, D, T, H, c, low, high, m)
  PROVE  HalvesFit(B, root, sc, ht, D, T, H, c, Between(B[c], m))
<1> DEFINE n == Len(B)
           s == Between(B[c], m)
<1>0. /\ c \in 1 .. Len(B) /\ low \in Page /\ high \in Page
      /\ Cut(B[c], low, high, m) /\ (B[c].leaf \/ m # 1)
  BY DEF Halved
<1>1. /\ n \in Nat /\ DOMAIN B = 1 .. n /\ c \in 1 .. n
      /\ B[c] \in Page /\ Len(B[c].records) \in Nat /\ sc[c] \in SUBSET Int
      /\ \A p \in 1 .. n : ht[p] \in Nat /\ sc[p] \in SUBSET Int
  BY <1>0, TreeType
<1>2. PageOK(B, root, sc, ht, c)
  BY <1>0 DEF Tree
<1>3. NodeOK(B[c], sc[c])
  BY <1>2 DEF PageOK
<1>4. /\ s \in sc[c] /\ \E k \in sc[c] : k < s
      /\ NodeOK(low, Lower(sc[c], s)) /\ NodeOK(high, Upper(sc[c], s))
      /\ ~B[c].leaf =>
           /\ \A i \in 1 .. m : Region(low.records, Lower(sc[c], s), i) = Region(B[c].records, sc[c], i)
           /\ \A i \in 1 .. Len(B[c].records) - m :
                Region(high.records, Upper(sc[c], s), i) = Region(B[c].records, sc[c], m + i)
  BY <1>0, <1>1, <1>3, HalvesOK
<1> HIDE DEF n, s
<1>5. /\ 1 .. n + 1 \subseteq DOMAIN D
      /\ D[c] = low /\ D[n + 1] = high
      /\ T[c] = Lower(sc[c], s) /\ T[n + 1] = Upper(sc[c], s)
      /\ \A p \in 1 .. n : p # c => T[p] = sc[p]
      /\ \A p \in 1 .. n : H[p] = ht[p]
      /\ H[n + 1] = ht[c]
  BY DEF Halved, n, s
<1>6. /\ low.leaf = B[c].leaf /\ high.leaf = B[c].leaf
      /\ m \in 1 .. Len(B[c].records) - 1
      /\ Len(low.records) = m
      /\ Len(high.records) = Len(B[c].records) - m
      /\ \A i \in 1 .. m : low.records[i] = B[c].records[i]
      /\ \A i \in 1 .. Len(B[c].records) - m : high.records[i] = B[c].records[m + i]
  BY <1>0 DEF Cut
<1>7. ASSUME NEW p \in 1 .. n, ~B[p].leaf, NEW j \in 1 .. Len(B[p].records),
             B[p].records[j].value # c
      PROVE  /\ B[p].records[j].value \in DOMAIN D
             /\ H[B[p].records[j].value] + 1 = ht[p]
             /\ T[B[p].records[j].value] = Region(B[p].records, sc[p], j)
  <2>1. KidOK(B, sc, ht, p, j)
    BY <1>7 DEF Tree, PageOK, KidsOK, n
  <2>2. /\ B[p].records[j].value \in 1 .. n
        /\ ht[B[p].records[j].value] + 1 = ht[p]
        /\ sc[B[p].records[j].value] = Region(B[p].records, sc[p], j)
    BY <1>1, <2>1 DEF KidOK
  <2>3. B[p].records[j].value \in DOMAIN D
    BY <1>1, <1>5, <2>2
  <2> QED
    BY <1>5, <1>7, <2>2, <2>3
<1>8. ASSUME ~B[c].leaf, NEW j \in 1 .. Len(B[c].records) PROVE B[c].records[j].value # c
  <2>1. KidOK(B, sc, ht, c, j)
    BY <1>2, <1>8 DEF PageOK, KidsOK
  <2>2. ht[B[c].records[j].value] + 1 = ht[c]
    BY <2>1 DEF KidOK
  <2> QED
    BY <1>1, <2>2
<1>9. ASSUME ~B[c].leaf PROVE KidsOK(D, T, H, c)
  <2> SUFFICES ASSUME NEW j \in 1 .. m PROVE KidOK(D, T, H, c, j)
    BY <1>5, <1>6 DEF KidsOK
  <2>1. j \in 1 .. Len(B[c].records) /\ low.records[j] = B[c].records[j]
    BY <1>1, <1>6
  <2>2. /\ B[c].records[j].value \in DOMAIN D
        /\ H[B[c].records[j].value] + 1 = ht[c]
        /\ T[B[c].records[j].value] = Region(B[c].records, sc[c], j)
    BY <1>1, <1>7, <1>8, <1>9, <2>1
  <2>3. Region(B[c].records, sc[c], j) = Region(low.records, T[c], j)
    BY <1>4, <1>5, <1>9
  <2> QED
    BY <1>1, <1>5, <2>1, <2>2, <2>3 DEF KidOK
<1>10. ASSUME ~B[c].leaf PROVE KidsOK(D, T, H, n + 1)
  <2> SUFFICES ASSUME NEW j \in 1 .. Len(B[c].records) - m PROVE KidOK(D, T, H, n + 1, j)
    BY <1>5, <1>6 DEF KidsOK
  <2>1. m + j \in 1 .. Len(B[c].records) /\ high.records[j] = B[c].records[m + j]
    BY <1>1, <1>6
  <2>2. /\ B[c].records[m + j].value \in DOMAIN D
        /\ H[B[c].records[m + j].value] + 1 = ht[c]
        /\ T[B[c].records[m + j].value] = Region(B[c].records, sc[c], m + j)
    BY <1>1, <1>7, <1>8, <1>10, <2>1
  <2>3. Region(B[c].records, sc[c], m + j) = Region(high.records, T[n + 1], j)
    BY <1>4, <1>5, <1>10
  <2> QED
    BY <1>5, <2>1, <2>2, <2>3 DEF KidOK
<1>11. \A p \in {c, n + 1} :
         /\ D[p].leaf = B[c].leaf /\ H[p] = ht[c]
         /\ NodeOK(D[p], T[p])
         /\ ~B[c].leaf => KidsOK(D, T, H, p)
  BY <1>1, <1>4, <1>5, <1>6, <1>9, <1>10
<1>12. ASSUME NEW p \in 1 .. n, p # c, D[p] = B[p], ~B[p].leaf,
              \A j \in 1 .. Len(B[p].records) : B[p].records[j].value # c
       PROVE  KidsOK(D, T, H, p)
  <2> SUFFICES ASSUME NEW j \in 1 .. Len(B[p].records) PROVE KidOK(D, T, H, p, j)
    BY <1>12 DEF KidsOK
  <2>1. /\ B[p].records[j].value \in DOMAIN D
        /\ H[B[p].records[j].value] + 1 = ht[p]
        /\ T[B[p].records[j].value] = Region(B[p].records, sc[p], j)
    BY <1>7, <1>12
  <2> QED
    BY <1>5, <1>12, <2>1 DEF KidOK
<1>13. \A p, q \in 1 .. n + 1 : Apart(T, H, p, q)
  <2> DEFINE old(p) == IF p = n + 1 THEN c ELSE p
  <2>1. \A p \in 1 .. n + 1 : old(p) \in 1 .. n /\ H[p] = ht[old(p)] /\ T[p] \subseteq sc[old(p)]
    <3> TAKE p \in 1 .. n + 1
    <3>1. CASE p = n + 1
      BY <1>1, <1>5, <3>1 DEF Upper
    <3>2. CASE p = c
      BY <1>1, <1>5, <3>2 DEF Lower
    <3>3. CASE p # n + 1 /\ p # c
      <4>1. p \in 1 .. n
        BY <1>1, <3>3
      <4> QED
        BY <1>5, <3>3, <4>1
    <3> QED
      BY <3>1, <3>2, <3>3
  <2>2. \A p \in 1 .. n, q \in 1 .. n : Apart(sc, ht, p, q)
    BY DEF Tree, n
  <2>3. SUFFICES ASSUME NEW p \in 1 .. n + 1, NEW q \in 1 .. n + 1, p # q, H[p] = H[q],
                        NEW k \in T[p], k \in T[q]
                 PROVE  FALSE
    BY DEF Apart
  <2>4. old(p) = old(q)
    <3>1. k \in sc[old(p)] /\ k \in sc[old(q)] /\ ht[old(p)] = ht[old(q)]
      BY <2>1, <2>3
    <3>2. Apart(sc, ht, old(p), old(q))
      BY <2>1, <2>2
    <3> HIDE DEF old
    <3> QED
      BY <3>1, <3>2 DEF Apart
  <2>5. k \in T[c] /\ k \in T[n + 1]
    BY <2>3, <2>4
  <2>6. k \in Int /\ s \in Int /\ k < s /\ s <= k
    BY <1>1, <1>4, <1>5, <2>5 DEF Lower, Upper
  <2> QED
    BY <2>6
<1>14. /\ s \in sc[c]
       /\ \E k \in sc[c] : k < s
  BY <1>4
<1> QED
  BY <1>2, <1>11, <1>12, <1>13, <1>14 DEF n, s, HalvesFit

NewScopes(sc, n, c, s) ==
  [p \in 1 .. n + 1 |-> IF p = c THEN Lower(sc[c], s)
                        ELSE IF p = n + 1 THEN Upper(sc[c], s) ELSE sc[p]]

NewHeights(ht, n, c) == [p \in 1 .. n + 1 |-> IF p = n + 1 THEN ht[c] ELSE ht[p]]

\* A page below another: the parent gets the further child.
LEMMA SplitBelow ==
  ASSUME NEW B, NEW root, NEW sc, NEW ht, Tree(B, root, sc, ht),
         NEW c \in 1 .. Len(B), NEW b \in 1 .. Len(B), ~B[b].leaf,
         NEW i \in 1 .. Len(B[b].records), B[b].records[i].value = c,
         NEW low \in Page, NEW high \in Page, NEW m, Cut(B[c], low, high, m), B[c].leaf \/ m # 1,
         NEW wide \in Page, ~wide.leaf,
         Widened(wide.records, B[b].records, i, Between(B[c], m), Len(B) + 1),
         NEW D \in Seq(Page), Len(D) = Len(B) + 1,
         D[c] = low, D[b] = wide, D[Len(B) + 1] = high,
         \A p \in 1 .. Len(B) : p # c /\ p # b => D[p] = B[p]
  PROVE  Tree(D, root, NewScopes(sc, Len(B), c, Between(B[c], m)), NewHeights(ht, Len(B), c))
<1> DEFINE n == Len(B)
           s == Between(B[c], m)
           T == NewScopes(sc, n, c, s)
           H == NewHeights(ht, n, c)
<1>1. /\ n \in Nat /\ DOMAIN B = 1 .. n /\ c \in 1 .. n /\ b \in 1 .. n
      /\ B[b] \in Page /\ Len(B[b].records) \in Nat /\ sc[c] \in SUBSET Int /\ sc[b] \in SUBSET Int
      /\ i \in 1 .. Len(B[b].records)
      /\ \A p \in 1 .. n : ht[p] \in Nat /\ sc[p] \in SUBSET Int
      /\ DOMAIN D = 1 .. n + 1
  BY TreeType, LenProperties
<1>2. \A p \in 1 .. n : PageOK(B, root, sc, ht, p)
  BY DEF Tree
<1>3. KidOK(B, sc, ht, b, i)
  BY <1>2 DEF PageOK, KidsOK
<1>4. ht[c] + 1 = ht[b] /\ sc[c] = Region(B[b].records, sc[b], i)
  BY <1>3 DEF KidOK
<1>5. c # b /\ root \in 1 .. n /\ sc[root] = Int /\ c # root
  <2>1. ht[b] <= ht[root] /\ root \in 1 .. n /\ sc[root] = Int
    BY <1>2 DEF PageOK, Tree
  <2>2. ht[c] \in Nat /\ ht[b] \in Nat /\ ht[root] \in Nat
    BY <1>1, <2>1
  <2> QED
    BY <1>4, <2>1, <2>2
<1>6. Halved(B, sc, ht, D, T, H, c, low, high, m)
  <2>1. n + 1 \in 1 .. n + 1 /\ c \in 1 .. n + 1 /\ n + 1 # c
    BY <1>1
  <2>2. \A p \in 1 .. n : p \in 1 .. n + 1 /\ p # n + 1
    BY <1>1
  <2>3. /\ T[c] = Lower(sc[c], s) /\ T[n + 1] = Upper(sc[c], s)
        /\ \A p \in 1 .. n : p # c => T[p] = sc[p]
    BY <2>1, <2>2 DEF NewScopes
  <2>4. (\A p \in 1 .. n : H[p] = ht[p]) /\ H[n + 1] = ht[c]
    BY <2>1, <2>2 DEF NewHeights
  <2> HIDE DEF T, H
  <2> QED
    BY <1>1, <2>3, <2>4 DEF Halved
<1> HIDE DEF T, H
<1>7. /\ s \in sc[c] /\ \E k \in sc[c] : k < s
      /\ PageOK(B, root, sc, ht, c)
      /\ \A p \in {c, n + 1} :
           /\ D[p].leaf = B[c].leaf /\ H[p] = ht[c]
           /\ NodeOK(D[p], T[p])
           /\ ~B[c].leaf => KidsOK(D, T, H, p)
      /\ \A p \in 1 .. n :
           /\ p # c /\ D[p] = B[p] /\ ~B[p].leaf
           /\ \A j \in 1 .. Len(B[p].records) : B[p].records[j].value # c
           => KidsOK(D, T, H, p)
      /\ \A p, q \in 1 .. n + 1 : Apart(T, H, p, q)
  <2>1. HalvesFit(B, root, sc, ht, D, T, H, c, s)
    BY <1>6, HalvesKept
  <2> QED
    BY <2>1 DEF HalvesFit
<1> HIDE DEF n, s
<1>8. /\ T[c] = Lower(sc[c], s) /\ T[n + 1] = Upper(sc[c], s)
      /\ \A p \in 1 .. n : p # c => T[p] = sc[p]
      /\ \A p \in 1 .. n : H[p] = ht[p]
      /\ H[n + 1] = ht[c]
  BY <1>6 DEF Halved, n, s
<1>9. PICK below \in sc[c] : below < s
  BY <1>7
<1>10. NodeOK(B[b], sc[b])
  BY <1>1, <1>2 DEF PageOK
<1>11. /\ NodeOK(wide, sc[b])
       /\ \A j \in 1 .. i - 1 : Region(wide.records, sc[b], j) = Region(B[b].records, sc[b], j)
       /\ Region(wide.records, sc[b], i) = Lower(Region(B[b].records, sc[b], i), s)
       /\ Region(wide.records, sc[b], i + 1) = Upper(Region(B[b].records, sc[b], i), s)
       /\ \A j \in i + 1 .. Len(B[b].records) :
            Region(wide.records, sc[b], j + 1) = Region(B[b].records, sc[b], j)
  <2>1. s \in Region(B[b].records, sc[b], i) /\ below \in Region(B[b].records, sc[b], i)
    BY <1>4, <1>7, <1>9
  <2>2. Widened(wide.records, B[b].records, i, s, n + 1)
    BY DEF n, s
  <2> QED
    <3>1. /\ B[b] \in Page /\ sc[b] \in SUBSET Int /\ i \in 1 .. Len(B[b].records)
          /\ below < s
      BY <1>1, <1>9
    <3>2. WidePage(wide, B[b], i, s, n + 1)
      BY <2>2, <3>1 DEF WidePage
    <3> QED
      BY <1>10, <2>1, <3>1, <3>2, WidenedOK
<1>12. ASSUME NEW p \in 1 .. n, ~B[p].leaf, NEW j \in 1 .. Len(B[p].records),
              B[p].records[j].value = c
       PROVE  p = b /\ j = i
  <2>1. Parent(B, p, j, c) /\ Parent(B, b, i, c)
    BY <1>1, <1>12 DEF Parent, n
  <2> QED
    BY <1>7, <2>1, OneParent
<1>13. ASSUME NEW p \in 1 .. n, ~B[p].leaf, NEW j \in 1 .. Len(B[p].records),
              B[p].records[j].value # c
       PROVE  /\ B[p].records[j].value \in DOMAIN D
              /\ H[B[p].records[j].value] + 1 = ht[p]
              /\ T[B[p].records[j].value] = Region(B[p].records, sc[p], j)
  <2>1. KidOK(B, sc, ht, p, j)
    BY <1>2, <1>13 DEF PageOK, KidsOK
  <2>2. /\ B[p].records[j].value \in 1 .. n
        /\ ht[B[p].records[j].value] + 1 = ht[p]
        /\ sc[B[p].records[j].value] = Region(B[p].records, sc[p], j)
    BY <1>1, <2>1 DEF KidOK
  <2>3. B[p].records[j].value \in DOMAIN D
    BY <1>1, <2>2
  <2> QED
    BY <1>8, <1>13, <2>2, <2>3
<1>14. /\ Len(wide.records) = Len(B[b].records) + 1
       /\ \A j \in 1 .. Len(B[b].records) + 1 :
            wide.records[j] = IF j < i THEN B[b].records[j]
                      ELSE IF j = i THEN Record(s, B[b].records[i].value)
                      ELSE IF j = i + 1 THEN Record(B[b].records[i].key, n + 1)
                      ELSE B[b].records[j - 1]
  BY DEF Widened, n, s
<1>15. KidsOK(D, T, H, b)
  <2> SUFFICES ASSUME NEW j \in 1 .. Len(B[b].records) + 1 PROVE KidOK(D, T, H, b, j)
    BY <1>14 DEF KidsOK
  <2>0. /\ D[b] = wide /\ T[b] = sc[b] /\ H[b] = ht[b]
        /\ j \in Int /\ i \in Int
    BY <1>1, <1>5, <1>8
  <2>1. CASE j < i
    <3>1. j \in 1 .. Len(B[b].records) /\ j \in 1 .. i - 1 /\ j # i
      BY <1>1, <2>1
    <3>2. wide.records[j] = B[b].records[j]
      BY <1>14, <2>1
    <3>3. B[b].records[j].value # c
      BY <1>1, <1>12, <3>1
    <3> QED
      BY <1>1, <1>11, <1>13, <2>0, <3>1, <3>2, <3>3 DEF KidOK
  <2>2. CASE j = i
    <3>1. wide.records[j] = Record(s, c)
      BY <1>14, <2>0, <2>2
    <3>2. wide.records[j].value = c
      BY <3>1 DEF Record
    <3>3. c \in DOMAIN D
      BY <1>1
    <3>4. H[c] + 1 = ht[b] /\ T[c] = Region(wide.records, sc[b], j)
      BY <1>1, <1>4, <1>8, <1>11, <2>2
    <3> QED
      BY <2>0, <3>2, <3>3, <3>4 DEF KidOK
  <2>3. CASE j = i + 1
    <3>1. ~(j < i) /\ j # i
      BY <2>0, <2>3
    <3>2. wide.records[j] = Record(B[b].records[i].key, n + 1)
      BY <1>14, <2>3, <3>1
    <3>3. wide.records[j].value = n + 1
      BY <3>2 DEF Record
    <3>4. n + 1 \in DOMAIN D
      BY <1>1
    <3>5. H[n + 1] + 1 = ht[b] /\ T[n + 1] = Region(wide.records, sc[b], j)
      BY <1>4, <1>8, <1>11, <2>3
    <3> QED
      BY <2>0, <3>3, <3>4, <3>5 DEF KidOK
  <2>4. CASE j > i + 1
    <3>1. /\ ~(j < i) /\ j # i /\ j # i + 1 /\ j - 1 # i
          /\ j - 1 \in 1 .. Len(B[b].records) /\ j - 1 \in i + 1 .. Len(B[b].records)
          /\ (j - 1) + 1 = j
      <4>1. Len(B[b].records) \in Nat /\ i \in 1 .. Len(B[b].records)
        BY <1>1
      <4> QED
        BY <2>0, <2>4, <4>1
    <3>2. wide.records[j] = B[b].records[j - 1]
      BY <1>14, <3>1
    <3>3. B[b].records[j - 1].value # c
      BY <1>1, <1>12, <3>1
    <3>4. Region(wide.records, sc[b], j) = Region(B[b].records, sc[b], j - 1)
      BY <1>11, <3>1
    <3>5. /\ B[b].records[j - 1].value \in DOMAIN D
          /\ H[B[b].records[j - 1].value] + 1 = ht[b]
          /\ T[B[b].records[j - 1].value] = Region(B[b].records, sc[b], j - 1)
      BY <1>1, <1>13, <3>1, <3>3
    <3> QED
      BY <2>0, <3>2, <3>4, <3>5 DEF KidOK
  <2> QED
    BY <2>0, <2>1, <2>2, <2>3, <2>4
<1>16. \A p \in 1 .. n + 1 : H[p] \in Nat /\ H[p] <= H[root]
  <2> TAKE p \in 1 .. n + 1
  <2>1. \A q \in 1 .. n : ht[q] <= ht[root]
    BY <1>2 DEF PageOK
  <2>2. p \in 1 .. n \/ p = n + 1
    BY <1>1
  <2> QED
    BY <1>1, <1>5, <1>8, <2>1, <2>2
<1>17. \A p \in 1 .. n + 1 : PageOK(D, root, T, H, p)
  <2> TAKE p \in 1 .. n + 1
  <2>1. CASE p \in {c, n + 1}
    <3>1. D[p].leaf <=> H[p] = 0
      BY <1>7, <2>1 DEF PageOK
    <3> QED
      BY <1>7, <1>16, <2>1, <3>1 DEF PageOK
  <2>2. CASE p = b
    <3>1. ht[b] # 0
      BY <1>1, <1>4
    <3>2. T[b] = sc[b] /\ H[b] = ht[b] /\ D[b] = wide
      BY <1>1, <1>5, <1>8
    <3> QED
      BY <1>11, <1>15, <1>16, <2>2, <3>1, <3>2 DEF PageOK
  <2>3. CASE p \notin {c, n + 1, b}
    <3>1. p \in 1 .. n /\ p # c /\ p # b
      BY <1>1, <2>3
    <3>2. D[p] = B[p] /\ T[p] = sc[p] /\ H[p] = ht[p]
      BY <1>8, <3>1 DEF n
    <3>3. PageOK(B, root, sc, ht, p)
      BY <1>2, <3>1
    <3>4. ASSUME ~B[p].leaf PROVE KidsOK(D, T, H, p)
      <4>1. \A j \in 1 .. Len(B[p].records) : B[p].records[j].value # c
        BY <1>12, <3>1, <3>4
      <4> QED
        BY <1>7, <3>1, <3>2, <3>4, <4>1
    <3> QED
      BY <1>16, <3>2, <3>3, <3>4 DEF PageOK
  <2> QED
    BY <2>1, <2>2, <2>3
<1>18. T \in [1 .. n + 1 -> SUBSET Int] /\ H \in [1 .. n + 1 -> Nat]
  <2>1. T = [p \in 1 .. n + 1 |-> T[p]] /\ H = [p \in 1 .. n + 1 |-> H[p]]
    BY DEF T, H, NewScopes, NewHeights
  <2>2. \A p \in 1 .. n + 1 : T[p] \in SUBSET Int
    <3> TAKE p \in 1 .. n + 1
    <3>1. p \in 1 .. n \/ p = n + 1
      BY <1>1
    <3>2. T[c] \in SUBSET Int /\ T[n + 1] \in SUBSET Int
      BY <1>1, <1>8 DEF Lower, Upper
    <3> QED
      BY <1>1, <1>8, <3>1, <3>2
  <2> QED
    BY <1>16, <2>1, <2>2
<1>19. root \in 1 .. n + 1 /\ T[root] = Int
  BY <1>1, <1>5, <1>8
<1>20. Tree(D, root, T, H)
  BY <1>7, <1>17, <1>18, <1>19 DEF Tree, n
<1> QED
  BY <1>20 DEF T, H, s, n

TopScopes(sc, n, c, s) ==
  [p \in 1 .. n + 2 |-> IF p = n + 2 THEN Int ELSE NewScopes(sc, n, c, s)[p]]

TopHeights(ht, n, c) ==
  [p \in 1 .. n + 2 |-> IF p = n + 2 THEN ht[c] + 1 ELSE NewHeights(ht, n, c)[p]]

\* The root: a new root above has the halves as children.
LEMMA SplitTop ==
  ASSUME NEW B, NEW c, NEW sc, NEW ht, Tree(B, c, sc, ht),
         NEW low \in Page, NEW high \in Page, NEW m, Cut(B[c], low, high, m), B[c].leaf \/ m # 1,
         NEW top \in Page, ~top.leaf,
         top.records = <<Record(Between(B[c], m), c), Record(DefaultKey, Len(B) + 1)>>,
         NEW D \in Seq(Page), Len(D) = Len(B) + 2,
         D[c] = low, D[Len(B) + 1] = high, D[Len(B) + 2] = top,
         \A p \in 1 .. Len(B) : p # c => D[p] = B[p]
  PROVE  Tree(D, Len(B) + 2, TopScopes(sc, Len(B), c, Between(B[c], m)), TopHeights(ht, Len(B), c))
<1> DEFINE n == Len(B)
           s == Between(B[c], m)
           T == TopScopes(sc, n, c, s)
           H == TopHeights(ht, n, c)
<1>1. /\ n \in Nat /\ DOMAIN B = 1 .. n
      /\ \A p \in 1 .. n : ht[p] \in Nat /\ sc[p] \in SUBSET Int
      /\ DOMAIN D = 1 .. n + 2
  BY TreeType, LenProperties
<1>2. \A p \in 1 .. n : PageOK(B, c, sc, ht, p)
  BY DEF Tree
<1>3. c \in 1 .. n /\ sc[c] = Int
  BY DEF Tree
<1>4. Halved(B, sc, ht, D, T, H, c, low, high, m)
  <2>1. /\ n + 1 \in 1 .. n + 1 /\ c \in 1 .. n + 1 /\ n + 1 # c
        /\ n + 1 \in 1 .. n + 2 /\ c \in 1 .. n + 2 /\ n + 1 # n + 2 /\ c # n + 2
    BY <1>1, <1>3
  <2>2. \A p \in 1 .. n : p \in 1 .. n + 1 /\ p # n + 1 /\ p \in 1 .. n + 2 /\ p # n + 2
    BY <1>1
  <2>3. /\ T[c] = Lower(sc[c], s) /\ T[n + 1] = Upper(sc[c], s)
        /\ \A p \in 1 .. n : p # c => T[p] = sc[p]
    BY <2>1, <2>2 DEF NewScopes, TopScopes
  <2>4. (\A p \in 1 .. n : H[p] = ht[p]) /\ H[n + 1] = ht[c]
    BY <2>1, <2>2 DEF NewHeights, TopHeights
  <2>5. 1 .. n + 1 \subseteq DOMAIN D
    BY <1>1
  <2> HIDE DEF T, H
  <2> QED
    BY <1>3, <2>3, <2>4, <2>5 DEF Halved
<1>5. T[n + 2] = Int /\ H[n + 2] = ht[c] + 1
  BY <1>1 DEF TopScopes, TopHeights
<1> HIDE DEF T, H
<1>6. /\ s \in sc[c] /\ \E k \in sc[c] : k < s
      /\ PageOK(B, c, sc, ht, c)
      /\ \A p \in {c, n + 1} :
           /\ D[p].leaf = B[c].leaf /\ H[p] = ht[c]
           /\ NodeOK(D[p], T[p])
           /\ ~B[c].leaf => KidsOK(D, T, H, p)
      /\ \A p \in 1 .. n :
           /\ p # c /\ D[p] = B[p] /\ ~B[p].leaf
           /\ \A j \in 1 .. Len(B[p].records) : B[p].records[j].value # c
           => KidsOK(D, T, H, p)
      /\ \A p, q \in 1 .. n + 1 : Apart(T, H, p, q)
  <2>1. HalvesFit(B, c, sc, ht, D, T, H, c, s)
    BY <1>4, HalvesKept
  <2> QED
    BY <2>1 DEF HalvesFit
<1> HIDE DEF n, s
<1>7. /\ T[c] = Lower(Int, s) /\ T[n + 1] = Upper(Int, s)
      /\ \A p \in 1 .. n : p # c => T[p] = sc[p]
      /\ \A p \in 1 .. n : H[p] = ht[p]
      /\ H[n + 1] = ht[c]
  BY <1>3, <1>4 DEF Halved, n, s
<1>8. ASSUME NEW p \in 1 .. n, ~B[p].leaf, NEW j \in 1 .. Len(B[p].records)
      PROVE  B[p].records[j].value # c
  <2> SUFFICES ASSUME B[p].records[j].value = c PROVE FALSE
    OBVIOUS
  <2>1. KidOK(B, sc, ht, p, j)
    BY <1>2, <1>8 DEF PageOK, KidsOK
  <2>2. ht[c] + 1 = ht[p] /\ ht[p] <= ht[c]
    BY <1>2, <2>1 DEF KidOK, PageOK
  <2>3. ht[p] \in Nat /\ ht[c] \in Nat
    BY <1>1, <1>3
  <2> QED
    BY <2>2, <2>3
<1>9. /\ D[n + 2] = top /\ top.records = <<Record(s, c), Record(DefaultKey, n + 1)>>
      /\ \A p \in 1 .. n : p # c => D[p] = B[p]
  BY DEF n, s
<1>10. /\ Len(top.records) = 2 /\ top.records[1].key = s
       /\ top.records[1].value = c /\ top.records[2].value = n + 1
  BY <1>9 DEF Record
<1>11. s \in Int
  BY <1>3, <1>6
<1>12. NodeOK(top, Int)
  <2>1. NumKeys(top) = 1 /\ top.records # <<>>
    BY <1>10, EmptySeq DEF NumKeys
  <2>2. \A i \in 1 .. 1 : top.records[i].key \in Int
    BY <1>10, <1>11
  <2>3. Ordered(top.records, 1)
    BY DEF Ordered
  <2> QED
    BY <2>1, <2>2, <2>3 DEF NodeOK
<1>13. \A k \in Int : Child(top.records, k) = IF k < s THEN 1 ELSE 2
  <2> TAKE k \in Int
  <2>1. top.records \in Seq(Entry) /\ top.records # <<>> /\ Ordered(top.records, Len(top.records) - 1)
    <3>1. top.records \in Seq(Entry) /\ top.records # <<>>
      BY <1>10, EmptySeq DEF Page
    <3>2. Len(top.records) - 1 = 1
      BY <1>10
    <3>3. Ordered(top.records, 1)
      BY DEF Ordered
    <3> QED
      BY <3>1, <3>2, <3>3
  <2>2. /\ Child(top.records, k) \in 1 .. Len(top.records)
        /\ \A i \in 1 .. Len(top.records) - 1 :
             top.records[i].key <= k <=> i < Child(top.records, k)
    BY <2>1, ChildIs
  <2>3. Child(top.records, k) \in 1 .. 2 /\ (s <= k <=> 1 < Child(top.records, k))
    BY <1>10, <2>2
  <2> QED
    BY <1>11, <2>3
<1>14. Region(top.records, Int, 1) = Lower(Int, s) /\ Region(top.records, Int, 2) = Upper(Int, s)
  <2>1. \A k \in Int : Child(top.records, k) = 1 <=> k < s
    BY <1>13
  <2>2. \A k \in Int : Child(top.records, k) = 2 <=> s <= k
    BY <1>11, <1>13
  <2> QED
    BY <2>1, <2>2 DEF Region, Lower, Upper
<1>15. KidsOK(D, T, H, n + 2)
  <2>1. c \in DOMAIN D /\ n + 1 \in DOMAIN D
    BY <1>1, <1>3
  <2>2. H[c] = ht[c] /\ H[n + 1] = ht[c]
    BY <1>3, <1>7
  <2>3. KidOK(D, T, H, n + 2, 1)
    BY <1>5, <1>7, <1>9, <1>10, <1>14, <2>1, <2>2 DEF KidOK
  <2>4. KidOK(D, T, H, n + 2, 2)
    BY <1>5, <1>7, <1>9, <1>10, <1>14, <2>1, <2>2 DEF KidOK
  <2> SUFFICES ASSUME NEW j \in 1 .. 2 PROVE KidOK(D, T, H, n + 2, j)
    BY <1>9, <1>10 DEF KidsOK
  <2>5. j = 1 \/ j = 2
    OBVIOUS
  <2> QED
    BY <2>3, <2>4, <2>5
<1>16. \A p \in 1 .. n + 2 : p \in 1 .. n \/ p = n + 1 \/ p = n + 2
  BY <1>1
<1>17. \A p \in 1 .. n + 2 : H[p] \in Nat /\ H[p] <= H[n + 2]
  <2> TAKE p \in 1 .. n + 2
  <2>1. \A q \in 1 .. n : ht[q] <= ht[c]
    BY <1>2 DEF PageOK
  <2>2. ht[c] \in Nat /\ ht[c] <= ht[c] + 1
    BY <1>1, <1>3
  <2>3. CASE p \in 1 .. n
    <3>1. ht[p] \in Nat /\ ht[p] <= ht[c] /\ H[p] = ht[p]
      BY <1>1, <1>7, <2>1, <2>3
    <3> QED
      BY <1>5, <2>2, <3>1
  <2>4. CASE p = n + 1
    BY <1>5, <1>7, <2>2, <2>4
  <2>5. CASE p = n + 2
    BY <1>5, <2>2, <2>5
  <2> QED
    BY <1>16, <2>3, <2>4, <2>5
<1>18. \A p \in 1 .. n + 2 : PageOK(D, n + 2, T, H, p)
  <2> TAKE p \in 1 .. n + 2
  <2>1. CASE p \in {c, n + 1}
    <3>1. D[p].leaf <=> H[p] = 0
      BY <1>6, <2>1 DEF PageOK
    <3> QED
      BY <1>6, <1>17, <2>1, <3>1 DEF PageOK
  <2>2. CASE p = n + 2
    <3>1. H[n + 2] # 0
      BY <1>1, <1>3, <1>5
    <3> QED
      BY <1>5, <1>9, <1>12, <1>15, <1>17, <2>2, <3>1 DEF PageOK
  <2>3. CASE p \notin {c, n + 1, n + 2}
    <3>1. p \in 1 .. n /\ p # c
      BY <1>16, <2>3
    <3>2. D[p] = B[p] /\ T[p] = sc[p] /\ H[p] = ht[p]
      BY <1>7, <1>9, <3>1
    <3>3. PageOK(B, c, sc, ht, p)
      BY <1>2, <3>1
    <3>4. ASSUME ~B[p].leaf PROVE KidsOK(D, T, H, p)
      <4>1. \A j \in 1 .. Len(B[p].records) : B[p].records[j].value # c
        BY <1>8, <3>1, <3>4
      <4> QED
        BY <1>6, <3>1, <3>2, <3>4, <4>1
    <3> QED
      BY <1>17, <3>2, <3>3, <3>4 DEF PageOK
  <2> QED
    BY <2>1, <2>2, <2>3
<1>19. T \in [1 .. n + 2 -> SUBSET Int] /\ H \in [1 .. n + 2 -> Nat]
  <2>1. T = [p \in 1 .. n + 2 |-> T[p]] /\ H = [p \in 1 .. n + 2 |-> H[p]]
    BY DEF T, H, TopScopes, TopHeights
  <2>2. \A p \in 1 .. n + 2 : T[p] \in SUBSET Int
    <3> TAKE p \in 1 .. n + 2
    <3>1. T[c] \in SUBSET Int /\ T[n + 1] \in SUBSET Int
      BY <1>7 DEF Lower, Upper
    <3> QED
      BY <1>1, <1>5, <1>7, <1>16, <3>1
  <2> QED
    BY <1>17, <2>1, <2>2
<1>20. \A p, q \in 1 .. n + 2 : Apart(T, H, p, q)
  <2> TAKE p, q \in 1 .. n + 2
  <2>1. \A r \in 1 .. n + 1 : H[r] # H[n + 2]
    <3> TAKE r \in 1 .. n + 1
    <3>1. \A t \in 1 .. n : ht[t] <= ht[c] /\ ht[t] \in Nat
      BY <1>1, <1>2 DEF PageOK
    <3>2. r \in 1 .. n \/ r = n + 1
      BY <1>1
    <3>3. ht[c] \in Nat
      BY <1>1, <1>3
    <3> QED
      BY <1>5, <1>7, <3>1, <3>2, <3>3
  <2>2. (p \in 1 .. n + 1 \/ p = n + 2) /\ (q \in 1 .. n + 1 \/ q = n + 2)
    BY <1>1
  <2>3. CASE p \in 1 .. n + 1 /\ q \in 1 .. n + 1
    BY <1>6, <2>3
  <2>4. CASE p = n + 2 \/ q = n + 2
    BY <2>1, <2>2, <2>4 DEF Apart
  <2> QED
    BY <2>2, <2>3, <2>4
<1>21. n + 2 \in 1 .. n + 2 /\ Len(D) = n + 2 /\ D \in Seq(Page)
  BY <1>1 DEF n
<1>22. Tree(D, n + 2, T, H)
  BY <1>5, <1>18, <1>19, <1>20, <1>21 DEF Tree
<1> QED
  BY <1>22 DEF T, H, s, n

-----------------------------------------------------------------------------
(***************************************************************************)
(* What the code makes of the two halves of a full page is what cutting    *)
(* the page with the new record in it would give.                          *)
(***************************************************************************)

LEMMA SubSeqIs ==
  ASSUME NEW S, NEW s \in Seq(S), NEW a \in 1 .. Len(s), NEW b \in a .. Len(s)
  PROVE  /\ SubSeq(s, a, b) \in Seq(S)
         /\ Len(SubSeq(s, a, b)) = b - a + 1
         /\ \A j \in 1 .. b - a + 1 : SubSeq(s, a, b)[j] = s[a + j - 1]
<1>1. Len(s) \in Nat /\ \A j \in 1 .. Len(s) : s[j] \in S
  BY LenProperties, ElementOfSeq
<1>2. \A j \in a .. b : s[j] \in S
  BY <1>1
<1>3. a \in Int /\ b \in Int
  BY <1>1
<1>4. /\ SubSeq(s, a, b) \in Seq(S)
      /\ Len(SubSeq(s, a, b)) = IF a <= b THEN b - a + 1 ELSE 0
      /\ \A j \in 1 .. b - a + 1 : SubSeq(s, a, b)[j] = s[a + j - 1]
  BY <1>2, <1>3, SubSeqProperties
<1> QED
  BY <1>1, <1>4

\* Low has the first m of all records, high the rest.
Cuts(all, low, high, m) ==
  /\ m \in 1 .. Len(all) - 1
  /\ Len(low) = m
  /\ Len(high) = Len(all) - m
  /\ \A j \in 1 .. m : low[j] = all[j]
  /\ \A j \in 1 .. Len(all) - m : high[j] = all[m + j]

LEMMA LeafHalvesCut ==
  ASSUME NEW records \in Seq(Entry), Len(records) = LeafCapacity,
         NEW new \in Entry, Slot(records, new.key) \in 1 .. Len(records) + 1
  PROVE  LET all == InsertAt(records, Slot(records, new.key), new)
             halves == LeafHalves(records, new)
         IN  /\ halves[1] \in Seq(Entry) /\ halves[2] \in Seq(Entry)
             /\ Len(halves[1]) <= LeafCapacity /\ Len(halves[2]) <= LeafCapacity
             /\ \E m \in 1 .. LeafCapacity : Cuts(all, halves[1], halves[2], m)
<1> DEFINE n == Len(records)
           split == n \div 2
           i == Slot(records, new.key)
           low == SubSeq(records, 1, split)
           high == SubSeq(records, split + 1, n)
           all == InsertAt(records, i, new)
           halves == LeafHalves(records, new)
<1>1. n \in Nat \ {0} /\ split \in Nat \ {0} /\ n = split + split /\ n = LeafCapacity
  BY Capacities DEF CapacityAssumption
<1>2. i \in 1 .. n + 1
  OBVIOUS
<1>3. halves = IF i <= split THEN <<InsertAt(low, i, new), high>>
               ELSE <<low, InsertAt(high, i - split, new)>>
  BY DEF LeafHalves
<1> HIDE DEF n, split, i, halves
<1>4. /\ low \in Seq(Entry) /\ Len(low) = split
      /\ \A j \in 1 .. split : low[j] = records[j]
  <2>1. 1 \in 1 .. n /\ split \in 1 .. n
    BY <1>1
  <2>2. /\ low \in Seq(Entry) /\ Len(low) = split - 1 + 1
        /\ \A j \in 1 .. split - 1 + 1 : low[j] = records[1 + j - 1]
    BY <2>1, SubSeqIs DEF n
  <2> HIDE DEF low
  <2>3. \A j \in 1 .. split : low[j] = records[j]
    <3> TAKE j \in 1 .. split
    <3>1. j \in 1 .. split - 1 + 1 /\ 1 + j - 1 = j
      BY <1>1
    <3> QED
      BY <2>2, <3>1
  <2> QED
    BY <1>1, <2>2, <2>3
<1>5. /\ high \in Seq(Entry) /\ Len(high) = split
      /\ \A j \in 1 .. split : high[j] = records[split + j]
  <2>1. split + 1 \in 1 .. n /\ n \in split + 1 .. n
    BY <1>1
  <2>2. /\ high \in Seq(Entry) /\ Len(high) = n - (split + 1) + 1
        /\ \A j \in 1 .. n - (split + 1) + 1 : high[j] = records[(split + 1) + j - 1]
    BY <2>1, SubSeqIs DEF n
  <2> HIDE DEF high
  <2>3. \A j \in 1 .. split : high[j] = records[split + j]
    <3> TAKE j \in 1 .. split
    <3>1. j \in 1 .. n - (split + 1) + 1 /\ (split + 1) + j - 1 = split + j
      BY <1>1
    <3> QED
      BY <2>2, <3>1
  <2>4. Len(high) = split
    BY <1>1, <2>2
  <2> QED
    BY <2>2, <2>3, <2>4
<1> HIDE DEF low, high
<1>6. /\ all \in Seq(Entry)
      /\ Len(all) = n + 1
      /\ \A j \in 1 .. n + 1 :
           all[j] = IF j < i THEN records[j] ELSE IF j = i THEN new ELSE records[j - 1]
  <2>1. Inserted(all, records, i, new)
    BY <1>2, InsertIs DEF n
  <2> HIDE DEF all
  <2> QED
    BY <2>1 DEF Inserted, n
<1> HIDE DEF all
<1>7. CASE i <= split
  <2> DEFINE first == InsertAt(low, i, new)
  <2>1. i \in 1 .. Len(low) + 1
    BY <1>1, <1>2, <1>4, <1>7
  <2>2. /\ first \in Seq(Entry)
        /\ Len(first) = split + 1
        /\ \A j \in 1 .. split + 1 :
             first[j] = IF j < i THEN low[j] ELSE IF j = i THEN new ELSE low[j - 1]
    <3>1. low \in Seq(Entry) /\ Len(low) = split
      BY <1>4
    <3>2. /\ InsertAt(low, i, new) \in Seq(Entry)
          /\ Len(InsertAt(low, i, new)) = Len(low) + 1
          /\ \A j \in 1 .. Len(low) + 1 :
               InsertAt(low, i, new)[j] = IF j < i THEN low[j] ELSE IF j = i THEN new ELSE low[j - 1]
      <4>1. Inserted(InsertAt(low, i, new), low, i, new)
        BY <2>1, <3>1, InsertIs
      <4> QED
        BY <4>1 DEF Inserted
    <3> QED
      BY <3>1, <3>2
  <2>3. halves[1] = first /\ halves[2] = high
    BY <1>3, <1>7
  <2> HIDE DEF first
  <2>4. \A j \in 1 .. split + 1 : first[j] = all[j]
    <3> TAKE j \in 1 .. split + 1
    <3>1. j \in 1 .. n + 1 /\ j \in Int /\ i \in Int
      BY <1>1, <1>2
    <3>2. CASE j < i
      <4>1. j \in 1 .. split
        BY <1>1, <1>7, <3>1, <3>2
      <4> QED
        BY <1>4, <1>6, <2>2, <3>1, <3>2, <4>1
    <3>3. CASE j = i
      <4>1. ~(j < i)
        BY <3>1, <3>3
      <4> QED
        BY <1>6, <2>2, <3>1, <3>3, <4>1
    <3>4. CASE j > i
      <4>1. j - 1 \in 1 .. split /\ ~(j < i) /\ j # i
        BY <1>1, <1>2, <3>1, <3>4
      <4> QED
        BY <1>4, <1>6, <2>2, <3>1, <4>1
    <3> QED
      BY <3>1, <3>2, <3>3, <3>4
  <2>5. \A j \in 1 .. split : high[j] = all[(split + 1) + j]
    <3> TAKE j \in 1 .. split
    <3>1. /\ (split + 1) + j \in 1 .. n + 1 /\ ~((split + 1) + j < i) /\ (split + 1) + j # i
          /\ ((split + 1) + j) - 1 = split + j
      BY <1>1, <1>2, <1>7
    <3> QED
      BY <1>5, <1>6, <3>1
  <2>6. /\ split + 1 \in 1 .. Len(all) - 1 /\ Len(all) - (split + 1) = split
        /\ split + 1 \in 1 .. LeafCapacity /\ split <= LeafCapacity
    BY <1>1, <1>6
  <2>7. Cuts(all, halves[1], halves[2], split + 1)
    BY <1>5, <2>2, <2>3, <2>4, <2>5, <2>6 DEF Cuts
  <2>8. Len(halves[1]) <= LeafCapacity /\ Len(halves[2]) <= LeafCapacity
    BY <1>5, <2>2, <2>3, <2>6
  <2> QED
    BY <1>5, <2>2, <2>3, <2>6, <2>7, <2>8 DEF all, halves, i
<1>8. CASE ~(i <= split)
  <2> DEFINE second == InsertAt(high, i - split, new)
  <2>1. i - split \in 1 .. Len(high) + 1
    BY <1>1, <1>2, <1>5, <1>8
  <2>2. /\ second \in Seq(Entry)
        /\ Len(second) = split + 1
        /\ \A j \in 1 .. split + 1 :
             second[j] = IF j < i - split THEN high[j] ELSE IF j = i - split THEN new ELSE high[j - 1]
    <3>1. high \in Seq(Entry) /\ Len(high) = split
      BY <1>5
    <3>2. /\ InsertAt(high, i - split, new) \in Seq(Entry)
          /\ Len(InsertAt(high, i - split, new)) = Len(high) + 1
          /\ \A j \in 1 .. Len(high) + 1 :
               InsertAt(high, i - split, new)[j] =
                 IF j < i - split THEN high[j] ELSE IF j = i - split THEN new ELSE high[j - 1]
      <4>1. Inserted(InsertAt(high, i - split, new), high, i - split, new)
        BY <2>1, <3>1, InsertIs
      <4> QED
        BY <4>1 DEF Inserted
    <3> QED
      BY <3>1, <3>2
  <2>3. halves[1] = low /\ halves[2] = second
    BY <1>3, <1>8
  <2> HIDE DEF second
  <2>4. \A j \in 1 .. split : low[j] = all[j]
    <3> TAKE j \in 1 .. split
    <3>1. j \in 1 .. n + 1 /\ j < i
      BY <1>1, <1>2, <1>8
    <3> QED
      BY <1>4, <1>6, <3>1
  <2>5. \A j \in 1 .. split + 1 : second[j] = all[split + j]
    <3> TAKE j \in 1 .. split + 1
    <3>1. split + j \in 1 .. n + 1 /\ j \in Int /\ i \in Int /\ split \in Int
      BY <1>1, <1>2
    <3>2. CASE j < i - split
      <4>1. j \in 1 .. split /\ split + j < i
        BY <1>1, <1>2, <3>1, <3>2
      <4> QED
        BY <1>5, <1>6, <2>2, <3>1, <3>2, <4>1
    <3>3. CASE j = i - split
      <4>1. ~(j < i - split) /\ ~(split + j < i) /\ split + j = i
        BY <3>1, <3>3
      <4> QED
        BY <1>6, <2>2, <3>1, <3>3, <4>1
    <3>4. CASE j > i - split
      <4>1. /\ j - 1 \in 1 .. split /\ ~(j < i - split) /\ j # i - split
            /\ ~(split + j < i) /\ split + j # i
        BY <1>1, <1>2, <1>8, <3>1, <3>4
      <4>2. split + (j - 1) = (split + j) - 1
        BY <3>1
      <4>3. second[j] = high[j - 1] /\ high[j - 1] = records[split + (j - 1)]
        BY <1>5, <2>2, <4>1
      <4>4. all[split + j] = records[(split + j) - 1]
        BY <1>6, <3>1, <4>1
      <4> QED
        BY <4>2, <4>3, <4>4
    <3> QED
      BY <3>1, <3>2, <3>3, <3>4
  <2>6. /\ split \in 1 .. Len(all) - 1 /\ Len(all) - split = split + 1
        /\ split \in 1 .. LeafCapacity /\ split + 1 <= LeafCapacity
    BY <1>1, <1>6
  <2>7. Cuts(all, halves[1], halves[2], split)
    BY <1>4, <2>2, <2>3, <2>4, <2>5, <2>6 DEF Cuts
  <2>8. Len(halves[1]) <= LeafCapacity /\ Len(halves[2]) <= LeafCapacity
    BY <1>1, <1>4, <2>2, <2>3, <2>6
  <2> QED
    BY <1>4, <2>2, <2>3, <2>6, <2>7, <2>8 DEF all, halves, i
<1> QED
  BY <1>7, <1>8

LEMMA InnerHalvesCut ==
  ASSUME NEW records \in Seq(Entry), Len(records) = InnerCapacity,
         Ordered(records, Len(records) - 1), NEW key \in Key, NEW child \in Nat
  PROVE  LET all == WithChild(records, key, child)
             halves == InnerHalves(records, key, child)
         IN  /\ halves.low \in Seq(Entry) /\ halves.high \in Seq(Entry)
             /\ Len(halves.low) <= InnerCapacity /\ Len(halves.high) <= InnerCapacity
             /\ \E m \in 2 .. InnerCapacity :
                  Cuts(all, halves.low, halves.high, m) /\ halves.promoted = all[m].key
<1> DEFINE n == Len(records)
           m == n \div 2 + 1
           i == Child(records, key)
           promoted == records[m].key
           low == SubSeq(records, 1, m)
           high == SubSeq(records, m + 1, n)
           all == WithChild(records, key, child)
           halves == InnerHalves(records, key, child)
<1>1. n \in Nat /\ m \in 2 .. n - 1 /\ n = InnerCapacity
  BY Capacities DEF CapacityAssumption
<1>2. key \in Int /\ records # <<>>
  BY <1>1, KeysAreNumbers, EmptySeq
<1>3. /\ i \in 1 .. n
      /\ \A j \in 1 .. n - 1 : records[j].key <= key <=> j < i
  BY <1>2, ChildIs
<1>4. /\ halves.promoted = promoted
      /\ halves.low = IF key < promoted THEN WithChild(low, key, child) ELSE low
      /\ halves.high = IF key < promoted THEN high ELSE WithChild(high, key, child)
  BY DEF InnerHalves
<1> HIDE DEF n, m, halves
<1>5. /\ low \in Seq(Entry) /\ Len(low) = m
      /\ \A j \in 1 .. m : low[j] = records[j]
  <2>1. 1 \in 1 .. n /\ m \in 1 .. n
    BY <1>1
  <2>2. /\ low \in Seq(Entry) /\ Len(low) = m - 1 + 1
        /\ \A j \in 1 .. m - 1 + 1 : low[j] = records[1 + j - 1]
    BY <2>1, SubSeqIs DEF n
  <2> HIDE DEF low
  <2>3. \A j \in 1 .. m : low[j] = records[j]
    <3> TAKE j \in 1 .. m
    <3>1. j \in 1 .. m - 1 + 1 /\ 1 + j - 1 = j
      BY <1>1
    <3> QED
      BY <2>2, <3>1
  <2> QED
    BY <1>1, <2>2, <2>3
<1>6. /\ high \in Seq(Entry) /\ Len(high) = n - m
      /\ \A j \in 1 .. n - m : high[j] = records[m + j]
  <2>1. m + 1 \in 1 .. n /\ n \in m + 1 .. n
    BY <1>1
  <2>2. /\ high \in Seq(Entry) /\ Len(high) = n - (m + 1) + 1
        /\ \A j \in 1 .. n - (m + 1) + 1 : high[j] = records[(m + 1) + j - 1]
    BY <2>1, SubSeqIs DEF n
  <2> HIDE DEF high
  <2>3. \A j \in 1 .. n - m : high[j] = records[m + j]
    <3> TAKE j \in 1 .. n - m
    <3>1. j \in 1 .. n - (m + 1) + 1 /\ (m + 1) + j - 1 = m + j
      BY <1>1
    <3> QED
      BY <2>2, <3>1
  <2>4. Len(high) = n - m
    BY <1>1, <2>2
  <2> QED
    BY <2>2, <2>3, <2>4
<1> HIDE DEF low, high
<1>7. /\ Len(all) = n + 1
      /\ \A j \in 1 .. n + 1 :
           all[j] = IF j < i THEN records[j]
                    ELSE IF j = i THEN Record(key, records[i].value)
                    ELSE IF j = i + 1 THEN Record(records[i].key, child)
                    ELSE records[j - 1]
  <2>1. Widened(all, records, i, key, child)
    BY <1>3, WithChildIs DEF n
  <2> HIDE DEF all, i
  <2> QED
    BY <2>1 DEF Widened, n
<1>8. \A j \in 1 .. n - 1 : records[j].key \in Int
  <2> TAKE j \in 1 .. n - 1
  <2>1. j \in 1 .. Len(records)
    BY <1>1 DEF n
  <2> QED
    BY <2>1, KeyOfEntry
<1>9. \A a, b \in 1 .. n - 1 : a < b => records[a].key < records[b].key
  BY DEF Ordered, n
<1>10. promoted \in Int /\ (promoted <= key <=> m < i)
  BY <1>1, <1>3, <1>8
<1> HIDE DEF i, all, promoted
<1>11. CASE key < promoted
  <2>1. i \in 1 .. m
    BY <1>1, <1>2, <1>3, <1>10, <1>11
  <2>2. Child(low, key) = i
    <3>1. low # <<>> /\ i \in 1 .. Len(low)
      BY <1>1, <1>5, <2>1, EmptySeq
    <3>2. \A j \in 1 .. m - 1 : j \in 1 .. m /\ j \in 1 .. n - 1
      BY <1>1
    <3>3. Len(low) - 1 = m - 1
      BY <1>5
    <3>4. Ordered(low, m - 1)
      BY <1>5, <1>9, <3>2 DEF Ordered
    <3>5. \A j \in 1 .. m - 1 : low[j].key <= key <=> j < i
      BY <1>3, <1>5, <3>2
    <3> QED
      BY <1>2, <1>5, <3>1, <3>3, <3>4, <3>5, ChildOnly
  <2> DEFINE first == WithChild(low, key, child)
  <2>3. Widened(first, low, i, key, child)
    BY <1>5, <2>1, <2>2, WithChildIs
  <2> HIDE DEF first
  <2>4. /\ first \in Seq(Entry) /\ Len(first) = m + 1
        /\ \A j \in 1 .. m + 1 :
             first[j] = IF j < i THEN low[j]
                        ELSE IF j = i THEN Record(key, low[i].value)
                        ELSE IF j = i + 1 THEN Record(low[i].key, child)
                        ELSE low[j - 1]
    BY <1>5, <2>3 DEF Widened
  <2>5. halves.low = first /\ halves.high = high /\ halves.promoted = promoted
    BY <1>4, <1>11 DEF first
  <2>6. \A j \in 1 .. m + 1 : first[j] = all[j]
    <3> TAKE j \in 1 .. m + 1
    <3>1. j \in 1 .. n + 1 /\ j \in Int /\ i \in Int /\ low[i] = records[i]
      BY <1>1, <1>5, <2>1
    <3>2. CASE j < i
      <4>1. j \in 1 .. m
        BY <1>1, <2>1, <3>1, <3>2
      <4> QED
        BY <1>5, <1>7, <2>4, <3>1, <3>2, <4>1
    <3>3. CASE j = i
      <4>1. ~(j < i)
        BY <3>1, <3>3
      <4> QED
        BY <1>7, <2>4, <3>1, <3>3, <4>1
    <3>4. CASE j = i + 1
      <4>1. ~(j < i) /\ j # i
        BY <3>1, <3>4
      <4> QED
        BY <1>7, <2>4, <3>1, <3>4, <4>1
    <3>5. CASE j > i + 1
      <4>1. j - 1 \in 1 .. m /\ ~(j < i) /\ j # i /\ j # i + 1
        BY <1>1, <2>1, <3>1, <3>5
      <4> QED
        BY <1>5, <1>7, <2>4, <3>1, <4>1
    <3> QED
      BY <3>1, <3>2, <3>3, <3>4, <3>5
  <2>7. \A j \in 1 .. n - m : high[j] = all[(m + 1) + j]
    <3> TAKE j \in 1 .. n - m
    <3>1. /\ (m + 1) + j \in 1 .. n + 1 /\ ~((m + 1) + j < i) /\ (m + 1) + j # i
          /\ (m + 1) + j # i + 1 /\ ((m + 1) + j) - 1 = m + j
      BY <1>1, <2>1
    <3> QED
      BY <1>6, <1>7, <3>1
  <2>8. /\ m + 1 \in 1 .. Len(all) - 1 /\ Len(all) - (m + 1) = n - m
        /\ m + 1 \in 2 .. InnerCapacity /\ n - m <= InnerCapacity
    <3>1. Len(all) = n + 1
      BY <1>7
    <3> QED
      BY <1>1, <3>1
  <2>9. Cuts(all, halves.low, halves.high, m + 1)
    BY <1>6, <2>4, <2>5, <2>6, <2>7, <2>8 DEF Cuts
  <2>10. Len(halves.low) <= InnerCapacity /\ Len(halves.high) <= InnerCapacity
    BY <1>1, <1>6, <2>4, <2>5, <2>8
  <2>11. halves.promoted = all[m + 1].key
    <3>1. m + 1 \in 1 .. n + 1 /\ ~(m + 1 < i) /\ m + 1 # i /\ (m + 1) - 1 = m
      BY <1>1, <2>1
    <3>2. CASE i = m
      BY <1>7, <2>5, <3>1, <3>2 DEF promoted, Record
    <3>3. CASE i # m
      <4>1. m + 1 # i + 1
        BY <1>1, <2>1, <3>3
      <4>2. all[m + 1] = records[m]
        BY <1>7, <3>1, <4>1
      <4> QED
        BY <2>5, <4>2 DEF promoted
    <3> QED
      BY <3>2, <3>3
  <2> QED
    BY <1>6, <2>4, <2>5, <2>8, <2>9, <2>10, <2>11 DEF all, halves
<1>12. CASE ~(key < promoted)
  <2>1. i - m \in 1 .. n - m /\ i \in Int /\ m \in Int
    BY <1>1, <1>2, <1>3, <1>10, <1>12
  <2>2. Child(high, key) = i - m
    <3>1. high # <<>> /\ i - m \in 1 .. Len(high)
      BY <1>1, <1>6, <2>1, EmptySeq
    <3>2. \A j \in 1 .. n - m - 1 : j \in 1 .. n - m /\ m + j \in 1 .. n - 1
      BY <1>1
    <3>3. Len(high) - 1 = n - m - 1
      BY <1>6
    <3>4. Ordered(high, n - m - 1)
      <4> SUFFICES ASSUME NEW a \in 1 .. n - m - 1, NEW b \in 1 .. n - m - 1, a < b
                   PROVE  high[a].key < high[b].key
        BY DEF Ordered
      <4>1. m + a < m + b
        BY <1>1
      <4> QED
        BY <1>6, <1>9, <3>2, <4>1
    <3>5. \A j \in 1 .. n - m - 1 : high[j].key <= key <=> j < i - m
      <4> TAKE j \in 1 .. n - m - 1
      <4>1. high[j].key <= key <=> m + j < i
        BY <1>3, <1>6, <3>2
      <4>2. m + j < i <=> j < i - m
        BY <1>1, <2>1
      <4> QED
        BY <4>1, <4>2
    <3> QED
      BY <1>2, <1>6, <3>1, <3>3, <3>4, <3>5, ChildOnly
  <2> DEFINE second == WithChild(high, key, child)
             e == i - m
  <2>3. Widened(second, high, e, key, child)
    <3>1. Child(high, key) \in 1 .. Len(high)
      BY <1>6, <2>1, <2>2
    <3> QED
      BY <1>6, <2>2, <3>1, WithChildIs
  <2> HIDE DEF second, e
  <2>4. /\ second \in Seq(Entry) /\ Len(second) = n - m + 1
        /\ \A j \in 1 .. n - m + 1 :
             second[j] = IF j < e THEN high[j]
                         ELSE IF j = e THEN Record(key, high[e].value)
                         ELSE IF j = e + 1 THEN Record(high[e].key, child)
                         ELSE high[j - 1]
    BY <1>6, <2>3 DEF Widened
  <2>5. halves.low = low /\ halves.high = second /\ halves.promoted = promoted
    BY <1>4, <1>12 DEF second
  <2>6. \A j \in 1 .. m : low[j] = all[j]
    <3> TAKE j \in 1 .. m
    <3>1. j \in 1 .. n + 1 /\ j < i
      BY <1>1, <2>1
    <3> QED
      BY <1>5, <1>7, <3>1
  <2>7. \A j \in 1 .. n - m + 1 : second[j] = all[m + j]
    <3> TAKE j \in 1 .. n - m + 1
    <3>1. /\ m + j \in 1 .. n + 1 /\ j \in Int /\ i \in Int /\ m \in Int
          /\ e \in 1 .. n - m /\ e \in Int /\ m + e = i
      BY <1>1, <2>1 DEF e
    <3>2. high[e] = records[i]
      BY <1>6, <3>1
    <3>3. CASE j < e
      <4>1. j \in 1 .. n - m /\ m + j < i
        BY <1>1, <3>1, <3>3
      <4> QED
        BY <1>6, <1>7, <2>4, <3>1, <3>3, <4>1
    <3>4. CASE j = e
      <4>1. ~(j < e) /\ m + j = i /\ ~(m + j < i)
        BY <3>1, <3>4
      <4> QED
        BY <1>7, <2>4, <3>1, <3>2, <3>4, <4>1
    <3>5. CASE j = e + 1
      <4>1. ~(j < e) /\ j # e /\ m + j = i + 1 /\ ~(m + j < i) /\ m + j # i
        BY <3>1, <3>5
      <4> QED
        BY <1>7, <2>4, <3>1, <3>2, <3>5, <4>1
    <3>6. CASE j > e + 1
      <4>1. /\ ~(j < e) /\ j # e /\ j # e + 1 /\ ~(m + j < i) /\ m + j # i /\ m + j # i + 1
            /\ j - 1 \in 1 .. n - m /\ m + (j - 1) = (m + j) - 1
        BY <1>1, <3>1, <3>6
      <4>2. second[j] = high[j - 1] /\ high[j - 1] = records[m + (j - 1)]
        BY <1>6, <2>4, <4>1
      <4>3. all[m + j] = records[(m + j) - 1]
        BY <1>7, <3>1, <4>1
      <4> QED
        BY <4>1, <4>2, <4>3
    <3> QED
      BY <3>1, <3>3, <3>4, <3>5, <3>6
  <2>8. /\ m \in 1 .. Len(all) - 1 /\ Len(all) - m = n - m + 1
        /\ m \in 2 .. InnerCapacity /\ n - m + 1 <= InnerCapacity /\ m <= InnerCapacity
    BY <1>1, <1>7
  <2>9. Cuts(all, halves.low, halves.high, m)
    BY <1>5, <2>4, <2>5, <2>6, <2>7, <2>8 DEF Cuts
  <2>10. Len(halves.low) <= InnerCapacity /\ Len(halves.high) <= InnerCapacity
    BY <1>1, <1>5, <2>4, <2>5, <2>8
  <2>11. halves.promoted = all[m].key
    <3>1. m \in 1 .. n + 1 /\ m < i
      BY <1>1, <2>1
    <3>2. all[m] = records[m]
      BY <1>7, <3>1
    <3> QED
      BY <2>5, <3>2 DEF promoted
  <2> QED
    BY <1>5, <2>4, <2>5, <2>8, <2>9, <2>10, <2>11 DEF all, halves
<1> QED
  BY <1>11, <1>12

-----------------------------------------------------------------------------
(***************************************************************************)
(* The steps of insert.  Completed is the tree with the pair that a split  *)
(* promotes entered above it, by a page that has room for it.              *)
(***************************************************************************)

Completed(pages, root, path, promoted) ==
  IF promoted = <<>> THEN pages
  ELSE IF path # <<>>
    THEN [pages EXCEPT ![Last(path)].records = WithChild(@, promoted[1], promoted[2])]
    ELSE Append(pages, Inner(<<Record(promoted[1], root), Record(DefaultKey, promoted[2])>>))

CompletedRoot(pages, root, path, promoted) ==
  IF promoted # <<>> /\ path = <<>> THEN Len(pages) + 1 ELSE root

\* The path of a call is the way of its key, from the root down.
OnWay(path, key, root, sc, ht) ==
  \A i \in 1 .. Len(path) : key \in sc[path[i]] /\ ht[path[i]] + i = ht[root] + 1

\* A split returns to inner pages.
Rooted(pages, root, path, key, promoted, sc, ht) ==
  /\ Tree(Completed(pages, root, path, promoted),
          CompletedRoot(pages, root, path, promoted), sc, ht)
  /\ OnWay(path, key, CompletedRoot(pages, root, path, promoted), sc, ht)
  /\ promoted # <<>> => \A i \in 1 .. Len(path) : ht[path[i]] # 0

LEMMA FrontIs ==
  ASSUME NEW S, NEW s \in Seq(S), s # <<>>
  PROVE  /\ Front(s) \in Seq(S) /\ Len(Front(s)) = Len(s) - 1
         /\ \A i \in 1 .. Len(s) - 1 : i \in 1 .. Len(s) /\ Front(s)[i] = s[i]
         /\ Len(s) \in Nat \ {0} /\ Last(s) = s[Len(s)] /\ Last(s) \in S
<1> DEFINE k == Len(s)
<1>0. k \in Nat /\ k # 0
  BY EmptySeq
<1> HIDE DEF k
<1>1. Len(s) \in Nat \ {0}
  BY <1>0 DEF k
<1>2. Last(s) = s[Len(s)] /\ Last(s) \in S
  BY <1>1, ElementOfSeq DEF Last
<1>3. /\ Front(s) \in Seq(S)
      /\ Len(Front(s)) = IF 1 <= Len(s) - 1 THEN (Len(s) - 1) - 1 + 1 ELSE 0
      /\ \A i \in 1 .. (Len(s) - 1) - 1 + 1 : Front(s)[i] = s[1 + i - 1]
  <2>1. \A i \in 1 .. Len(s) - 1 : s[i] \in S
    BY <1>1, ElementOfSeq
  <2>2. 1 \in Int /\ Len(s) - 1 \in Int
    BY <1>1
  <2>3. Front(s) = SubSeq(s, 1, Len(s) - 1)
    BY DEF Front
  <2> QED
    BY <2>1, <2>2, <2>3, SubSeqProperties
<1>4. Len(Front(s)) = Len(s) - 1
  <2>1. Len(Front(s)) = IF 1 <= Len(s) - 1 THEN (Len(s) - 1) - 1 + 1 ELSE 0
    BY <1>3
  <2>2. CASE 1 <= Len(s) - 1
    <3>1. (Len(s) - 1) - 1 + 1 = Len(s) - 1
      BY <1>1
    <3> QED
      BY <2>1, <2>2, <3>1
  <2>3. CASE ~(1 <= Len(s) - 1)
    <3>1. ~(1 <= k - 1)
      BY <2>3 DEF k
    <3>2. k - 1 = 0
      BY <1>0, <3>1
    <3>3. Len(s) - 1 = 0
      BY <3>2 DEF k
    <3> QED
      BY <2>1, <2>3, <3>3
  <2> QED
    BY <2>2, <2>3
<1>5. \A i \in 1 .. Len(s) - 1 : i \in 1 .. Len(s) /\ Front(s)[i] = s[i]
  <2> TAKE i \in 1 .. Len(s) - 1
  <2>1. i \in 1 .. (Len(s) - 1) - 1 + 1 /\ 1 + i - 1 = i /\ i \in 1 .. Len(s)
    BY <1>1
  <2> QED
    BY <1>3, <2>1
<1> QED
  BY <1>1, <1>2, <1>3, <1>4, <1>5

Changed(new, pages, i, page) ==
  /\ new \in Seq(Page) /\ Len(new) = Len(pages)
  /\ \A j \in 1 .. Len(pages) : new[j] = IF j = i THEN page ELSE pages[j]

LEMMA PageChanged ==
  ASSUME NEW pages \in Seq(Page), NEW i \in 1 .. Len(pages), NEW page \in Page
  PROVE  Changed([pages EXCEPT ![i] = page], pages, i, page)
BY ExceptSeq DEF Changed

Extended(new, pages, page) ==
  /\ new \in Seq(Page) /\ Len(new) = Len(pages) + 1
  /\ \A j \in 1 .. Len(pages) : new[j] = pages[j]
  /\ new[Len(pages) + 1] = page

LEMMA PageAdded ==
  ASSUME NEW pages \in Seq(Page), NEW page \in Page
  PROVE  Extended(Append(pages, page), pages, page)
BY AppendProperties DEF Extended

\* Pages after the split of the last page of a path, a page of the completed tree B.
SplitOf(next, pages, B, path, low, high, m) ==
  /\ path \in Seq(1 .. Len(B)) /\ path # <<>>
  /\ pages \in Seq(Page) /\ Len(pages) = Len(B)
  /\ \A p \in 1 .. Len(B) : p # Last(path) => B[p] = pages[p]
  /\ low \in Page /\ high \in Page
  /\ Cut(B[Last(path)], low, high, m) /\ (B[Last(path)].leaf \/ m # 1)
  /\ Between(B[Last(path)], m) \in Key
  /\ next = Append([pages EXCEPT ![Last(path)] = low], high)

LEMMA SplitPages ==
  ASSUME NEW next, NEW pages, NEW B, NEW path, NEW low, NEW high, NEW m,
         SplitOf(next, pages, B, path, low, high, m)
  PROVE  /\ next \in Seq(Page) /\ Len(next) = Len(B) + 1
         /\ \A p \in 1 .. Len(B) : next[p] = IF p = Last(path) THEN low ELSE pages[p]
         /\ next[Len(B) + 1] = high
<1> DEFINE c == Last(path)
           half == [pages EXCEPT ![c] = low]
<1>1. /\ path \in Seq(1 .. Len(B)) /\ path # <<>>
      /\ pages \in Seq(Page) /\ Len(pages) = Len(B) /\ low \in Page /\ high \in Page
      /\ next = Append(half, high)
  BY DEF SplitOf
<1>2. c \in 1 .. Len(pages)
  BY <1>1, FrontIs
<1> HIDE DEF c
<1>3. Changed(half, pages, c, low)
  BY <1>1, <1>2, PageChanged
<1> HIDE DEF half
<1>4. /\ half \in Seq(Page) /\ Len(half) = Len(B)
      /\ \A p \in 1 .. Len(B) : half[p] = IF p = c THEN low ELSE pages[p]
  BY <1>1, <1>3 DEF Changed
<1>5. Extended(next, half, high)
  BY <1>1, <1>4, PageAdded
<1> QED
  BY <1>4, <1>5 DEF Extended, c

\* The split of a page leaves a tree to complete one page further up.
LEMMA SplitUp ==
  ASSUME NEW B, NEW root, NEW sc, NEW ht, Tree(B, root, sc, ht),
         NEW path, NEW key, OnWay(path, key, root, sc, ht),
         NEW next, NEW pages, NEW low, NEW high, NEW m,
         SplitOf(next, pages, B, path, low, high, m)
  PROVE  \E T, H : Rooted(next, root, Front(path), key,
                          <<Between(B[Last(path)], m), Len(pages) + 1>>, T, H)
<1> DEFINE n == Len(B)
           L == Len(path)
           c == Last(path)
           s == Between(B[c], m)
           promoted == <<s, n + 1>>
<1>1. /\ path \in Seq(1 .. n) /\ path # <<>>
      /\ pages \in Seq(Page) /\ Len(pages) = n
      /\ \A p \in 1 .. n : p # c => B[p] = pages[p]
      /\ low \in Page /\ high \in Page
      /\ Cut(B[c], low, high, m) /\ (B[c].leaf \/ m # 1)
      /\ s \in Key
      /\ next = Append([pages EXCEPT ![c] = low], high)
  BY DEF SplitOf
<1>2. /\ Front(path) \in Seq(1 .. n) /\ Len(Front(path)) = L - 1
      /\ \A i \in 1 .. L - 1 : i \in 1 .. L /\ Front(path)[i] = path[i]
      /\ L \in Nat \ {0} /\ c = path[L] /\ c \in 1 .. n
  BY <1>1, FrontIs
<1>3. /\ n \in Nat /\ DOMAIN B = 1 .. n
      /\ \A p \in 1 .. n :
           /\ B[p] \in Page /\ B[p].records \in Seq(Entry) /\ Len(B[p].records) \in Nat
           /\ sc[p] \in SUBSET Int /\ ht[p] \in Nat
  BY TreeType
<1>4. root \in 1 .. n /\ sc[root] = Int /\ \A p \in 1 .. n : PageOK(B, root, sc, ht, p)
  BY DEF Tree
<1>5. \A i \in 1 .. L : path[i] \in 1 .. n /\ key \in sc[path[i]] /\ ht[path[i]] + i = ht[root] + 1
  BY <1>1, ElementOfSeq DEF OnWay
<1>6. promoted # <<>> /\ promoted[1] = s /\ promoted[2] = n + 1
  OBVIOUS
<1>7. /\ next \in Seq(Page) /\ Len(next) = n + 1
      /\ \A p \in 1 .. n : next[p] = IF p = c THEN low ELSE pages[p]
      /\ next[n + 1] = high
  BY SplitPages
<1>8. NodeOK(B[c], sc[c])
  BY <1>2, <1>4 DEF PageOK
<1>9. s \in sc[c]
  BY <1>1, <1>2, <1>3, <1>8, HalvesOK
<1> HIDE DEF n, L, c, s, promoted
<1>10. CASE L = 1
  <2>1. Front(path) = <<>>
    BY <1>2, <1>10, EmptySeq
  <2>2. c = root
    <3>1. key \in sc[c] /\ ht[c] + 1 = ht[root] + 1
      BY <1>2, <1>5, <1>10
    <3>2. ht[c] = ht[root] /\ key \in sc[root]
      <4>1. ht[c] \in Nat /\ ht[root] \in Nat /\ sc[c] \in SUBSET Int /\ sc[root] = Int
        BY <1>2, <1>3, <1>4
      <4>2. ht[c] = ht[root]
        BY <3>1, <4>1
      <4> QED
        BY <3>1, <4>1, <4>2
    <3> QED
      BY <1>2, <1>4, <3>1, <3>2, OnePage DEF n
  <2> DEFINE top == Inner(<<Record(s, root), Record(DefaultKey, n + 1)>>)
             D == Append(next, top)
  <2>3. /\ top \in Page /\ ~top.leaf
        /\ top.records = <<Record(s, c), Record(DefaultKey, n + 1)>>
    <3>1. Record(s, root) \in Entry /\ Record(DefaultKey, n + 1) \in Entry
      BY <1>1, <1>3, <1>4 DEF Entry, Record
    <3>2. <<Record(s, root), Record(DefaultKey, n + 1)>> \in Seq(Entry)
      BY <3>1
    <3> QED
      BY <2>2, <3>2 DEF Inner, Page, None
  <2>4. Completed(next, root, Front(path), promoted) = D
    BY <1>6, <2>1 DEF Completed
  <2>5. CompletedRoot(next, root, Front(path), promoted) = n + 2
    BY <1>3, <1>6, <1>7, <2>1 DEF CompletedRoot
  <2>6. /\ D \in Seq(Page) /\ Len(D) = n + 2
        /\ D[c] = low /\ D[n + 1] = high /\ D[n + 2] = top
        /\ \A p \in 1 .. n : p # c => D[p] = B[p]
    <3>1. Extended(D, next, top)
      BY <1>7, <2>3, PageAdded
    <3> HIDE DEF D, top
    <3>2. /\ D \in Seq(Page) /\ Len(D) = (n + 1) + 1
          /\ \A p \in 1 .. n + 1 : D[p] = next[p]
          /\ D[(n + 1) + 1] = top
      BY <1>7, <3>1 DEF Extended
    <3>3. (n + 1) + 1 = n + 2 /\ n + 1 \in 1 .. n + 1 /\ \A p \in 1 .. n : p \in 1 .. n + 1
      BY <1>3
    <3> QED
      BY <1>1, <1>2, <1>7, <3>2, <3>3
  <2> HIDE DEF top, D
  <2> DEFINE T == TopScopes(sc, n, c, s)
             H == TopHeights(ht, n, c)
  <2>7. Tree(D, n + 2, T, H)
    <3>1. Tree(B, c, sc, ht)
      BY <2>2
    <3> HIDE DEF T, H
    <3>2. Tree(D, n + 2, TopScopes(sc, n, c, s), TopHeights(ht, n, c))
      BY <1>1, <2>3, <2>6, <3>1, SplitTop DEF n, s
    <3> QED
      BY <3>2 DEF T, H
  <2> HIDE DEF T, H
  <2>8. OnWay(Front(path), key, n + 2, T, H) /\ \A i \in 1 .. Len(Front(path)) : H[Front(path)[i]] # 0
    <3>1. Len(Front(path)) = 0
      BY <1>2, <1>10
    <3> QED
      BY <3>1 DEF OnWay
  <2>9. Rooted(next, root, Front(path), key, promoted, T, H)
    BY <2>4, <2>5, <2>7, <2>8 DEF Rooted
  <2> QED
    BY <1>1, <2>9 DEF promoted, s, n, c
<1>11. CASE L # 1
  <2> DEFINE b == path[L - 1]
  <2>1. /\ L - 1 \in 1 .. L /\ L \in 1 .. L /\ b \in 1 .. n /\ c # b /\ ~B[b].leaf
        /\ ht[c] + 1 = ht[b] /\ key \in sc[b] /\ key \in sc[c]
    <3>1. L - 1 \in 1 .. L /\ L \in 1 .. L
      BY <1>2, <1>11
    <3>2. b \in 1 .. n /\ ht[b] + (L - 1) = ht[root] + 1 /\ key \in sc[b]
      BY <1>5, <3>1
    <3>3. ht[c] + L = ht[root] + 1 /\ key \in sc[c]
      BY <1>2, <1>5, <3>1
    <3>4. ht[b] \in Nat /\ ht[c] \in Nat /\ ht[root] \in Nat
      BY <1>2, <1>3, <1>4, <3>2
    <3>5. ht[c] + 1 = ht[b]
      <4>1. L \in Nat
        BY <1>2
      <4> QED
        BY <3>2, <3>3, <3>4, <4>1
    <3>6. ~B[b].leaf
      BY <1>4, <3>2, <3>4, <3>5 DEF PageOK
    <3> QED
      BY <3>1, <3>2, <3>3, <3>4, <3>5, <3>6
  <2>2. Front(path) # <<>> /\ Last(Front(path)) = b
    <3>1. Len(Front(path)) = L - 1 /\ L - 1 # 0
      BY <1>2, <1>11
    <3>2. Front(path) # <<>>
      BY <1>2, <3>1, EmptySeq
    <3>3. Last(Front(path)) = Front(path)[L - 1]
      BY <3>1 DEF Last
    <3>4. L - 1 \in 1 .. L - 1
      BY <1>2, <1>11
    <3> QED
      BY <1>2, <3>2, <3>3, <3>4
  <2> HIDE DEF b
  <2> DEFINE i == Child(B[b].records, key)
  <2>3. /\ i \in 1 .. Len(B[b].records) /\ B[b].records[i].value = c
        /\ sc[c] = Region(B[b].records, sc[b], i)
    <3>1. PageOK(B, root, sc, ht, b)
      BY <1>4, <2>1
    <3>2. i \in 1 .. Len(B[b].records)
      <4>1. B[b].records # <<>> /\ Ordered(B[b].records, Len(B[b].records) - 1)
        BY <2>1, <3>1 DEF PageOK, NodeOK, NumKeys
      <4>2. key \in Int /\ B[b].records \in Seq(Entry)
        BY <1>3, <2>1
      <4> QED
        BY <4>1, <4>2, ChildIs
    <3>3. KidOK(B, sc, ht, b, i)
      BY <2>1, <3>1, <3>2 DEF PageOK, KidsOK
    <3> DEFINE v == B[b].records[i].value
    <3>4. v \in 1 .. n /\ ht[v] + 1 = ht[b] /\ sc[v] = Region(B[b].records, sc[b], i)
      BY <1>3, <3>3 DEF KidOK
    <3> HIDE DEF v
    <3>5. key \in sc[v]
      BY <2>1, <3>4 DEF Region
    <3>6. ht[v] = ht[c]
      <4>1. ht[v] \in Nat /\ ht[c] \in Nat
        BY <1>2, <1>3, <3>4
      <4>2. ht[v] + 1 = ht[c] + 1
        BY <2>1, <3>4
      <4> QED
        BY <4>1, <4>2
    <3>7. v = c
      BY <1>2, <2>1, <3>4, <3>5, <3>6, OnePage DEF n
    <3> QED
      BY <3>2, <3>4, <3>7 DEF v
  <2> HIDE DEF i
  <2>4. Child(B[b].records, s) = i
    BY <1>9, <2>3 DEF Region
  <2>5. next[b] = B[b] /\ B[b] \in Page /\ b \in 1 .. n + 1
    BY <1>1, <1>3, <1>7, <2>1
  <2> DEFINE wide == [B[b] EXCEPT !.records = WithChild(@, s, n + 1)]
             D == [next EXCEPT ![b] = wide]
  <2>6. Widened(WithChild(B[b].records, s, n + 1), B[b].records, i, s, n + 1)
    BY <1>1, <1>3, <2>1, <2>3, <2>4, WithChildIs
  <2>7. /\ wide \in Page /\ ~wide.leaf
        /\ Widened(wide.records, B[b].records, i, s, n + 1)
    <3>1. WithChild(B[b].records, s, n + 1) \in Seq(Entry)
      BY <2>6 DEF Widened
    <3>2. wide.records = WithChild(B[b].records, s, n + 1)
      BY <2>5 DEF Page
    <3> QED
      BY <2>1, <2>5, <2>6, <3>1, <3>2 DEF Page
  <2>8. Completed(next, root, Front(path), promoted) = D
    BY <1>6, <2>2, <2>5 DEF Completed
  <2>9. CompletedRoot(next, root, Front(path), promoted) = root
    BY <2>2 DEF CompletedRoot
  <2> HIDE DEF wide
  <2>10. /\ D \in Seq(Page) /\ Len(D) = n + 1
         /\ D[c] = low /\ D[b] = wide /\ D[n + 1] = high
         /\ \A p \in 1 .. n : p # c /\ p # b => D[p] = B[p]
    <3>1. Changed(D, next, b, wide)
      BY <1>7, <2>5, <2>7, PageChanged
    <3> HIDE DEF D
    <3>2. /\ D \in Seq(Page) /\ Len(D) = n + 1
          /\ \A p \in 1 .. n + 1 : D[p] = IF p = b THEN wide ELSE next[p]
      BY <1>7, <3>1 DEF Changed
    <3>3. n + 1 \in 1 .. n + 1 /\ n + 1 # b /\ \A p \in 1 .. n : p \in 1 .. n + 1
      BY <1>3, <2>1
    <3> QED
      BY <1>1, <1>2, <1>7, <2>1, <3>2, <3>3
  <2> HIDE DEF D
  <2> DEFINE T == NewScopes(sc, n, c, s)
             H == NewHeights(ht, n, c)
  <2>11. Tree(D, root, T, H)
    <3> HIDE DEF T, H
    <3>1. Tree(D, root, NewScopes(sc, n, c, s), NewHeights(ht, n, c))
      BY <1>1, <1>2, <2>1, <2>3, <2>7, <2>10, SplitBelow DEF n, s
    <3> QED
      BY <3>1 DEF T, H
  <2>12. \A p \in 1 .. n : H[p] = ht[p] /\ (p # c => T[p] = sc[p])
    <3>1. \A p \in 1 .. n : p \in 1 .. n + 1 /\ p # n + 1
      BY <1>3
    <3> QED
      BY <3>1 DEF NewScopes, NewHeights
  <2> HIDE DEF T, H
  <2>13. \A j \in 1 .. L - 1 :
           /\ Front(path)[j] = path[j] /\ path[j] \in 1 .. n
           /\ key \in T[path[j]] /\ H[path[j]] + j = H[root] + 1 /\ H[path[j]] # 0
    <3> TAKE j \in 1 .. L - 1
    <3>1. j \in 1 .. L /\ Front(path)[j] = path[j] /\ L \in 1 .. L
      BY <1>2
    <3>2. path[j] \in 1 .. n /\ key \in sc[path[j]] /\ ht[path[j]] + j = ht[root] + 1
      BY <1>5, <3>1
    <3>3. ht[c] + L = ht[root] + 1
      BY <1>2, <1>5, <3>1
    <3>4. ht[path[j]] \in Nat /\ ht[c] \in Nat /\ ht[root] \in Nat
      BY <1>2, <1>3, <1>4, <3>2
    <3>5. ht[path[j]] # ht[c] /\ ht[path[j]] # 0
      <4>1. L \in Nat /\ j \in 1 .. L - 1
        BY <1>2
      <4>2. ht[path[j]] > ht[c]
        BY <3>2, <3>3, <3>4, <4>1
      <4> QED
        BY <3>4, <4>2
    <3> QED
      BY <1>4, <2>12, <3>1, <3>2, <3>5
  <2>14. OnWay(Front(path), key, root, T, H) /\ \A j \in 1 .. Len(Front(path)) : H[Front(path)[j]] # 0
    BY <1>2, <2>13 DEF OnWay
  <2>15. Rooted(next, root, Front(path), key, promoted, T, H)
    BY <2>8, <2>9, <2>11, <2>14 DEF Rooted
  <2> QED
    BY <1>1, <2>15 DEF promoted, s, n, c
<1> QED
  BY <1>10, <1>11

-----------------------------------------------------------------------------
(***************************************************************************)
(* The invariant.                                                          *)
(***************************************************************************)

LinkOK(pages, right) ==
  right = None \/ (right \in 1 .. Len(pages) /\ pages[right].leaf)

\* A leaf holds entries; an inner page holds children, and keys between them.
SlotFits(page, i, n) ==
  /\ page.leaf => page.records[i].key \in Key /\ page.records[i].value \in Rid
  /\ ~page.leaf => /\ i < Len(page.records) => page.records[i].key \in Key
                   /\ page.records[i].value \in 1 .. n

Fits(page, n) ==
  /\ Len(page.records) <= IF page.leaf THEN LeafCapacity ELSE InnerCapacity
  /\ \A i \in 1 .. Len(page.records) : SlotFits(page, i, n)
  /\ ~page.leaf => page.records # <<>> /\ Ordered(page.records, Len(page.records) - 1)

PagesFit(pages) ==
  /\ pages \in Seq(Page)
  /\ \A p \in 1 .. Len(pages) : Fits(pages[p], Len(pages)) /\ LinkOK(pages, pages[p].right)

CallFits(cl, n) ==
  \/ cl = Idle
  \/ /\ cl \in [key : Key, rid : Rid, path : Seq(1 .. n), promoted : {<<>>} \cup (Key \X (1 .. n))]
     /\ cl.promoted = <<>> => cl.path # <<>>

Inv(pages, root, cl) ==
  /\ PagesFit(pages)
  /\ root \in 1 .. Len(pages)
  /\ CallFits(cl, Len(pages))
  /\ \E sc, ht : Rooted(pages, root, cl.path, cl.key, cl.promoted, sc, ht)

IInv == Inv(buffer, root_page, call)

\* Pages that fit stay so when others change that do not become leaves or cease to be.
LEMMA FitsKept ==
  ASSUME NEW pages, PagesFit(pages), NEW next \in Seq(Page), Len(pages) <= Len(next),
         \A p \in 1 .. Len(pages) : next[p].leaf = pages[p].leaf,
         \A p \in 1 .. Len(next) :
           \/ p \in 1 .. Len(pages) /\ next[p] = pages[p]
           \/ Fits(next[p], Len(next)) /\ LinkOK(next, next[p].right)
  PROVE  PagesFit(next)
<1>1. Len(pages) \in Nat /\ Len(next) \in Nat
  BY LenProperties DEF PagesFit
<1>2. \A p \in 1 .. Len(pages) : p \in 1 .. Len(next)
  BY <1>1
<1> SUFFICES ASSUME NEW p \in 1 .. Len(next)
             PROVE  Fits(next[p], Len(next)) /\ LinkOK(next, next[p].right)
  BY DEF PagesFit
<1>3. CASE p \in 1 .. Len(pages) /\ next[p] = pages[p]
  <2>1. Fits(pages[p], Len(pages)) /\ LinkOK(pages, pages[p].right)
    BY <1>3 DEF PagesFit
  <2>2. LinkOK(next, next[p].right)
    BY <1>2, <1>3, <2>1 DEF LinkOK
  <2>3. \A i \in 1 .. Len(pages[p].records) : SlotFits(pages[p], i, Len(next))
    <3> TAKE i \in 1 .. Len(pages[p].records)
    <3>1. SlotFits(pages[p], i, Len(pages))
      BY <2>1 DEF Fits
    <3> QED
      BY <1>2, <3>1 DEF SlotFits
  <2>4. Fits(next[p], Len(next))
    BY <1>3, <2>1, <2>3 DEF Fits
  <2> QED
    BY <2>2, <2>4
<1>4. CASE ~(p \in 1 .. Len(pages) /\ next[p] = pages[p])
  BY <1>4
<1> QED
  BY <1>3, <1>4

LEMMA FirstLeaf == Init => IInv
<1> SUFFICES ASSUME Init PROVE IInv
  OBVIOUS
<1> DEFINE first == Leaf(<<>>, None)
           sc == [p \in 1 .. 1 |-> Int]
           ht == [p \in 1 .. 1 |-> 0]
<1>1. buffer = <<first>> /\ root_page = 1 /\ call = Idle
  BY DEF Init
<1>2. first \in Page /\ first.leaf /\ first.records = <<>> /\ first.right = None
  <2>1. <<>> \in Seq(Entry)
    BY EmptySeq
  <2> QED
    BY <2>1 DEF Leaf, Page, None
<1>3. Len(first.records) = 0
  BY <1>2
<1> HIDE DEF first
<1>4. <<first>> \in Seq(Page) /\ Len(<<first>>) = 1 /\ <<first>>[1] = first
  BY <1>2
<1>5. PagesFit(<<first>>)
  <2>1. 0 <= LeafCapacity
    BY Capacities DEF CapacityAssumption
  <2>2. \A i \in 1 .. Len(first.records) : SlotFits(first, i, 1)
    BY <1>3
  <2>3. Len(first.records) <= IF first.leaf THEN LeafCapacity ELSE InnerCapacity
    BY <1>2, <1>3, <2>1
  <2>4. Fits(first, 1)
    BY <1>2, <2>2, <2>3 DEF Fits
  <2>5. LinkOK(<<first>>, first.right)
    BY <1>2 DEF LinkOK
  <2> QED
    BY <1>4, <2>4, <2>5 DEF PagesFit
<1>6. Tree(<<first>>, 1, sc, ht)
  <2>1. NodeOK(first, Int)
    <3>1. NumKeys(first) = 0
      BY <1>2, <1>3 DEF NumKeys
    <3> QED
      BY <1>2, <3>1 DEF NodeOK, Ordered
  <2>2. /\ sc[1] = Int /\ ht[1] = 0
        /\ sc \in [1 .. 1 -> SUBSET Int] /\ ht \in [1 .. 1 -> Nat]
    OBVIOUS
  <2> HIDE DEF sc, ht
  <2>3. PageOK(<<first>>, 1, sc, ht, 1)
    BY <1>2, <1>4, <2>1, <2>2 DEF PageOK
  <2>4. \A p \in 1 .. 1 : p = 1
    OBVIOUS
  <2>5. \A p, q \in 1 .. 1 : Apart(sc, ht, p, q)
    BY <2>4 DEF Apart
  <2>6. \A p \in 1 .. 1 : PageOK(<<first>>, 1, sc, ht, p)
    BY <2>3, <2>4
  <2> QED
    BY <1>4, <2>2, <2>5, <2>6 DEF Tree
<1>7. Rooted(<<first>>, 1, <<>>, DefaultKey, <<>>, sc, ht)
  <2>1. Len(<<>>) = 0
    OBVIOUS
  <2> HIDE DEF sc, ht
  <2>2. OnWay(<<>>, DefaultKey, 1, sc, ht)
    BY <2>1 DEF OnWay
  <2>3. /\ Completed(<<first>>, 1, <<>>, <<>>) = <<first>>
        /\ CompletedRoot(<<first>>, 1, <<>>, <<>>) = 1
    BY DEF Completed, CompletedRoot
  <2> QED
    BY <1>6, <2>2, <2>3 DEF Rooted
<1> HIDE DEF sc, ht
<1>8. call.path = <<>> /\ call.key = DefaultKey /\ call.promoted = <<>>
  BY <1>1 DEF Idle, Call
<1> QED
  BY <1>1, <1>4, <1>5, <1>7, <1>8 DEF IInv, Inv, CallFits

\* The facts about a call that is under way.
LEMMA CallIs ==
  ASSUME NEW cl, NEW n, CallFits(cl, n), cl # Idle
  PROVE  /\ cl \in [key : Key, rid : Rid, path : Seq(1 .. n),
                    promoted : {<<>>} \cup (Key \X (1 .. n))]
         /\ cl.key \in Key /\ cl.rid \in Rid /\ cl.path \in Seq(1 .. n)
         /\ cl.promoted = <<>> => cl.path # <<>>
         /\ cl.promoted # <<>> =>
              /\ cl.promoted \in Key \X (1 .. n)
              /\ cl.promoted[1] \in Key /\ cl.promoted[2] \in 1 .. n
<1>1. /\ cl \in [key : Key, rid : Rid, path : Seq(1 .. n),
                 promoted : {<<>>} \cup (Key \X (1 .. n))]
      /\ cl.promoted = <<>> => cl.path # <<>>
  BY DEF CallFits
<1>2. cl.key \in Key /\ cl.rid \in Rid /\ cl.path \in Seq(1 .. n) /\ cl.promoted \in {<<>>} \cup (Key \X (1 .. n))
  BY <1>1
<1>3. ASSUME cl.promoted # <<>>
      PROVE  cl.promoted \in Key \X (1 .. n) /\ cl.promoted[1] \in Key /\ cl.promoted[2] \in 1 .. n
  BY <1>2, <1>3
<1> QED
  BY <1>1, <1>2, <1>3

LEMMA WayEnd ==
  ASSUME NEW B, NEW root, NEW sc, NEW ht, Tree(B, root, sc, ht),
         NEW path, NEW key, OnWay(path, key, root, sc, ht), path \in Seq(1 .. Len(B)), path # <<>>
  PROVE  /\ Len(path) \in Nat /\ Len(path) # 0 /\ Last(path) = path[Len(path)]
         /\ Last(path) \in 1 .. Len(B) /\ key \in sc[Last(path)]
         /\ ht[Last(path)] + Len(path) = ht[root] + 1
<1>1. Len(path) \in Nat /\ Len(path) # 0
  BY EmptySeq
<1>2. Last(path) = path[Len(path)] /\ Last(path) \in 1 .. Len(B)
  BY FrontIs
<1>3. Len(path) \in 1 .. Len(path)
  BY <1>1
<1> QED
  BY <1>1, <1>2, <1>3 DEF OnWay

\* On the way down, and between inserts, the pages are the tree.
LEMMA DownIs ==
  ASSUME NEW pages, NEW root, NEW cl, Inv(pages, root, cl), cl.promoted = <<>>
  PROVE  /\ PagesFit(pages) /\ root \in 1 .. Len(pages) /\ CallFits(cl, Len(pages))
         /\ \E sc, ht : Tree(pages, root, sc, ht) /\ OnWay(cl.path, cl.key, root, sc, ht)
<1>1. PICK sc, ht : Rooted(pages, root, cl.path, cl.key, cl.promoted, sc, ht)
  BY DEF Inv
<1>2. /\ Completed(pages, root, cl.path, cl.promoted) = pages
      /\ CompletedRoot(pages, root, cl.path, cl.promoted) = root
  BY DEF Completed, CompletedRoot
<1>3. Tree(pages, root, sc, ht) /\ OnWay(cl.path, cl.key, root, sc, ht)
  BY <1>1, <1>2 DEF Rooted
<1> QED
  BY <1>3 DEF Inv

\* And conversely.
LEMMA DownInv ==
  ASSUME NEW pages, NEW root, NEW cl, cl.promoted = <<>>,
         PagesFit(pages), CallFits(cl, Len(pages)),
         NEW sc, NEW ht, Tree(pages, root, sc, ht), OnWay(cl.path, cl.key, root, sc, ht)
  PROVE  Inv(pages, root, cl)
<1>1. /\ Completed(pages, root, cl.path, cl.promoted) = pages
      /\ CompletedRoot(pages, root, cl.path, cl.promoted) = root
  BY DEF Completed, CompletedRoot
<1>2. Rooted(pages, root, cl.path, cl.key, cl.promoted, sc, ht)
  BY <1>1 DEF Rooted
<1>3. root \in 1 .. Len(pages)
  BY DEF Tree
<1> QED
  BY <1>2, <1>3 DEF Inv

LEMMA IdleIs ==
  /\ Idle.promoted = <<>> /\ Idle.path = <<>> /\ Idle.key = DefaultKey /\ Idle.rid = NoRid
  /\ \A n : CallFits(Idle, n)
  /\ \A root, sc, ht : OnWay(Idle.path, Idle.key, root, sc, ht)
<1>1. Idle.promoted = <<>> /\ Idle.path = <<>> /\ Idle.key = DefaultKey /\ Idle.rid = NoRid
  BY DEF Idle, Call
<1>2. Len(<<>>) = 0
  OBVIOUS
<1> QED
  BY <1>1, <1>2 DEF CallFits, OnWay

LEMMA InsertKeeps ==
  ASSUME IInv, NEW request \in Request, Insert(request[1], request[2])
  PROVE  IInv'
<1> DEFINE key == request[1]
           rid == request[2]
           cl == Call(key, rid, <<root_page>>, <<>>)
<1>1. call = Idle /\ call' = cl /\ buffer' = buffer /\ root_page' = root_page
  BY DEF Insert
<1>2. key \in Key /\ rid \in Rid /\ key \in Int
  <2>1. request \in Key \X Rid
    BY KeyAssumption
  <2> QED
    BY <2>1, KeyAssumption
<1> HIDE DEF key, rid
<1>3. PICK sc, ht : /\ PagesFit(buffer) /\ root_page \in 1 .. Len(buffer)
                    /\ Tree(buffer, root_page, sc, ht)
  BY <1>1, IdleIs, DownIs DEF IInv
<1>4. /\ cl.key = key /\ cl.promoted = <<>> /\ cl.path = <<root_page>> /\ cl.path # <<>>
      /\ cl \in [key : Key, rid : Rid, path : Seq(1 .. Len(buffer)),
                 promoted : {<<>>} \cup (Key \X (1 .. Len(buffer)))]
  BY <1>2, <1>3 DEF Call
<1> HIDE DEF cl
<1>5. CallFits(cl, Len(buffer))
  BY <1>4 DEF CallFits
<1>6. OnWay(cl.path, cl.key, root_page, sc, ht)
  <2>1. sc[root_page] = Int
    BY <1>3 DEF Tree
  <2>2. Len(<<root_page>>) = 1 /\ <<root_page>>[1] = root_page
    OBVIOUS
  <2>3. \A i \in 1 .. 1 : i = 1
    OBVIOUS
  <2> QED
    BY <1>2, <1>4, <2>1, <2>2, <2>3 DEF OnWay
<1>7. Inv(buffer, root_page, cl)
  BY <1>3, <1>4, <1>5, <1>6, DownInv
<1> QED
  BY <1>1, <1>7 DEF IInv

LEMMA DescendKeeps ==
  ASSUME IInv, Descend
  PROVE  IInv'
<1> DEFINE c == Current
           child == Records[Child(Records, call.key)].value
           cl == [call EXCEPT !.path = Append(@, child)]
           n == Len(buffer)
<1>1. /\ call # Idle /\ call.promoted = <<>> /\ ~buffer[c].leaf
      /\ call' = cl /\ buffer' = buffer /\ root_page' = root_page
  BY DEF Descend, GoingDown
<1>2. PICK sc, ht : /\ PagesFit(buffer) /\ root_page \in 1 .. n /\ CallFits(call, n)
                    /\ Tree(buffer, root_page, sc, ht)
                    /\ OnWay(call.path, call.key, root_page, sc, ht)
  BY <1>1, DownIs DEF IInv
<1>3. /\ call \in [key : Key, rid : Rid, path : Seq(1 .. n), promoted : {<<>>} \cup (Key \X (1 .. n))]
      /\ call.key \in Key /\ call.path \in Seq(1 .. n) /\ call.path # <<>>
  BY <1>1, <1>2, CallIs
<1>4. /\ Len(call.path) \in Nat /\ c \in 1 .. n /\ call.key \in sc[c]
      /\ ht[c] + Len(call.path) = ht[root_page] + 1
  BY <1>2, <1>3, WayEnd DEF Current
<1>5. /\ buffer[c].records \in Seq(Entry) /\ DOMAIN buffer = 1 .. n /\ n \in Nat
      /\ \A p \in 1 .. n : ht[p] \in Nat
  BY <1>2, <1>4, TreeType
<1>6. PageOK(buffer, root_page, sc, ht, c)
  BY <1>2, <1>4 DEF Tree
<1>7. call.key \in Int
  BY <1>3, KeysAreNumbers
<1> HIDE DEF c, n
<1> DEFINE i == Child(buffer[c].records, call.key)
<1>8. i \in 1 .. Len(buffer[c].records)
  <2>1. buffer[c].records # <<>> /\ Ordered(buffer[c].records, Len(buffer[c].records) - 1)
    BY <1>1, <1>6 DEF PageOK, NodeOK, NumKeys
  <2> QED
    BY <1>5, <1>7, <2>1, ChildIs
<1>9. KidOK(buffer, sc, ht, c, i)
  BY <1>1, <1>6, <1>8 DEF PageOK, KidsOK
<1>10. child = buffer[c].records[i].value
  BY DEF Records, c
<1> HIDE DEF i, child
<1>11. /\ child \in 1 .. n /\ ht[child] + 1 = ht[c]
       /\ sc[child] = Region(buffer[c].records, sc[c], i)
  BY <1>5, <1>9, <1>10 DEF KidOK
<1>12. call.key \in sc[child]
  BY <1>4, <1>11 DEF Region, i
<1>13. /\ Append(call.path, child) \in Seq(1 .. n)
       /\ Append(call.path, child) # <<>>
       /\ Len(Append(call.path, child)) = Len(call.path) + 1
       /\ \A j \in 1 .. Len(call.path) : Append(call.path, child)[j] = call.path[j]
       /\ Append(call.path, child)[Len(call.path) + 1] = child
  BY <1>3, <1>11, AppendProperties
<1>14. /\ cl.key = call.key /\ cl.promoted = <<>> /\ cl.path = Append(call.path, child)
       /\ cl \in [key : Key, rid : Rid, path : Seq(1 .. n), promoted : {<<>>} \cup (Key \X (1 .. n))]
  BY <1>1, <1>3, <1>13
<1> HIDE DEF cl
<1>15. CallFits(cl, n)
  BY <1>13, <1>14 DEF CallFits
<1>16. OnWay(cl.path, cl.key, root_page, sc, ht)
  <2> DEFINE L == Len(call.path)
  <2>1. SUFFICES ASSUME NEW j \in 1 .. L + 1
                 PROVE  call.key \in sc[cl.path[j]] /\ ht[cl.path[j]] + j = ht[root_page] + 1
    BY <1>13, <1>14 DEF OnWay
  <2>2. CASE j \in 1 .. L
    BY <1>2, <1>13, <1>14, <2>2 DEF OnWay
  <2>3. CASE j = L + 1
    <3>1. cl.path[j] = child
      BY <1>13, <1>14, <2>3
    <3>2. ht[child] + (L + 1) = ht[root_page] + 1
      <4>1. ht[child] \in Nat /\ ht[c] \in Nat /\ ht[root_page] \in Nat /\ L \in Nat
        BY <1>2, <1>4, <1>5, <1>11 DEF c
      <4>2. ht[child] + 1 = ht[c] /\ ht[c] + L = ht[root_page] + 1
        BY <1>4, <1>11
      <4> HIDE DEF L
      <4> QED
        BY <4>1, <4>2
    <3> QED
      BY <1>12, <2>3, <3>1, <3>2
  <2>4. j \in 1 .. L \/ j = L + 1
    BY <1>4
  <2> QED
    BY <2>2, <2>3, <2>4
<1>17. Inv(buffer, root_page, cl)
  BY <1>2, <1>14, <1>15, <1>16, DownInv DEF n
<1> QED
  BY <1>1, <1>17 DEF IInv

-----------------------------------------------------------------------------
(* Leaves and the key of a call. *)

LEMMA LeafSlot ==
  ASSUME NEW page \in Page, page.leaf, NEW S \in SUBSET Int, NodeOK(page, S), NEW key \in Int
  PROVE  /\ page.records \in Seq(Entry) /\ Len(page.records) \in Nat
         /\ DOMAIN page.records = 1 .. Len(page.records)
         /\ Slot(page.records, key) \in 1 .. Len(page.records) + 1
         /\ \A i \in 1 .. Len(page.records) :
              page.records[i].key < key <=> i < Slot(page.records, key)
         /\ Found(page.records, key) =>
              /\ Slot(page.records, key) \in 1 .. Len(page.records)
              /\ page.records[Slot(page.records, key)].key = key
         /\ ~Found(page.records, key) => \A i \in 1 .. Len(page.records) : page.records[i].key # key
<1>1. page.records \in Seq(Entry) /\ Ordered(page.records, Len(page.records))
  BY DEF Page, NodeOK, NumKeys
<1>2. Len(page.records) \in Nat /\ DOMAIN page.records = 1 .. Len(page.records)
  BY <1>1, LenProperties
<1>3. /\ Slot(page.records, key) \in 1 .. Len(page.records) + 1
      /\ \A i \in 1 .. Len(page.records) :
           /\ page.records[i].key < key <=> i < Slot(page.records, key)
           /\ page.records[i].key = key => i = Slot(page.records, key)
  BY <1>1, SlotIs
<1>4. Found(page.records, key) <=> \E i \in 1 .. Len(page.records) : page.records[i].key = key
  BY <1>2 DEF Found
<1>5. ASSUME Found(page.records, key)
      PROVE  /\ Slot(page.records, key) \in 1 .. Len(page.records)
             /\ page.records[Slot(page.records, key)].key = key
  <2>1. PICK i \in 1 .. Len(page.records) : page.records[i].key = key
    BY <1>4, <1>5
  <2>2. i = Slot(page.records, key)
    BY <1>3, <2>1
  <2> QED
    BY <2>1, <2>2
<1>6. ~Found(page.records, key) => \A i \in 1 .. Len(page.records) : page.records[i].key # key
  BY <1>4
<1> QED
  BY <1>1, <1>2, <1>3, <1>5, <1>6

\* Leaf q is page with another value in slot i.
Overwritten(q, page, i, key, rid) ==
  /\ q \in Page /\ q.leaf /\ q.right = page.right
  /\ Len(q.records) = Len(page.records) /\ i \in 1 .. Len(page.records)
  /\ page.records[i].key = key
  /\ \A j \in 1 .. Len(page.records) :
       q.records[j] = IF j = i THEN Record(key, rid) ELSE page.records[j]

LEMMA LeafOverwritten ==
  ASSUME NEW page \in Page, page.leaf, NEW S \in SUBSET Int, NodeOK(page, S),
         NEW key \in S, NEW rid \in Rid, Found(page.records, key), key \in Key
  PROVE  LET q == [page EXCEPT !.records[Slot(page.records, key)].value = rid]
         IN  Overwritten(q, page, Slot(page.records, key), key, rid) /\ NodeOK(q, S)
<1> DEFINE records == page.records
           i == Slot(records, key)
           n == Len(records)
           q == [page EXCEPT !.records[i].value = rid]
           new == [records EXCEPT ![i] = Record(key, rid)]
<1>0. key \in Int
  OBVIOUS
<1>1. /\ records \in Seq(Entry) /\ i \in 1 .. n /\ records[i].key = key /\ n \in Nat
      /\ DOMAIN records = 1 .. n
  BY <1>0, LeafSlot
<1>2. records[i] \in Entry /\ Record(key, rid) \in Entry
  BY <1>1, ElementOfSeq DEF Entry, Record
<1>3. [records[i] EXCEPT !.value = rid] = Record(key, rid)
  BY <1>1, <1>2 DEF Entry, Record
<1> HIDE DEF i
<1>4. q = [page EXCEPT !.records = [records EXCEPT ![i] = [records[i] EXCEPT !.value = rid]]]
  OBVIOUS
<1>5. q = [page EXCEPT !.records = new]
  BY <1>3, <1>4
<1>6. /\ new \in Seq(Entry) /\ Len(new) = n
      /\ \A j \in 1 .. n : new[j] = IF j = i THEN Record(key, rid) ELSE records[j]
  <2> HIDE DEF records
  <2> QED
    BY <1>1, <1>2, ExceptSeq
<1> HIDE DEF q, new
<1>7. q \in Page /\ q.leaf /\ q.right = page.right /\ q.records = new
  BY <1>5, <1>6 DEF Page
<1>8. Overwritten(q, page, i, key, rid)
  BY <1>1, <1>6, <1>7 DEF Overwritten
<1>9. \A j \in 1 .. n : new[j].key = records[j].key
  <2> TAKE j \in 1 .. n
  <2>1. CASE j = i
    BY <1>1, <1>6, <2>1 DEF Record
  <2>2. CASE j # i
    BY <1>6, <2>2
  <2> QED
    BY <2>1, <2>2
<1>10. NodeOK(q, S)
  <2>1. NumKeys(q) = n /\ NumKeys(page) = n
    BY <1>6, <1>7 DEF NumKeys
  <2>2. (\A j \in 1 .. n : records[j].key \in S) /\ Ordered(records, n)
    BY <2>1 DEF NodeOK
  <2>3. \A j \in 1 .. n : new[j].key \in S
    BY <1>9, <2>2
  <2>4. Ordered(new, n)
    BY <1>9, <2>2 DEF Ordered
  <2> QED
    BY <1>7, <2>1, <2>3, <2>4 DEF NodeOK
<1> QED
  BY <1>8, <1>10 DEF q, i

\* Leaf q is page with a new record in slot i.
Grown(q, page, i, key, rid) ==
  /\ q \in Page /\ q.leaf /\ q.right = page.right
  /\ Inserted(q.records, page.records, i, Record(key, rid))
  /\ i \in 1 .. Len(page.records) + 1

LEMMA LeafGrown ==
  ASSUME NEW page \in Page, page.leaf, NEW S \in SUBSET Int, NodeOK(page, S),
         NEW key \in S, NEW rid \in Rid, ~Found(page.records, key), key \in Key
  PROVE  LET q == [page EXCEPT !.records = InsertAt(@, Slot(@, key), Record(key, rid))]
         IN  Grown(q, page, Slot(page.records, key), key, rid) /\ NodeOK(q, S)
<1> DEFINE records == page.records
           i == Slot(records, key)
           n == Len(records)
           new == InsertAt(records, i, Record(key, rid))
           q == [page EXCEPT !.records = InsertAt(@, Slot(@, key), Record(key, rid))]
<1>0. key \in Int
  OBVIOUS
<1>1. /\ records \in Seq(Entry) /\ n \in Nat /\ i \in 1 .. n + 1
      /\ \A j \in 1 .. n : records[j].key < key <=> j < i
      /\ \A j \in 1 .. n : records[j].key # key
  BY <1>0, LeafSlot
<1>2. Record(key, rid) \in Entry
  BY DEF Entry, Record
<1>3. q = [page EXCEPT !.records = new]
  OBVIOUS
<1>4. Inserted(new, records, i, Record(key, rid))
  BY <1>1, <1>2, InsertIs
<1> HIDE DEF new, q, i
<1>5. /\ new \in Seq(Entry) /\ Len(new) = n + 1
      /\ \A j \in 1 .. n + 1 :
           new[j] = IF j < i THEN records[j] ELSE IF j = i THEN Record(key, rid) ELSE records[j - 1]
  BY <1>4 DEF Inserted
<1>6. q \in Page /\ q.leaf /\ q.right = page.right /\ q.records = new
  BY <1>3, <1>5 DEF Page
<1>7. Grown(q, page, i, key, rid)
  BY <1>1, <1>4, <1>6 DEF Grown
<1>8. NumKeys(q) = n + 1 /\ NumKeys(page) = n
  BY <1>5, <1>6 DEF NumKeys
<1>9. (\A j \in 1 .. n : records[j].key \in S) /\ Ordered(records, n)
  BY <1>8 DEF NodeOK
<1> DEFINE K(j) == records[j].key
           W(j) == new[j].key
<1>10. /\ \A j \in 1 .. n : K(j) \in S /\ K(j) \in Int /\ (K(j) < key <=> j < i) /\ K(j) # key
       /\ \A a, b \in 1 .. n : a < b => K(a) < K(b)
  BY <1>1, <1>9 DEF Ordered
<1>11. /\ \A j \in 1 .. n + 1 : j < i => W(j) = K(j)
       /\ W(i) = key
       /\ \A j \in 1 .. n + 1 : j > i => W(j) = K(j - 1)
  <2>1. \A j \in 1 .. n + 1 : j < i => W(j) = K(j)
    BY <1>5
  <2>2. W(i) = key
    <3>1. ~(i < i) /\ i \in 1 .. n + 1
      BY <1>1
    <3>2. new[i] = Record(key, rid)
      BY <1>5, <3>1
    <3> QED
      BY <3>2 DEF Record
  <2>3. ASSUME NEW j \in 1 .. n + 1, j > i PROVE W(j) = K(j - 1)
    <3>1. ~(j < i) /\ j # i
      BY <1>1, <2>3
    <3>2. new[j] = records[j - 1]
      BY <1>5, <3>1
    <3> QED
      BY <3>2
  <2> QED
    BY <2>1, <2>2, <2>3
<1>12. i \in 1 .. n + 1 /\ n \in Nat
  BY <1>1
<1> HIDE DEF n, K, W
<1>13. \A j \in 1 .. n + 1 : W(j) \in S
  <2> TAKE j \in 1 .. n + 1
  <2>1. CASE j < i
    <3>1. j \in 1 .. n
      BY <1>12, <2>1
    <3> QED
      BY <1>10, <1>11, <2>1, <3>1
  <2>2. CASE j = i
    BY <1>11, <2>2
  <2>3. CASE j > i
    <3>1. j - 1 \in 1 .. n
      BY <1>12, <2>3
    <3> QED
      BY <1>10, <1>11, <2>3, <3>1
  <2>4. j < i \/ j = i \/ j > i
    BY <1>12
  <2> QED
    BY <2>1, <2>2, <2>3, <2>4
<1>14. \A a, b \in 1 .. n + 1 : a < b => W(a) < W(b)
  <2> SUFFICES ASSUME NEW a \in 1 .. n + 1, NEW b \in 1 .. n + 1, a < b PROVE W(a) < W(b)
    OBVIOUS
  <2>0. a \in Int /\ b \in Int /\ i \in Int
    BY <1>12
  <2>1. CASE b < i
    <3>1. a < i /\ a \in 1 .. n /\ b \in 1 .. n
      BY <1>12, <2>0, <2>1
    <3> QED
      BY <1>10, <1>11, <2>1, <3>1
  <2>2. CASE b = i
    <3>1. a \in 1 .. n /\ a < i
      BY <1>12, <2>0, <2>2
    <3> QED
      BY <1>10, <1>11, <2>2, <3>1
  <2>3. CASE a = i
    <3>1. b - 1 \in 1 .. n /\ b > i /\ ~(b - 1 < i)
      BY <1>12, <2>0, <2>3
    <3>2. K(b - 1) \in Int /\ ~(K(b - 1) < key) /\ K(b - 1) # key
      BY <1>10, <3>1
    <3>3. key < K(b - 1)
      BY <1>0, <3>2
    <3> QED
      BY <1>11, <2>3, <3>1, <3>3
  <2>4. CASE a < i /\ b > i
    <3>1. a \in 1 .. n /\ b - 1 \in 1 .. n /\ a < b - 1
      BY <1>12, <2>0, <2>4
    <3> QED
      BY <1>10, <1>11, <2>4, <3>1
  <2>5. CASE a > i
    <3>1. a - 1 \in 1 .. n /\ b - 1 \in 1 .. n /\ a - 1 < b - 1 /\ b > i
      BY <1>12, <2>0, <2>5
    <3> QED
      BY <1>10, <1>11, <2>5, <3>1
  <2> QED
    BY <2>0, <2>1, <2>2, <2>3, <2>4, <2>5
<1>15. NodeOK(q, S)
  <2>1. \A j \in 1 .. n + 1 : new[j].key \in S
    BY <1>13 DEF W
  <2>2. Ordered(new, n + 1)
    BY <1>14 DEF Ordered, W
  <2> QED
    BY <1>6, <1>8, <2>1, <2>2 DEF NodeOK, n
<1> QED
  BY <1>7, <1>15 DEF q, i

-----------------------------------------------------------------------------
(***************************************************************************)
(* The records of the leaves.                                              *)
(***************************************************************************)

Has(records, e) == \E i \in 1 .. Len(records) : records[i] = e
HasLeaf(pages, e) == \E p \in 1 .. Len(pages) : pages[p].leaf /\ Has(pages[p].records, e)

\* An insert puts a record in the place of the one its key had.
Put(q, page, key, rid) ==
  \A e : Has(q.records, e) <=> e = Record(key, rid) \/ (Has(page.records, e) /\ e.key # key)

LeafPut(next, pages, key, rid) ==
  \A e : HasLeaf(next, e) <=> e = Record(key, rid) \/ (HasLeaf(pages, e) /\ e.key # key)

\* Other steps leave the records as they are.
LeavesKept(next, pages) == \A e : HasLeaf(next, e) <=> HasLeaf(pages, e)

LEMMA OverwrittenPut ==
  ASSUME NEW page \in Page, page.leaf, NEW S, NodeOK(page, S), NEW q, NEW i, NEW key, NEW rid,
         Overwritten(q, page, i, key, rid)
  PROVE  Put(q, page, key, rid)
<1> DEFINE records == page.records
           n == Len(records)
<1>1. /\ Len(q.records) = n /\ i \in 1 .. n /\ records[i].key = key
      /\ \A j \in 1 .. n : q.records[j] = IF j = i THEN Record(key, rid) ELSE records[j]
  BY DEF Overwritten
<1>2. Ordered(records, n) /\ records \in Seq(Entry)
  BY DEF NodeOK, NumKeys, Page
<1>3. \A j \in 1 .. n : records[j].key \in Int
  BY <1>2, KeyOfEntry
<1>4. n \in Nat
  BY <1>2, LenProperties
<1> HIDE DEF records, n
<1>5. \A j \in 1 .. n : j # i => records[j].key # key
  <2> SUFFICES ASSUME NEW j \in 1 .. n, j # i PROVE records[j].key # key
    OBVIOUS
  <2>1. j < i \/ i < j
    BY <1>1, <1>4
  <2>2. j < i => records[j].key < records[i].key
    BY <1>1, <1>2 DEF Ordered
  <2>3. i < j => records[i].key < records[j].key
    BY <1>1, <1>2 DEF Ordered
  <2> QED
    BY <1>1, <1>3, <2>1, <2>2, <2>3
<1> SUFFICES ASSUME NEW e
             PROVE  Has(q.records, e) <=> e = Record(key, rid) \/ (Has(records, e) /\ e.key # key)
  BY DEF Put, records
<1>6. ASSUME Has(q.records, e) PROVE e = Record(key, rid) \/ (Has(records, e) /\ e.key # key)
  <2>1. PICK j \in 1 .. n : q.records[j] = e
    BY <1>1, <1>6 DEF Has
  <2>2. CASE j = i
    BY <1>1, <2>1, <2>2
  <2>3. CASE j # i
    <3>1. records[j] = e
      BY <1>1, <2>1, <2>3
    <3> QED
      BY <1>5, <2>3, <3>1 DEF Has, n
  <2> QED
    BY <2>2, <2>3
<1>7. Has(q.records, Record(key, rid))
  BY <1>1 DEF Has
<1>8. ASSUME Has(records, e), e.key # key PROVE Has(q.records, e)
  <2>1. PICK j \in 1 .. n : records[j] = e
    BY <1>8 DEF Has, n
  <2>2. j # i
    BY <1>1, <1>8, <2>1
  <2>3. q.records[j] = e
    BY <1>1, <2>1, <2>2
  <2> QED
    BY <1>1, <2>3 DEF Has
<1> QED
  BY <1>6, <1>7, <1>8

LEMMA GrownPut ==
  ASSUME NEW page \in Page, NEW q, NEW i, NEW key, NEW rid, Grown(q, page, i, key, rid),
         \A j \in 1 .. Len(page.records) : page.records[j].key # key
  PROVE  Put(q, page, key, rid)
<1> DEFINE records == page.records
           n == Len(records)
<1>1. /\ i \in 1 .. n + 1 /\ Len(q.records) = n + 1
      /\ \A j \in 1 .. n + 1 :
           q.records[j] = IF j < i THEN records[j] ELSE IF j = i THEN Record(key, rid) ELSE records[j - 1]
  BY DEF Grown, Inserted
<1>2. n \in Nat
  BY LenProperties DEF Page
<1>3. \A j \in 1 .. n : records[j].key # key
  OBVIOUS
<1> HIDE DEF records, n
<1> SUFFICES ASSUME NEW e
             PROVE  Has(q.records, e) <=> e = Record(key, rid) \/ (Has(records, e) /\ e.key # key)
  BY DEF Put, records
<1>4. i \in Int /\ ~(i < i)
  BY <1>1, <1>2
<1>5. ASSUME Has(q.records, e) PROVE e = Record(key, rid) \/ (Has(records, e) /\ e.key # key)
  <2>1. PICK j \in 1 .. n + 1 : q.records[j] = e
    BY <1>1, <1>5 DEF Has
  <2>2. CASE j < i
    <3>1. records[j] = e /\ j \in 1 .. n
      BY <1>1, <1>2, <2>1, <2>2
    <3> QED
      BY <1>3, <3>1 DEF Has, n
  <2>3. CASE j = i
    BY <1>1, <1>4, <2>1, <2>3
  <2>4. CASE j > i
    <3>1. ~(j < i) /\ j # i /\ j - 1 \in 1 .. n
      BY <1>1, <1>2, <2>4
    <3>2. records[j - 1] = e
      BY <1>1, <2>1, <3>1
    <3> QED
      BY <1>3, <3>1, <3>2 DEF Has, n
  <2> QED
    BY <1>4, <2>2, <2>3, <2>4
<1>6. Has(q.records, Record(key, rid))
  BY <1>1, <1>4 DEF Has
<1>7. ASSUME Has(records, e) PROVE Has(q.records, e)
  <2>1. PICK j \in 1 .. n : records[j] = e
    BY <1>7 DEF Has, n
  <2>2. CASE j < i
    <3>1. j \in 1 .. n + 1 /\ q.records[j] = e
      BY <1>1, <1>2, <2>1, <2>2
    <3> QED
      BY <1>1, <3>1 DEF Has
  <2>3. CASE ~(j < i)
    <3>1. j + 1 \in 1 .. n + 1 /\ ~(j + 1 < i) /\ j + 1 # i /\ j + 1 - 1 = j
      BY <1>2, <1>4, <2>3
    <3>2. q.records[j + 1] = e
      BY <1>1, <2>1, <3>1
    <3> QED
      BY <1>1, <3>1, <3>2 DEF Has
  <2> QED
    BY <2>2, <2>3
<1> QED
  BY <1>3, <1>5, <1>6, <1>7 DEF Has, n

\* No other leaf has the key of an insert.
LEMMA PutInLeaf ==
  ASSUME NEW pages, NEW root, NEW sc, NEW ht, Tree(pages, root, sc, ht),
         NEW c \in 1 .. Len(pages), pages[c].leaf, NEW key \in sc[c], NEW rid,
         NEW q, q.leaf, Put(q, pages[c], key, rid), NEW next, Changed(next, pages, c, q)
  PROVE  LeafPut(next, pages, key, rid)
<1>1. /\ Len(next) = Len(pages)
      /\ \A p \in 1 .. Len(pages) : next[p] = IF p = c THEN q ELSE pages[p]
  BY DEF Changed
<1>2. ASSUME NEW p \in 1 .. Len(pages), pages[p].leaf, p # c, NEW e, Has(pages[p].records, e)
      PROVE  e.key # key
  <2>1. PICK i \in 1 .. Len(pages[p].records) : pages[p].records[i] = e
    BY <1>2 DEF Has
  <2>2. PageOK(pages, root, sc, ht, p) /\ PageOK(pages, root, sc, ht, c)
    BY DEF Tree
  <2>3. NodeOK(pages[p], sc[p]) /\ ht[p] = 0 /\ ht[c] = 0
    BY <1>2, <2>2 DEF PageOK
  <2>4. e.key \in sc[p]
    BY <1>2, <2>1, <2>3 DEF NodeOK, NumKeys
  <2> QED
    BY <1>2, <2>3, <2>4, OnePage
<1> SUFFICES ASSUME NEW e
             PROVE  HasLeaf(next, e) <=> e = Record(key, rid) \/ (HasLeaf(pages, e) /\ e.key # key)
  BY DEF LeafPut
<1>3. Has(q.records, e) <=> e = Record(key, rid) \/ (Has(pages[c].records, e) /\ e.key # key)
  BY DEF Put
<1>4. ASSUME HasLeaf(next, e) PROVE e = Record(key, rid) \/ (HasLeaf(pages, e) /\ e.key # key)
  <2>1. PICK p \in 1 .. Len(pages) : next[p].leaf /\ Has(next[p].records, e)
    BY <1>1, <1>4 DEF HasLeaf
  <2>2. CASE p = c
    BY <1>1, <1>3, <2>1, <2>2 DEF HasLeaf
  <2>3. CASE p # c
    <3>1. pages[p].leaf /\ Has(pages[p].records, e)
      BY <1>1, <2>1, <2>3
    <3> QED
      BY <1>2, <2>3, <3>1 DEF HasLeaf
  <2> QED
    BY <2>2, <2>3
<1>5. ASSUME e = Record(key, rid) PROVE HasLeaf(next, e)
  BY <1>1, <1>3, <1>5 DEF HasLeaf
<1>6. ASSUME HasLeaf(pages, e), e.key # key PROVE HasLeaf(next, e)
  <2>1. PICK p \in 1 .. Len(pages) : pages[p].leaf /\ Has(pages[p].records, e)
    BY <1>6 DEF HasLeaf
  <2>2. CASE p = c
    BY <1>1, <1>3, <1>6, <2>1, <2>2 DEF HasLeaf
  <2>3. CASE p # c
    BY <1>1, <2>1, <2>3 DEF HasLeaf
  <2> QED
    BY <2>2, <2>3
<1> QED
  BY <1>4, <1>5, <1>6

\* The halves of a leaf have its records.
LEMMA CutSame ==
  ASSUME NEW page, NEW low, NEW high, NEW m, Cut(page, low, high, m), Len(page.records) \in Nat
  PROVE  \A e : Has(page.records, e) <=> Has(low.records, e) \/ Has(high.records, e)
<1> DEFINE n == Len(page.records)
<1>1. /\ m \in 1 .. n - 1 /\ Len(low.records) = m /\ Len(high.records) = n - m
      /\ \A i \in 1 .. m : low.records[i] = page.records[i]
      /\ \A i \in 1 .. n - m : high.records[i] = page.records[m + i]
  BY DEF Cut
<1>2. n \in Nat
  OBVIOUS
<1> HIDE DEF n
<1> TAKE e
<1>3. ASSUME Has(page.records, e) PROVE Has(low.records, e) \/ Has(high.records, e)
  <2>1. PICK i \in 1 .. n : page.records[i] = e
    BY <1>3 DEF Has, n
  <2>2. CASE i <= m
    <3>1. i \in 1 .. m
      BY <1>1, <1>2, <2>2
    <3> QED
      BY <1>1, <2>1, <3>1 DEF Has
  <2>3. CASE ~(i <= m)
    <3>1. i - m \in 1 .. n - m /\ m + (i - m) = i
      BY <1>1, <1>2, <2>3
    <3>2. high.records[i - m] = e
      BY <1>1, <2>1, <3>1
    <3> QED
      BY <1>1, <3>1, <3>2 DEF Has
  <2> QED
    BY <2>2, <2>3
<1>4. ASSUME Has(low.records, e) PROVE Has(page.records, e)
  <2>1. PICK i \in 1 .. m : low.records[i] = e
    BY <1>1, <1>4 DEF Has
  <2>2. i \in 1 .. n
    BY <1>1, <1>2
  <2> QED
    BY <1>1, <2>1, <2>2 DEF Has, n
<1>5. ASSUME Has(high.records, e) PROVE Has(page.records, e)
  <2>1. PICK i \in 1 .. n - m : high.records[i] = e
    BY <1>1, <1>5 DEF Has
  <2>2. m + i \in 1 .. n
    BY <1>1, <1>2
  <2>3. page.records[m + i] = e
    BY <1>1, <2>1
  <2> QED
    BY <2>2, <2>3 DEF Has, n
<1> QED
  BY <1>3, <1>4, <1>5

LEMMA SplitSame ==
  ASSUME NEW next, NEW pages, NEW B, NEW path, NEW low, NEW high, NEW m,
         SplitOf(next, pages, B, path, low, high, m), B[Last(path)].leaf,
         B[Last(path)] \in Page
  PROVE  LeavesKept(next, B)
<1> DEFINE c == Last(path)
           n == Len(B)
<1>1. /\ path \in Seq(1 .. n) /\ path # <<>> /\ Cut(B[c], low, high, m)
      /\ \A p \in 1 .. n : p # c => B[p] = pages[p]
      /\ pages \in Seq(Page) /\ Len(pages) = n
  BY DEF SplitOf
<1>2. c \in 1 .. n
  BY <1>1, FrontIs
<1>3. n \in Nat /\ Len(B[c].records) \in Nat
  <2>1. Len(pages) \in Nat
    BY <1>1, LenProperties
  <2>2. B[c].records \in Seq(Entry)
    BY DEF Page
  <2> QED
    BY <1>1, <2>1, <2>2, LenProperties
<1>4. /\ Len(next) = n + 1 /\ next[n + 1] = high
      /\ \A p \in 1 .. n : next[p] = IF p = c THEN low ELSE pages[p]
  BY SplitPages
<1>5. low.leaf /\ high.leaf /\ B[c].leaf
  BY <1>1 DEF Cut
<1> HIDE DEF c, n
<1>6. \A e : Has(B[c].records, e) <=> Has(low.records, e) \/ Has(high.records, e)
  BY <1>1, <1>3, CutSame
<1>7. n + 1 \in 1 .. n + 1 /\ \A p \in 1 .. n + 1 : p \in 1 .. n \/ p = n + 1
  BY <1>3
<1>8. \A p \in 1 .. n : p \in 1 .. n + 1
  BY <1>3
<1> SUFFICES ASSUME NEW e PROVE HasLeaf(next, e) <=> HasLeaf(B, e)
  BY DEF LeavesKept
<1>9. ASSUME HasLeaf(next, e) PROVE HasLeaf(B, e)
  <2>1. PICK p \in 1 .. n + 1 : next[p].leaf /\ Has(next[p].records, e)
    BY <1>4, <1>9 DEF HasLeaf
  <2>2. CASE p = n + 1
    BY <1>2, <1>4, <1>5, <1>6, <2>1, <2>2 DEF HasLeaf, n
  <2>3. CASE p \in 1 .. n /\ p = c
    BY <1>2, <1>4, <1>5, <1>6, <2>1, <2>3 DEF HasLeaf, n
  <2>4. CASE p \in 1 .. n /\ p # c
    BY <1>1, <1>4, <2>1, <2>4 DEF HasLeaf, n
  <2> QED
    BY <1>7, <2>2, <2>3, <2>4
<1>10. ASSUME HasLeaf(B, e) PROVE HasLeaf(next, e)
  <2>1. PICK p \in 1 .. n : B[p].leaf /\ Has(B[p].records, e)
    BY <1>10 DEF HasLeaf, n
  <2>2. CASE p = c
    <3>1. Has(next[c].records, e) \/ Has(next[n + 1].records, e)
      BY <1>2, <1>4, <1>6, <2>1, <2>2
    <3>2. next[c].leaf /\ next[n + 1].leaf /\ c \in 1 .. n + 1
      BY <1>2, <1>4, <1>5, <1>8
    <3> QED
      BY <1>4, <1>7, <3>1, <3>2 DEF HasLeaf
  <2>3. CASE p # c
    BY <1>1, <1>4, <1>8, <2>1, <2>3 DEF HasLeaf
  <2> QED
    BY <2>2, <2>3
<1> QED
  BY <1>9, <1>10

LEMMA RecordIs ==
  ASSUME NEW key, NEW value
  PROVE  Record(key, value).key = key /\ Record(key, value).value = value
BY DEF Record

-----------------------------------------------------------------------------
(***************************************************************************)
(* The chain of leaves.                                                    *)
(***************************************************************************)

IsLeaf(pages, p) == p \in 1 .. Len(pages) /\ pages[p].leaf
KeysOf(page) == {page.records[i].key : i \in 1 .. Len(page.records)}

Before(pages, p, q) ==
  p # q /\ \E x \in KeysOf(pages[p]), y \in KeysOf(pages[q]) : x < y

\* The right link of a leaf leads to the next one in the order of their keys.
LinkFits(pages, p) ==
  LET q == pages[p].right
  IN  \/ q = None /\ \A r : IsLeaf(pages, r) => ~Before(pages, p, r)
      \/ /\ q # None /\ IsLeaf(pages, q) /\ Before(pages, p, q)
         /\ \A r : IsLeaf(pages, r) => ~(Before(pages, p, r) /\ Before(pages, r, q))

\* Only the first leaf, while it is the only one, is empty.
Filled(pages, p) == KeysOf(pages[p]) # {} \/ \A r : IsLeaf(pages, r) => r = p

Chain(pages) == \A p : IsLeaf(pages, p) => Filled(pages, p) /\ LinkFits(pages, p)

\* The keys of two leaves are different, and on one side of each other.
Blocks(pages) ==
  /\ \A p : IsLeaf(pages, p) => KeysOf(pages[p]) \subseteq Int
  /\ \A p, q : IsLeaf(pages, p) /\ IsLeaf(pages, q) /\ p # q =>
       \A x \in KeysOf(pages[p]), y \in KeysOf(pages[q]) : x # y
  /\ \A p, q : IsLeaf(pages, p) /\ IsLeaf(pages, q) /\ Before(pages, p, q) =>
       \A x \in KeysOf(pages[p]), y \in KeysOf(pages[q]) : x < y

\* The leaves keep their keys and their links.
LinksKept(next, pages) ==
  /\ \A p : IsLeaf(next, p) <=> IsLeaf(pages, p)
  /\ \A p : IsLeaf(pages, p) =>
       next[p].right = pages[p].right /\ KeysOf(next[p]) = KeysOf(pages[p])

\* Leaf c has taken a key that belongs to it.
LeafTook(next, pages, c, key) ==
  /\ \E root, sc, ht : Tree(pages, root, sc, ht) /\ Tree(next, root, sc, ht)
  /\ IsLeaf(pages, c) /\ next[c].leaf /\ Len(next) = Len(pages)
  /\ \A p \in 1 .. Len(pages) : p # c => next[p] = pages[p]
  /\ next[c].right = pages[c].right
  /\ KeysOf(next[c]) = KeysOf(pages[c]) \cup {key}

\* Leaf c has become two, linked in the order of their keys.
LeafHalved(next, pages, c) ==
  /\ IsLeaf(pages, c)
  /\ Len(pages) \in Nat /\ Len(next) = Len(pages) + 1
  /\ \A p \in 1 .. Len(pages) : p # c => next[p] = pages[p]
  /\ next[c].leaf /\ next[Len(next)].leaf
  /\ next[c].right = Len(next) /\ next[Len(next)].right = pages[c].right
  /\ KeysOf(next[c]) # {} /\ KeysOf(next[Len(next)]) # {}
  /\ KeysOf(pages[c]) = KeysOf(next[c]) \cup KeysOf(next[Len(next)])
  /\ \A x \in KeysOf(next[c]), y \in KeysOf(next[Len(next)]) : x < y

LEMMA KeyIsHad ==
  ASSUME NEW page, NEW k
  PROVE  k \in KeysOf(page) <=> \E e : Has(page.records, e) /\ e.key = k
BY DEF KeysOf, Has

LEMMA PutKeys ==
  ASSUME NEW page, NEW q, NEW key, NEW rid, Put(q, page, key, rid),
         \A j \in 1 .. Len(page.records) : page.records[j].key # key
  PROVE  KeysOf(q) = KeysOf(page) \cup {key}
<1>1. \A e : Has(page.records, e) => e.key # key
  BY DEF Has
<1>2. ASSUME NEW k PROVE k \in KeysOf(q) <=> k \in KeysOf(page) \/ k = key
  <2>1. ASSUME k \in KeysOf(q) PROVE k \in KeysOf(page) \/ k = key
    <3>1. PICK e : Has(q.records, e) /\ e.key = k
      BY <2>1, KeyIsHad
    <3>2. e = Record(key, rid) \/ Has(page.records, e)
      BY <3>1 DEF Put
    <3> QED
      BY <3>1, <3>2, RecordIs, KeyIsHad
  <2>2. ASSUME k \in KeysOf(page) PROVE k \in KeysOf(q)
    <3>1. PICK e : Has(page.records, e) /\ e.key = k
      BY <2>2, KeyIsHad
    <3>2. Has(q.records, e)
      BY <1>1, <3>1 DEF Put
    <3> QED
      BY <3>1, <3>2, KeyIsHad
  <2>3. key \in KeysOf(q)
    <3>1. Has(q.records, Record(key, rid))
      BY DEF Put
    <3> QED
      BY <3>1, RecordIs, KeyIsHad
  <2> QED
    BY <2>1, <2>2, <2>3
<1> QED
  BY <1>2

LEMMA CutKeys ==
  ASSUME NEW page \in Page, page.leaf, NEW S \in SUBSET Int, NodeOK(page, S),
         NEW low, NEW high, NEW m, Cut(page, low, high, m)
  PROVE  /\ KeysOf(low) # {} /\ KeysOf(high) # {}
         /\ KeysOf(page) = KeysOf(low) \cup KeysOf(high)
         /\ \A x \in KeysOf(low), y \in KeysOf(high) : x < y
<1> DEFINE n == Len(page.records)
<1>1. n \in Nat
  BY LenProperties DEF Page
<1>2. /\ m \in 1 .. n - 1 /\ Len(low.records) = m /\ Len(high.records) = n - m
      /\ \A i \in 1 .. m : low.records[i] = page.records[i]
      /\ \A i \in 1 .. n - m : high.records[i] = page.records[m + i]
  BY DEF Cut
<1>3. \A i, j \in 1 .. n : i < j => page.records[i].key < page.records[j].key
  BY DEF NodeOK, NumKeys, Ordered
<1>4. \A e : Has(page.records, e) <=> Has(low.records, e) \/ Has(high.records, e)
  BY <1>1, CutSame
<1> HIDE DEF n
<1>5. KeysOf(low) # {} /\ KeysOf(high) # {}
  <2>1. 1 \in 1 .. m /\ 1 \in 1 .. n - m
    BY <1>1, <1>2
  <2> QED
    BY <1>2, <2>1 DEF KeysOf
<1>6. KeysOf(page) = KeysOf(low) \cup KeysOf(high)
  <2>1. ASSUME NEW k PROVE k \in KeysOf(page) <=> k \in KeysOf(low) \/ k \in KeysOf(high)
    BY <1>4, KeyIsHad
  <2> QED
    BY <2>1
<1>7. ASSUME NEW x \in KeysOf(low), NEW y \in KeysOf(high) PROVE x < y
  <2>1. PICK i \in 1 .. m : x = page.records[i].key
    BY <1>2 DEF KeysOf
  <2>2. PICK j \in 1 .. n - m : y = page.records[m + j].key
    BY <1>2 DEF KeysOf
  <2>3. i \in 1 .. n /\ m + j \in 1 .. n /\ i < m + j
    BY <1>1, <1>2
  <2> QED
    BY <1>3, <2>1, <2>2, <2>3
<1> QED
  BY <1>5, <1>6, <1>7

LEMMA InnerOnly ==
  ASSUME NEW pages, NEW next, Len(pages) \in Nat, Len(next) \in Nat, Len(pages) <= Len(next),
         \A p \in 1 .. Len(next) : \/ p \in 1 .. Len(pages) /\ next[p] = pages[p]
                                  \/ /\ ~next[p].leaf
                                     /\ p \in 1 .. Len(pages) => ~pages[p].leaf
  PROVE  LeavesKept(next, pages) /\ LinksKept(next, pages)
<1>1. \A p \in 1 .. Len(pages) : p \in 1 .. Len(next)
  OBVIOUS
<1>2. ASSUME NEW e PROVE HasLeaf(next, e) <=> HasLeaf(pages, e)
  <2>1. ASSUME HasLeaf(next, e) PROVE HasLeaf(pages, e)
    BY <2>1 DEF HasLeaf
  <2>2. ASSUME HasLeaf(pages, e) PROVE HasLeaf(next, e)
    BY <1>1, <2>2 DEF HasLeaf
  <2> QED
    BY <2>1, <2>2
<1>3. ASSUME NEW p
      PROVE  /\ IsLeaf(next, p) <=> IsLeaf(pages, p)
             /\ IsLeaf(pages, p) => next[p] = pages[p]
  <2>1. ASSUME IsLeaf(next, p) PROVE IsLeaf(pages, p)
    BY <2>1 DEF IsLeaf
  <2>2. ASSUME IsLeaf(pages, p) PROVE IsLeaf(next, p) /\ next[p] = pages[p]
    BY <1>1, <2>2 DEF IsLeaf
  <2> QED
    BY <2>1, <2>2
<1> QED
  BY <1>2, <1>3 DEF LeavesKept, LinksKept

-----------------------------------------------------------------------------
(* Inserting into a leaf. *)

LEMMA LeafStep ==
  ASSUME NEW pages, NEW root, NEW sc, NEW ht, Tree(pages, root, sc, ht), PagesFit(pages),
         NEW c \in 1 .. Len(pages), pages[c].leaf, NEW q \in Page, q.leaf, NodeOK(q, sc[c]),
         Fits(q, Len(pages)), q.right = pages[c].right
  PROVE  Inv([pages EXCEPT ![c] = q], root, Idle)
<1> DEFINE next == [pages EXCEPT ![c] = q]
<1>1. pages \in Seq(Page) /\ Len(pages) \in Nat
  BY TreeType DEF Tree
<1>2. Changed(next, pages, c, q)
  BY <1>1, PageChanged
<1>3. Tree(next, root, sc, ht)
  BY LeafChange
<1> HIDE DEF next
<1>4. /\ next \in Seq(Page) /\ Len(next) = Len(pages)
      /\ \A p \in 1 .. Len(pages) : next[p] = IF p = c THEN q ELSE pages[p]
  BY <1>2 DEF Changed
<1>5. LinkOK(pages, pages[c].right)
  BY DEF PagesFit
<1>6. LinkOK(next, q.right)
  <2>1. \A p \in 1 .. Len(pages) : pages[p].leaf => next[p].leaf
    BY <1>4
  <2> QED
    BY <1>4, <1>5, <2>1 DEF LinkOK
<1>7. \A p \in 1 .. Len(pages) : next[p].leaf = pages[p].leaf
  <2> TAKE p \in 1 .. Len(pages)
  <2>1. CASE p = c
    <3>1. q.leaf = TRUE /\ pages[c].leaf = TRUE
      <4>1. pages[c] \in Page
        BY <1>1, ElementOfSeq
      <4> QED
        BY <4>1 DEF Page
    <3> QED
      BY <1>4, <2>1, <3>1
  <2>2. CASE p # c
    BY <1>4, <2>2
  <2> QED
    BY <2>1, <2>2
<1>8. PagesFit(next)
  <2>1. \A p \in 1 .. Len(next) :
          \/ p \in 1 .. Len(pages) /\ next[p] = pages[p]
          \/ Fits(next[p], Len(next)) /\ LinkOK(next, next[p].right)
    BY <1>4, <1>6
  <2>2. Len(pages) <= Len(next)
    BY <1>1, <1>4
  <2> QED
    BY <1>4, <1>7, <2>1, <2>2, FitsKept
<1>9. Inv(next, root, Idle)
  BY <1>3, <1>8, DownInv, IdleIs
<1> QED
  BY <1>9 DEF next

\* The leaf a call has come down to.
LEMMA AtLeaf ==
  ASSUME IInv, GoingDown, buffer[Current].leaf
  PROVE  /\ PagesFit(buffer) /\ Len(buffer) \in Nat /\ Current \in 1 .. Len(buffer)
         /\ buffer[Current] \in Page /\ Fits(buffer[Current], Len(buffer))
         /\ call.key \in Key /\ call.key \in Int /\ call.rid \in Rid
         /\ call.path \in Seq(1 .. Len(buffer)) /\ call.path # <<>> /\ call # Idle
         /\ call \in [key : Key, rid : Rid, path : Seq(1 .. Len(buffer)),
                      promoted : {<<>>} \cup (Key \X (1 .. Len(buffer)))]
         /\ \E sc, ht :
              /\ Tree(buffer, root_page, sc, ht) /\ OnWay(call.path, call.key, root_page, sc, ht)
              /\ call.key \in sc[Current] /\ sc[Current] \in SUBSET Int /\ NodeOK(buffer[Current], sc[Current])
<1>1. call # Idle /\ call.promoted = <<>>
  BY DEF GoingDown
<1>2. PICK sc, ht : /\ PagesFit(buffer) /\ CallFits(call, Len(buffer))
                    /\ Tree(buffer, root_page, sc, ht)
                    /\ OnWay(call.path, call.key, root_page, sc, ht)
  BY <1>1, DownIs DEF IInv
<1>3. /\ call \in [key : Key, rid : Rid, path : Seq(1 .. Len(buffer)),
                   promoted : {<<>>} \cup (Key \X (1 .. Len(buffer)))]
      /\ call.key \in Key /\ call.rid \in Rid
      /\ call.path \in Seq(1 .. Len(buffer)) /\ call.path # <<>>
  BY <1>1, <1>2, CallIs
<1>4. Current \in 1 .. Len(buffer) /\ call.key \in sc[Current]
  BY <1>2, <1>3, WayEnd DEF Current
<1>5. Len(buffer) \in Nat /\ buffer[Current] \in Page /\ sc[Current] \in SUBSET Int
  BY <1>2, <1>4, TreeType
<1>6. NodeOK(buffer[Current], sc[Current])
  BY <1>2, <1>4 DEF Tree, PageOK
<1>7. Fits(buffer[Current], Len(buffer))
  BY <1>2, <1>4 DEF PagesFit
<1>8. call.key \in Int
  BY <1>3, KeysAreNumbers
<1> QED
  BY <1>1, <1>2, <1>3, <1>4, <1>5, <1>6, <1>7, <1>8

LEMMA OverwriteKeeps ==
  ASSUME IInv, Overwrite
  PROVE  IInv' /\ LeafPut(buffer', buffer, call.key, call.rid) /\ LinksKept(buffer', buffer)
<1> DEFINE c == Current
           i == Slot(buffer[c].records, call.key)
           q == [buffer[c] EXCEPT !.records[i].value = call.rid]
           n == Len(buffer)
<1>1. /\ GoingDown /\ buffer[c].leaf /\ Found(buffer[c].records, call.key)
      /\ buffer' = [buffer EXCEPT ![c].records[i].value = call.rid]
      /\ call' = Idle /\ root_page' = root_page
  BY DEF Overwrite, Records
<1>2. PICK sc, ht :
        /\ Tree(buffer, root_page, sc, ht) /\ call.key \in sc[c] /\ sc[c] \in SUBSET Int
        /\ NodeOK(buffer[c], sc[c])
  BY <1>1, AtLeaf
<1>3. /\ PagesFit(buffer) /\ c \in 1 .. n /\ buffer[c] \in Page /\ Fits(buffer[c], n)
      /\ call.key \in Key /\ call.rid \in Rid
  BY <1>1, AtLeaf
<1>4. Overwritten(q, buffer[c], i, call.key, call.rid) /\ NodeOK(q, sc[c])
  BY <1>1, <1>2, <1>3, LeafOverwritten
<1>5. buffer' = [buffer EXCEPT ![c] = q]
  BY <1>1
<1> HIDE DEF c, i, q, n
<1>6. /\ q \in Page /\ q.leaf /\ q.right = buffer[c].right
      /\ Len(q.records) = Len(buffer[c].records)
      /\ \A j \in 1 .. Len(buffer[c].records) :
           q.records[j] = IF j = i THEN Record(call.key, call.rid) ELSE buffer[c].records[j]
  BY <1>4 DEF Overwritten
<1>7. Fits(q, n)
  <2>1. \A j \in 1 .. Len(q.records) : SlotFits(q, j, n)
    <3> TAKE j \in 1 .. Len(q.records)
    <3>1. SlotFits(buffer[c], j, n)
      BY <1>3, <1>6 DEF Fits
    <3>2. q.records[j].key \in Key /\ q.records[j].value \in Rid
      <4>1. CASE j = i
        <5>1. q.records[j] = Record(call.key, call.rid)
          BY <1>6, <4>1
        <5> QED
          BY <1>3, <5>1, RecordIs
      <4>2. CASE j # i
        BY <1>1, <1>6, <3>1, <4>2 DEF SlotFits
      <4> QED
        BY <4>1, <4>2
    <3> QED
      BY <1>6, <3>2 DEF SlotFits
  <2> QED
    BY <1>1, <1>3, <1>6, <2>1 DEF Fits
<1>8. Inv([buffer EXCEPT ![c] = q], root_page, Idle)
  BY <1>1, <1>2, <1>3, <1>4, <1>6, <1>7, LeafStep DEF n
<1>9. LeafPut(buffer', buffer, call.key, call.rid)
  <2>1. Put(q, buffer[c], call.key, call.rid)
    BY <1>1, <1>2, <1>3, <1>4, OverwrittenPut
  <2>2. Changed(buffer', buffer, c, q)
    BY <1>3, <1>5, <1>6, PageChanged DEF PagesFit, n
  <2> QED
    BY <1>1, <1>2, <1>3, <1>6, <2>1, <2>2, PutInLeaf DEF n
<1>10. LinksKept(buffer', buffer)
  <2>1. Changed(buffer', buffer, c, q)
    BY <1>3, <1>5, <1>6, PageChanged DEF PagesFit, n
  <2>2. KeysOf(q) = KeysOf(buffer[c])
    <3>1. \A j \in 1 .. Len(buffer[c].records) : q.records[j].key = buffer[c].records[j].key
      <4> TAKE j \in 1 .. Len(buffer[c].records)
      <4>1. buffer[c].records[i].key = call.key
        BY <1>4 DEF Overwritten
      <4> QED
        BY <1>6, <4>1, RecordIs
    <3> QED
      BY <1>6, <3>1 DEF KeysOf
  <2> QED
    BY <1>1, <1>3, <1>6, <2>1, <2>2 DEF LinksKept, IsLeaf, Changed, n
<1> QED
  BY <1>1, <1>5, <1>8, <1>9, <1>10 DEF IInv

\* The slots of a leaf with a new record.
LEMMA GrownSlots ==
  ASSUME NEW page \in Page, page.leaf, NEW n, Fits(page, n),
         NEW q, NEW i, NEW key \in Key, NEW rid \in Rid, Grown(q, page, i, key, rid)
  PROVE  /\ Len(q.records) = Len(page.records) + 1
         /\ \A j \in 1 .. Len(q.records) : q.records[j].key \in Key /\ q.records[j].value \in Rid
<1>1. /\ page.records \in Seq(Entry) /\ Len(page.records) \in Nat
  BY LenProperties DEF Page
<1>2. /\ i \in 1 .. Len(page.records) + 1 /\ Len(q.records) = Len(page.records) + 1
      /\ \A j \in 1 .. Len(page.records) + 1 :
           q.records[j] = IF j < i THEN page.records[j]
                          ELSE IF j = i THEN Record(key, rid) ELSE page.records[j - 1]
  BY DEF Grown, Inserted
<1>3. \A j \in 1 .. Len(page.records) : page.records[j].key \in Key /\ page.records[j].value \in Rid
  BY DEF Fits, SlotFits
<1>4. \A j \in 1 .. Len(q.records) : q.records[j].key \in Key /\ q.records[j].value \in Rid
  <2> TAKE j \in 1 .. Len(q.records)
  <2>0. j \in Int /\ i \in Int /\ j \in 1 .. Len(page.records) + 1
    BY <1>1, <1>2
  <2>1. CASE j < i
    <3>1. j \in 1 .. Len(page.records)
      BY <1>1, <1>2, <2>0, <2>1
    <3> QED
      BY <1>2, <1>3, <2>0, <2>1, <3>1
  <2>2. CASE j = i
    <3>1. ~(j < i)
      BY <2>0, <2>2
    <3>2. q.records[j] = Record(key, rid)
      BY <1>2, <2>0, <2>2, <3>1
    <3> QED
      BY <3>2, RecordIs
  <2>3. CASE j > i
    <3>1. j - 1 \in 1 .. Len(page.records) /\ ~(j < i) /\ j # i
      BY <1>1, <1>2, <2>0, <2>3
    <3>2. q.records[j] = page.records[j - 1]
      BY <1>2, <2>0, <3>1
    <3> QED
      BY <1>3, <3>1, <3>2
  <2> QED
    BY <2>0, <2>1, <2>2, <2>3
<1> QED
  BY <1>2, <1>4

LEMMA AddToLeafKeeps ==
  ASSUME IInv, AddToLeaf
  PROVE  /\ IInv' /\ LeafPut(buffer', buffer, call.key, call.rid)
         /\ \E c : LeafTook(buffer', buffer, c, call.key)
<1> DEFINE c == Current
           i == Slot(buffer[c].records, call.key)
           q == [buffer[c] EXCEPT !.records = InsertAt(@, Slot(@, call.key), Record(call.key, call.rid))]
           n == Len(buffer)
<1>1. /\ GoingDown /\ buffer[c].leaf /\ ~Found(buffer[c].records, call.key)
      /\ ~IsFull(buffer[c])
      /\ buffer' = [buffer EXCEPT ![c].records = InsertAt(@, Slot(@, call.key), Record(call.key, call.rid))]
      /\ call' = Idle /\ root_page' = root_page
  BY DEF AddToLeaf, Records
<1>2. PICK sc, ht :
        /\ Tree(buffer, root_page, sc, ht) /\ call.key \in sc[c] /\ sc[c] \in SUBSET Int
        /\ NodeOK(buffer[c], sc[c])
  BY <1>1, AtLeaf
<1>3. /\ PagesFit(buffer) /\ c \in 1 .. n /\ buffer[c] \in Page /\ Fits(buffer[c], n)
      /\ call.key \in Key /\ call.rid \in Rid
  BY <1>1, AtLeaf
<1>4. Grown(q, buffer[c], i, call.key, call.rid) /\ NodeOK(q, sc[c])
  BY <1>1, <1>2, <1>3, LeafGrown
<1>5. buffer' = [buffer EXCEPT ![c] = q]
  BY <1>1
<1> HIDE DEF c, i, q, n
<1>6. q \in Page /\ q.leaf /\ q.right = buffer[c].right
  BY <1>4 DEF Grown
<1>7. Fits(q, n)
  <2>1. /\ Len(q.records) = Len(buffer[c].records) + 1
        /\ \A j \in 1 .. Len(q.records) : q.records[j].key \in Key /\ q.records[j].value \in Rid
    BY <1>1, <1>3, <1>4, GrownSlots
  <2>2. \A j \in 1 .. Len(q.records) : SlotFits(q, j, n)
    BY <1>6, <2>1 DEF SlotFits
  <2>3. Len(q.records) <= LeafCapacity
    <3>1. Len(buffer[c].records) <= LeafCapacity
      BY <1>1, <1>3 DEF Fits
    <3>2. Len(buffer[c].records) # LeafCapacity
      BY <1>1 DEF IsFull
    <3>3. Len(buffer[c].records) \in Nat /\ LeafCapacity \in Nat
      BY <1>3, LenProperties, Capacities DEF Page, CapacityAssumption
    <3> QED
      BY <2>1, <3>1, <3>2, <3>3
  <2> QED
    BY <1>6, <2>2, <2>3 DEF Fits
<1>8. Inv([buffer EXCEPT ![c] = q], root_page, Idle)
  BY <1>1, <1>2, <1>3, <1>4, <1>6, <1>7, LeafStep DEF n
<1>9. LeafPut(buffer', buffer, call.key, call.rid)
  <2>1. \A j \in 1 .. Len(buffer[c].records) : buffer[c].records[j].key # call.key
    BY <1>1, <1>3, LenProperties DEF Found, Page
  <2>2. Put(q, buffer[c], call.key, call.rid)
    BY <1>3, <1>4, <2>1, GrownPut
  <2>3. Changed(buffer', buffer, c, q)
    BY <1>3, <1>5, <1>6, PageChanged DEF PagesFit, n
  <2> QED
    BY <1>1, <1>2, <1>3, <1>6, <2>2, <2>3, PutInLeaf DEF n
<1>10. LeafTook(buffer', buffer, c, call.key)
  <2>1. Changed(buffer', buffer, c, q)
    BY <1>3, <1>5, <1>6, PageChanged DEF PagesFit, n
  <2>2. Tree(buffer', root_page, sc, ht)
    <3>1. Tree([buffer EXCEPT ![c] = q], root_page, sc, ht)
      BY <1>1, <1>2, <1>3, <1>4, <1>6, LeafChange DEF n
    <3> QED
      BY <1>5, <3>1
  <2>3. \A j \in 1 .. Len(buffer[c].records) : buffer[c].records[j].key # call.key
    BY <1>1, <1>3, LenProperties DEF Found, Page
  <2>4. Put(q, buffer[c], call.key, call.rid)
    BY <1>3, <1>4, <2>3, GrownPut
  <2>5. KeysOf(q) = KeysOf(buffer[c]) \cup {call.key}
    BY <2>3, <2>4, PutKeys
  <2> QED
    BY <1>1, <1>2, <1>3, <1>6, <2>1, <2>2, <2>5 DEF LeafTook, IsLeaf, Changed, n
<1> QED
  BY <1>1, <1>5, <1>8, <1>9, <1>10 DEF IInv

-----------------------------------------------------------------------------
(* Splits. *)

LEMMA SplitInv ==
  ASSUME NEW pages, NEW root, NEW cl, PagesFit(pages), root \in 1 .. Len(pages),
         cl \in [key : Key, rid : Rid, path : Seq(1 .. Len(pages)),
                 promoted : {<<>>} \cup (Key \X (1 .. Len(pages)))],
         NEW B, NEW sc, NEW ht, Tree(B, root, sc, ht), OnWay(cl.path, cl.key, root, sc, ht),
         NEW next, NEW low, NEW high, NEW m, SplitOf(next, pages, B, cl.path, low, high, m),
         low.leaf = pages[Last(cl.path)].leaf,
         Fits(low, Len(pages) + 1), Fits(high, Len(pages) + 1),
         LinkOK(next, low.right), LinkOK(next, high.right)
  PROVE  Inv(next, root, [cl EXCEPT !.path = Front(@),
                            !.promoted = <<Between(B[Last(cl.path)], m), Len(pages) + 1>>])
<1> DEFINE n == Len(pages)
           c == Last(cl.path)
           promoted == <<Between(B[c], m), n + 1>>
           up == [cl EXCEPT !.path = Front(@), !.promoted = promoted]
<1>1. /\ cl.path \in Seq(1 .. n) /\ cl.path # <<>> /\ pages \in Seq(Page) /\ Len(B) = n /\ n \in Nat
      /\ Between(B[c], m) \in Key
  BY LenProperties DEF SplitOf
<1>2. /\ next \in Seq(Page) /\ Len(next) = n + 1
      /\ \A p \in 1 .. n : next[p] = IF p = c THEN low ELSE pages[p]
      /\ next[n + 1] = high
  BY <1>1, SplitPages
<1>3. Front(cl.path) \in Seq(1 .. n)
  BY <1>1, FrontIs
<1>4. \E T, H : Rooted(next, root, Front(cl.path), cl.key, promoted, T, H)
  BY SplitUp
<1> HIDE DEF c
<1>5. /\ promoted # <<>> /\ promoted \in Key \X (1 .. n + 1)
  <2>1. n + 1 \in 1 .. n + 1
    BY <1>1
  <2> QED
    BY <1>1, <2>1
<1> HIDE DEF promoted
<1>6. Front(cl.path) \in Seq(1 .. n + 1)
  <2>1. 1 .. n \subseteq 1 .. n + 1
    BY <1>1
  <2> QED
    BY <1>3, <2>1
<1>7. /\ up.path = Front(cl.path) /\ up.key = cl.key /\ up.promoted = promoted
      /\ up \in [key : Key, rid : Rid, path : Seq(1 .. n + 1), promoted : {<<>>} \cup (Key \X (1 .. n + 1))]
  BY <1>5, <1>6
<1> HIDE DEF up
<1>8. CallFits(up, n + 1)
  BY <1>5, <1>7 DEF CallFits
<1>9. PagesFit(next)
  <2>1. \A p \in 1 .. n : next[p].leaf = pages[p].leaf
    BY <1>2 DEF c
  <2>2. \A p \in 1 .. Len(next) : 
          \/ p \in 1 .. Len(pages) /\ next[p] = pages[p]
          \/ Fits(next[p], Len(next)) /\ LinkOK(next, next[p].right)
    <3> TAKE p \in 1 .. Len(next)
    <3>1. p \in 1 .. n \/ p = n + 1
      <4>1. n \in Nat /\ Len(next) = n + 1
        BY <1>1, <1>2
      <4> HIDE DEF n
      <4>2. p \in 1 .. n + 1
        BY <4>1
      <4> QED
        BY <4>1, <4>2
    <3> QED
      BY <1>2, <3>1
  <2>3. Len(pages) <= Len(next)
    BY <1>1, <1>2
  <2> QED
    BY <1>2, <2>1, <2>2, <2>3, FitsKept
<1>10. root \in 1 .. Len(next)
  BY <1>1, <1>2
<1>11. Inv(next, root, up)
  BY <1>2, <1>4, <1>7, <1>8, <1>9, <1>10 DEF Inv
<1> QED
  BY <1>11 DEF up, promoted, c, n

LEMMA SplitLeafKeeps ==
  ASSUME IInv, SplitLeaf
  PROVE  /\ IInv' /\ LeafPut(buffer', buffer, call.key, call.rid)
         /\ \E B, c : LeafTook(B, buffer, c, call.key) /\ LeafHalved(buffer', B, c)
<1> DEFINE c == Current
           n == Len(buffer)
           records == buffer[c].records
           new == Record(call.key, call.rid)
           halves == LeafHalves(records, new)
           i == Slot(records, call.key)
           all == InsertAt(records, i, new)
           q == [buffer[c] EXCEPT !.records = InsertAt(@, Slot(@, call.key), new)]
           low == Leaf(halves[1], n + 1)
           high == Leaf(halves[2], buffer[c].right)
           B == [buffer EXCEPT ![c] = q]
           next == Append([buffer EXCEPT ![c] = low], high)
<1>1. /\ GoingDown /\ buffer[c].leaf /\ ~Found(records, call.key)
      /\ IsFull(buffer[c])
      /\ buffer' = next
      /\ call' = [call EXCEPT !.path = Front(@), !.promoted = <<halves[2][1].key, n + 1>>]
      /\ root_page' = root_page
  BY DEF SplitLeaf, Records, LinkedLeaves, Promote, NewId
<1>2. PICK sc, ht :
        /\ Tree(buffer, root_page, sc, ht) /\ OnWay(call.path, call.key, root_page, sc, ht)
        /\ call.key \in sc[c] /\ sc[c] \in SUBSET Int /\ NodeOK(buffer[c], sc[c])
  BY <1>1, AtLeaf
<1>3. /\ PagesFit(buffer) /\ n \in Nat /\ c \in 1 .. n /\ buffer[c] \in Page /\ Fits(buffer[c], n)
      /\ call.key \in Key /\ call.key \in Int /\ call.rid \in Rid
      /\ call.path \in Seq(1 .. n) /\ call.path # <<>>
      /\ call \in [key : Key, rid : Rid, path : Seq(1 .. n), promoted : {<<>>} \cup (Key \X (1 .. n))]
  BY <1>1, AtLeaf
<1>4. buffer \in Seq(Page) /\ root_page \in 1 .. n
  BY <1>2 DEF Tree
<1>5. Grown(q, buffer[c], i, call.key, call.rid) /\ NodeOK(q, sc[c])
  BY <1>1, <1>2, <1>3, LeafGrown
<1>6. new \in Entry /\ new.key = call.key
  BY <1>3 DEF Entry, Record
<1>7. records \in Seq(Entry) /\ i \in 1 .. Len(records) + 1 /\ Len(records) = LeafCapacity
  <2>1. records \in Seq(Entry) /\ i \in 1 .. Len(records) + 1
    BY <1>1, <1>2, <1>3, LeafSlot
  <2>2. Len(records) = LeafCapacity
    BY <1>1 DEF IsFull
  <2> QED
    BY <2>1, <2>2
<1>8. q.records = all
  BY <1>3 DEF Page
<1> HIDE DEF new, q, c, n
<1>9. PICK m \in 1 .. LeafCapacity :
        /\ halves[1] \in Seq(Entry) /\ halves[2] \in Seq(Entry)
        /\ Len(halves[1]) <= LeafCapacity /\ Len(halves[2]) <= LeafCapacity
        /\ Cuts(all, halves[1], halves[2], m)
  <2> HIDE DEF records
  <2> QED
    BY <1>6, <1>7, LeafHalvesCut
<1> HIDE DEF halves, all, records, i
<1>10. /\ low \in Page /\ high \in Page /\ low.leaf /\ high.leaf
       /\ low.records = halves[1] /\ high.records = halves[2]
       /\ low.right = n + 1 /\ high.right = buffer[c].right
  BY <1>3, <1>9 DEF Leaf, Page
<1> HIDE DEF low, high
<1>11. /\ q \in Page /\ q.leaf
  BY <1>5 DEF Grown
<1>12. Tree(B, root_page, sc, ht)
  BY <1>1, <1>2, <1>3, <1>5, <1>11, LeafChange DEF n
<1>13. /\ B \in Seq(Page) /\ Len(B) = n
       /\ \A p \in 1 .. n : B[p] = IF p = c THEN q ELSE buffer[p]
  <2>1. Changed(B, buffer, c, q)
    BY <1>3, <1>4, <1>11, PageChanged DEF n
  <2> QED
    BY <2>1 DEF Changed, n
<1> HIDE DEF B
<1>14. B[c] = q
  BY <1>3, <1>13
<1>15. Cut(B[c], low, high, m)
  <2>1. low.leaf = TRUE /\ high.leaf = TRUE /\ q.leaf = TRUE
    BY <1>10, <1>11 DEF Page
  <2> QED
    <3>1. B[c].leaf = TRUE /\ B[c].records = all
      BY <1>8, <1>14, <2>1
    <3>2. /\ m \in 1 .. Len(all) - 1
          /\ Len(low.records) = m
          /\ Len(high.records) = Len(all) - m
          /\ \A j \in 1 .. m : low.records[j] = all[j]
          /\ \A j \in 1 .. Len(all) - m : high.records[j] = all[m + j]
      BY <1>9, <1>10 DEF Cuts
    <3> QED
      BY <2>1, <3>1, <3>2 DEF Cut
<1>16. /\ m \in 1 .. Len(all) - 1
       /\ Len(halves[1]) = m
       /\ Len(halves[2]) = Len(all) - m
       /\ \A j \in 1 .. m : halves[1][j] = all[j]
       /\ \A j \in 1 .. Len(all) - m : halves[2][j] = all[m + j]
  BY <1>9 DEF Cuts
<1>17. /\ Len(all) \in Nat
       /\ \A j \in 1 .. Len(all) : all[j].key \in Key /\ all[j].value \in Rid
  <2>1. /\ Len(q.records) = Len(buffer[c].records) + 1
        /\ \A j \in 1 .. Len(q.records) : q.records[j].key \in Key /\ q.records[j].value \in Rid
    BY <1>1, <1>3, <1>5, GrownSlots
  <2>2. q.records \in Seq(Entry)
    BY <1>11 DEF Page
  <2>3. Len(q.records) \in Nat
    BY <2>2, LenProperties
  <2> QED
    BY <1>8, <2>1, <2>3
<1>18. Between(B[c], m) = halves[2][1].key /\ Between(B[c], m) \in Key
  <2>1. 1 \in 1 .. Len(all) - m /\ m + 1 \in 1 .. Len(all)
    BY <1>16, <1>17
  <2>2. Between(B[c], m) = all[m + 1].key
    BY <1>8, <1>11, <1>14 DEF Between
  <2> QED
    BY <1>16, <1>17, <2>1, <2>2
<1>19. SplitOf(next, buffer, B, call.path, low, high, m)
  <2>1. c = Last(call.path)
    BY DEF c, Current
  <2> QED
    BY <1>3, <1>4, <1>10, <1>11, <1>13, <1>14, <1>15, <1>18, <2>1 DEF SplitOf, n
<1>20. Fits(low, n + 1) /\ Fits(high, n + 1)
  <2>1. \A j \in 1 .. Len(low.records) : SlotFits(low, j, n + 1)
    <3> TAKE j \in 1 .. Len(low.records)
    <3>1. j \in 1 .. m /\ j \in 1 .. Len(all)
      BY <1>10, <1>16, <1>17
    <3> QED
      BY <1>10, <1>16, <1>17, <3>1 DEF SlotFits
  <2>2. \A j \in 1 .. Len(high.records) : SlotFits(high, j, n + 1)
    <3> TAKE j \in 1 .. Len(high.records)
    <3>1. j \in 1 .. Len(all) - m /\ m + j \in 1 .. Len(all)
      BY <1>10, <1>16, <1>17
    <3> QED
      BY <1>10, <1>16, <1>17, <3>1 DEF SlotFits
  <2> QED
    BY <1>9, <1>10, <2>1, <2>2 DEF Fits
<1>21. /\ Len(next) = n + 1 /\ next[n + 1] = high
       /\ \A p \in 1 .. n : next[p] = IF p = c THEN low ELSE buffer[p]
  <2> HIDE DEF next
  <2>1. /\ next \in Seq(Page) /\ Len(next) = Len(B) + 1
        /\ \A p \in 1 .. Len(B) : next[p] = IF p = Last(call.path) THEN low ELSE buffer[p]
        /\ next[Len(B) + 1] = high
    BY <1>19, SplitPages
  <2> QED
    BY <1>13, <2>1 DEF c, Current
<1> HIDE DEF next
<1>22. LinkOK(next, low.right) /\ LinkOK(next, high.right)
  <2>1. LinkOK(next, low.right)
    BY <1>3, <1>10, <1>21 DEF LinkOK
  <2>2. LinkOK(buffer, buffer[c].right)
    BY <1>3 DEF PagesFit, n
  <2>3. \A p \in 1 .. n : p \in 1 .. n + 1 /\ (buffer[p].leaf => next[p].leaf)
    BY <1>3, <1>10, <1>21
  <2>4. LinkOK(next, high.right)
    BY <1>10, <1>21, <2>2, <2>3 DEF LinkOK, n
  <2> QED
    BY <2>1, <2>4
<1>23. low.leaf = buffer[c].leaf
  BY <1>1, <1>3, <1>10 DEF Page
<1>24. Inv(next, root_page, [call EXCEPT !.path = Front(@),
                               !.promoted = <<Between(B[Last(call.path)], m), Len(buffer) + 1>>])
  BY <1>2, <1>3, <1>4, <1>12, <1>19, <1>20, <1>22, <1>23, SplitInv DEF n, c, Current
<1>25. call' = [call EXCEPT !.path = Front(@),
                  !.promoted = <<Between(B[Last(call.path)], m), Len(buffer) + 1>>]
  BY <1>1, <1>18 DEF n, c, Current
<1>26. LeafPut(next, buffer, call.key, call.rid)
  <2>1. \A j \in 1 .. Len(buffer[c].records) : buffer[c].records[j].key # call.key
    BY <1>1, <1>3, LenProperties DEF Found, Page, records
  <2>2. Put(q, buffer[c], call.key, call.rid)
    BY <1>3, <1>5, <2>1, GrownPut
  <2>3. Changed(B, buffer, c, q)
    BY <1>3, <1>4, <1>11, PageChanged DEF n, B
  <2>4. LeafPut(B, buffer, call.key, call.rid)
    BY <1>1, <1>2, <1>3, <1>11, <2>2, <2>3, PutInLeaf DEF n
  <2>5. LeavesKept(next, B)
    <3>1. c = Last(call.path)
      BY DEF c, Current
    <3> QED
      BY <1>11, <1>14, <1>19, <3>1, SplitSame
  <2> QED
    BY <2>4, <2>5 DEF LeafPut, LeavesKept
<1>27. LeafTook(B, buffer, c, call.key)
  <2>1. \A j \in 1 .. Len(buffer[c].records) : buffer[c].records[j].key # call.key
    BY <1>1, <1>3, LenProperties DEF Found, Page, records
  <2>2. Put(q, buffer[c], call.key, call.rid)
    BY <1>3, <1>5, <2>1, GrownPut
  <2>3. KeysOf(q) = KeysOf(buffer[c]) \cup {call.key}
    BY <2>1, <2>2, PutKeys
  <2>4. q.right = buffer[c].right
    BY <1>5 DEF Grown
  <2> QED
    BY <1>1, <1>2, <1>3, <1>11, <1>12, <1>13, <1>14, <2>3, <2>4 DEF LeafTook, IsLeaf, n
<1>28. LeafHalved(next, B, c)
  <2>1. /\ KeysOf(low) # {} /\ KeysOf(high) # {}
        /\ KeysOf(B[c]) = KeysOf(low) \cup KeysOf(high)
        /\ \A x \in KeysOf(low), y \in KeysOf(high) : x < y
    BY <1>2, <1>5, <1>11, <1>14, <1>15, CutKeys
  <2>2. next[c] = low /\ next[Len(next)] = high
    BY <1>3, <1>21
  <2>3. B[c].right = buffer[c].right
    BY <1>5, <1>14 DEF Grown
  <2>4. \A p \in 1 .. n : p # c => next[p] = B[p]
    BY <1>13, <1>21
  <2>5. IsLeaf(B, c)
    BY <1>3, <1>11, <1>13, <1>14 DEF IsLeaf
  <2> QED
    BY <1>3, <1>10, <1>13, <1>21, <2>1, <2>2, <2>3, <2>4, <2>5 DEF LeafHalved
<1>29. \E D, a : LeafTook(D, buffer, a, call.key) /\ LeafHalved(next, D, a)
  BY <1>27, <1>28
<1> QED
  BY <1>1, <1>24, <1>25, <1>26, <1>29 DEF IInv

-----------------------------------------------------------------------------
(* Returning to inner pages. *)

Wide(page, promoted) == [page EXCEPT !.records = WithChild(@, promoted[1], promoted[2])]

\* Page c of the completed tree B is the one with the further child.
WideAt(B, pages, root, cl, c) ==
  /\ PagesFit(pages) /\ root \in 1 .. Len(pages) /\ Len(pages) \in Nat
  /\ c = Last(cl.path) /\ c \in 1 .. Len(pages) /\ pages[c] \in Page /\ ~pages[c].leaf
  /\ Fits(pages[c], Len(pages))
  /\ cl \in [key : Key, rid : Rid, path : Seq(1 .. Len(pages)),
             promoted : {<<>>} \cup (Key \X (1 .. Len(pages)))]
  /\ cl.path \in Seq(1 .. Len(pages)) /\ cl.promoted[1] \in Key /\ cl.promoted[2] \in 1 .. Len(pages)
  /\ Changed(B, pages, c, Wide(pages[c], cl.promoted))
  /\ B[c].leaf = pages[c].leaf /\ B[c].right = pages[c].right
  /\ B[c].records = WithChild(pages[c].records, cl.promoted[1], cl.promoted[2])
  /\ Widened(B[c].records, pages[c].records, Child(pages[c].records, cl.promoted[1]),
             cl.promoted[1], cl.promoted[2])

LEMMA UpIs ==
  ASSUME NEW pages, NEW root, NEW cl, Inv(pages, root, cl), cl.promoted # <<>>, cl.path # <<>>
  PROVE  LET c == Last(cl.path)
             B == [pages EXCEPT ![c].records = WithChild(@, cl.promoted[1], cl.promoted[2])]
         IN  /\ WideAt(B, pages, root, cl, c)
             /\ \E sc, ht : Tree(B, root, sc, ht) /\ OnWay(cl.path, cl.key, root, sc, ht)
<1> DEFINE c == Last(cl.path)
           B == [pages EXCEPT ![c].records = WithChild(@, cl.promoted[1], cl.promoted[2])]
           n == Len(pages)
           wide == Wide(pages[c], cl.promoted)
           key == cl.promoted[1]
           child == cl.promoted[2]
<1>1. PICK sc, ht : Rooted(pages, root, cl.path, cl.key, cl.promoted, sc, ht)
  BY DEF Inv
<1>2. /\ Completed(pages, root, cl.path, cl.promoted) = B
      /\ CompletedRoot(pages, root, cl.path, cl.promoted) = root
  BY DEF Completed, CompletedRoot
<1> HIDE DEF B
<1>3. /\ Tree(B, root, sc, ht) /\ OnWay(cl.path, cl.key, root, sc, ht)
      /\ \A i \in 1 .. Len(cl.path) : ht[cl.path[i]] # 0
  BY <1>1, <1>2 DEF Rooted
<1>4. PagesFit(pages) /\ root \in 1 .. n /\ CallFits(cl, n)
  BY DEF Inv
<1>5. cl # Idle
  BY IdleIs
<1>6. /\ cl \in [key : Key, rid : Rid, path : Seq(1 .. n), promoted : {<<>>} \cup (Key \X (1 .. n))]
      /\ cl.path \in Seq(1 .. n) /\ key \in Key /\ child \in 1 .. n
  BY <1>4, <1>5, CallIs
<1>7. pages \in Seq(Page) /\ n \in Nat /\ DOMAIN pages = 1 .. n
  BY <1>4, LenProperties DEF PagesFit
<1>8. c \in 1 .. n /\ c = cl.path[Len(cl.path)] /\ Len(cl.path) \in 1 .. Len(cl.path)
  <2>1. /\ Len(cl.path) \in Nat \ {0} /\ Last(cl.path) = cl.path[Len(cl.path)]
        /\ Last(cl.path) \in 1 .. n
    <3> HIDE DEF n
    <3>1. cl.path \in Seq(1 .. n)
      BY <1>6
    <3> QED
      BY <3>1, FrontIs
  <2> HIDE DEF n
  <2> QED
    BY <2>1
<1>9. pages[c] \in Page /\ Fits(pages[c], n) /\ pages[c].records \in Seq(Entry)
  <2>1. pages[c] \in Page
    BY <1>7, <1>8, ElementOfSeq
  <2> QED
    BY <1>4, <1>8, <2>1 DEF PagesFit, Page
<1> HIDE DEF c, n, key, child
<1>10. /\ wide.leaf = pages[c].leaf /\ wide.right = pages[c].right
       /\ wide.records = WithChild(pages[c].records, key, child)
  BY <1>9 DEF Wide, Page, key, child
<1>11. B = [pages EXCEPT ![c] = wide]
  BY DEF B, c, Wide
<1> HIDE DEF wide
<1>12. B[c] = wide
  BY <1>7, <1>8, <1>11
<1>13. c \in 1 .. Len(B)
  <2>1. DOMAIN B = DOMAIN pages
    BY <1>11
  <2>2. DOMAIN B = 1 .. Len(B)
    BY <1>3, TreeType
  <2> QED
    BY <1>7, <1>8, <2>1, <2>2
<1>14. ~pages[c].leaf
  <2>1. ht[c] # 0
    BY <1>3, <1>8
  <2>2. ~B[c].leaf
    BY <1>3, <1>13, <2>1 DEF Tree, PageOK
  <2> QED
    BY <1>10, <1>12, <2>2
<1>15. Child(pages[c].records, key) \in 1 .. Len(pages[c].records)
  <2>1. pages[c].records # <<>> /\ Ordered(pages[c].records, Len(pages[c].records) - 1)
    BY <1>9, <1>14 DEF Fits
  <2>2. key \in Int
    BY <1>6, KeysAreNumbers
  <2> QED
    BY <1>9, <2>1, <2>2, ChildIs
<1>16. child \in Nat
  BY <1>6, <1>7
<1>17. Widened(wide.records, pages[c].records, Child(pages[c].records, key), key, child)
  BY <1>6, <1>9, <1>10, <1>15, <1>16, WithChildIs
<1>18. wide \in Page
  <2>1. wide.records \in Seq(Entry)
    BY <1>17 DEF Widened
  <2> QED
    BY <1>9, <1>10, <2>1 DEF wide, Wide, Page
<1>19. Changed(B, pages, c, wide)
  BY <1>7, <1>8, <1>11, <1>18, PageChanged DEF n
<1>20. WideAt(B, pages, root, cl, c)
  BY <1>4, <1>6, <1>7, <1>8, <1>9, <1>10, <1>12, <1>14, <1>17, <1>19 DEF WideAt, n, c, key, child, wide
<1> QED
  BY <1>3, <1>20 DEF c, B

LEMMA WidenedSlots ==
  ASSUME NEW page \in Page, ~page.leaf, NEW n \in Nat, Fits(page, n),
         NEW wide, NEW i \in 1 .. Len(page.records), NEW key \in Key, NEW child \in 1 .. n,
         Widened(wide, page.records, i, key, child)
  PROVE  /\ Len(page.records) \in Nat /\ Len(wide) = Len(page.records) + 1
         /\ \A j \in 1 .. Len(wide) :
              /\ j < Len(wide) => wide[j].key \in Key
              /\ wide[j].value \in 1 .. n
<1> DEFINE records == page.records
           L == Len(records)
<1>1. L \in Nat /\ i \in 1 .. L
  BY LenProperties DEF Page
<1>2. /\ Len(wide) = L + 1
      /\ \A j \in 1 .. L + 1 :
           wide[j] = IF j < i THEN records[j]
                     ELSE IF j = i THEN Record(key, records[i].value)
                     ELSE IF j = i + 1 THEN Record(records[i].key, child)
                     ELSE records[j - 1]
  BY DEF Widened
<1>3. \A j \in 1 .. L : (j < L => records[j].key \in Key) /\ records[j].value \in 1 .. n
  BY DEF Fits, SlotFits
<1> HIDE DEF records, L
<1>4. ASSUME NEW j \in 1 .. L + 1
      PROVE  (j < L + 1 => wide[j].key \in Key) /\ wide[j].value \in 1 .. n
  <2>0. j \in Int /\ i \in Int /\ L \in Int
    BY <1>1
  <2>1. CASE j < i
    <3>1. j \in 1 .. L /\ j < L
      BY <1>1, <2>0, <2>1
    <3>2. wide[j] = records[j]
      BY <1>2, <2>1
    <3> QED
      BY <1>3, <3>1, <3>2
  <2>2. CASE j = i
    <3>1. ~(j < i)
      BY <2>0, <2>2
    <3>2. wide[j] = Record(key, records[i].value)
      BY <1>2, <2>2, <3>1
    <3> QED
      BY <1>1, <1>3, <3>2, RecordIs
  <2>3. CASE j = i + 1
    <3>1. ~(j < i) /\ j # i /\ (j < L + 1 => i < L)
      BY <2>0, <2>3
    <3>2. wide[j] = Record(records[i].key, child)
      BY <1>2, <2>3, <3>1
    <3> QED
      BY <1>1, <1>3, <3>1, <3>2, RecordIs
  <2>4. CASE j > i + 1
    <3>1. /\ ~(j < i) /\ j # i /\ j # i + 1 /\ j - 1 \in 1 .. L
          /\ (j < L + 1 => j - 1 < L)
      BY <1>1, <2>0, <2>4
    <3>2. wide[j] = records[j - 1]
      BY <1>2, <3>1
    <3> QED
      BY <1>3, <3>1, <3>2
  <2> QED
    BY <2>0, <2>1, <2>2, <2>3, <2>4
<1> QED
  BY <1>1, <1>2, <1>4 DEF L, records

LEMMA AddToInnerKeeps ==
  ASSUME IInv, AddToInner
  PROVE  IInv' /\ LeavesKept(buffer', buffer) /\ LinksKept(buffer', buffer)
<1> DEFINE c == Last(call.path)
           B == [buffer EXCEPT ![c].records = WithChild(@, call.promoted[1], call.promoted[2])]
           n == Len(buffer)
<1>1. /\ call.promoted # <<>> /\ call.path # <<>> /\ ~IsFull(buffer[c])
      /\ buffer' = B /\ call' = Idle /\ root_page' = root_page
  BY DEF AddToInner, GoingUp, Current
<1>2. PICK sc, ht : /\ WideAt(B, buffer, root_page, call, c)
                    /\ Tree(B, root_page, sc, ht)
  BY <1>1, UpIs DEF IInv
<1> HIDE DEF B, c
<1>3. /\ PagesFit(buffer) /\ n \in Nat /\ c \in 1 .. n /\ buffer[c] \in Page /\ ~buffer[c].leaf
      /\ Fits(buffer[c], n)
      /\ call.promoted[1] \in Key /\ call.promoted[2] \in 1 .. n
      /\ Changed(B, buffer, c, Wide(buffer[c], call.promoted))
      /\ B[c].leaf = buffer[c].leaf /\ B[c].right = buffer[c].right
      /\ Widened(B[c].records, buffer[c].records, Child(buffer[c].records, call.promoted[1]),
                 call.promoted[1], call.promoted[2])
  BY <1>2 DEF WideAt
<1>4. /\ B \in Seq(Page) /\ Len(B) = n
      /\ \A p \in 1 .. n : p # c => B[p] = buffer[p]
  BY <1>3 DEF Changed
<1>5. Child(buffer[c].records, call.promoted[1]) \in 1 .. Len(buffer[c].records)
  <2>1. buffer[c].records # <<>> /\ Ordered(buffer[c].records, Len(buffer[c].records) - 1)
    BY <1>3 DEF Fits
  <2>2. call.promoted[1] \in Int /\ buffer[c].records \in Seq(Entry)
    BY <1>3, KeysAreNumbers DEF Page
  <2> QED
    BY <2>1, <2>2, ChildIs
<1>6. /\ Len(buffer[c].records) \in Nat /\ Len(B[c].records) = Len(buffer[c].records) + 1
      /\ \A j \in 1 .. Len(B[c].records) :
           /\ j < Len(B[c].records) => B[c].records[j].key \in Key
           /\ B[c].records[j].value \in 1 .. n
  BY <1>3, <1>5, WidenedSlots
<1>7. Fits(B[c], n)
  <2>1. \A j \in 1 .. Len(B[c].records) : SlotFits(B[c], j, n)
    BY <1>3, <1>6 DEF SlotFits
  <2>2. Len(B[c].records) <= InnerCapacity
    <3>1. Len(buffer[c].records) <= InnerCapacity
      BY <1>3 DEF Fits
    <3>2. Len(buffer[c].records) # InnerCapacity
      BY <1>1, <1>3 DEF IsFull
    <3>3. InnerCapacity \in Nat
      BY Capacities DEF CapacityAssumption
    <3> QED
      BY <1>6, <3>1, <3>2, <3>3
  <2>3. NodeOK(B[c], sc[c])
    BY <1>2, <1>3, <1>4 DEF Tree, PageOK
  <2>4. B[c].records # <<>> /\ Ordered(B[c].records, Len(B[c].records) - 1)
    BY <1>3, <2>3 DEF NodeOK, NumKeys
  <2> QED
    BY <1>3, <2>1, <2>2, <2>4 DEF Fits
<1>8. PagesFit(B)
  <2>1. \A p \in 1 .. n : B[p].leaf = buffer[p].leaf
    BY <1>3, <1>4
  <2>2. LinkOK(B, B[c].right)
    <3>1. LinkOK(buffer, buffer[c].right)
      BY <1>3 DEF PagesFit
    <3> QED
      BY <1>3, <1>4, <2>1, <3>1 DEF LinkOK
  <2>3. \A p \in 1 .. Len(B) :
          \/ p \in 1 .. Len(buffer) /\ B[p] = buffer[p]
          \/ Fits(B[p], Len(B)) /\ LinkOK(B, B[p].right)
    BY <1>4, <1>7, <2>2
  <2>4. Len(buffer) <= Len(B)
    BY <1>3, <1>4
  <2> QED
    BY <1>3, <1>4, <2>1, <2>3, <2>4, FitsKept
<1>9. Inv(B, root_page, Idle)
  BY <1>2, <1>8, DownInv, IdleIs
<1>10. LeavesKept(B, buffer) /\ LinksKept(B, buffer)
  <2>1. \A p \in 1 .. Len(B) : \/ p \in 1 .. n /\ B[p] = buffer[p]
                               \/ ~B[p].leaf /\ ~buffer[p].leaf
    BY <1>3, <1>4
  <2>2. Len(B) \in Nat /\ n <= Len(B)
    BY <1>3, <1>4
  <2> QED
    BY <1>3, <2>1, <2>2, InnerOnly
<1> QED
  BY <1>1, <1>9, <1>10 DEF IInv


\* The lower half of a cut has its keys in order, and so has the upper half.
LEMMA CutOrdered ==
  ASSUME NEW all, NEW low, NEW high, NEW m, Cuts(all, low, high, m), Len(all) \in Nat,
         Ordered(all, Len(all) - 1)
  PROVE  Ordered(low, Len(low) - 1) /\ Ordered(high, Len(high) - 1)
<1> DEFINE n == Len(all)
<1>1. /\ m \in 1 .. n - 1 /\ Len(low) = m /\ Len(high) = n - m
      /\ \A j \in 1 .. m : low[j] = all[j]
      /\ \A j \in 1 .. n - m : high[j] = all[m + j]
  BY DEF Cuts
<1>2. n \in Nat /\ Ordered(all, n - 1)
  OBVIOUS
<1> HIDE DEF n
<1>3. Ordered(low, m - 1)
  <2> SUFFICES ASSUME NEW i \in 1 .. m - 1, NEW j \in 1 .. m - 1, i < j
               PROVE  low[i].key < low[j].key
    BY DEF Ordered
  <2>1. i \in 1 .. n - 1 /\ j \in 1 .. n - 1 /\ i \in 1 .. m /\ j \in 1 .. m
    BY <1>1, <1>2
  <2>2. all[i].key < all[j].key
    BY <1>2, <2>1 DEF Ordered
  <2> QED
    BY <1>1, <2>1, <2>2
<1>4. Ordered(high, n - m - 1)
  <2> SUFFICES ASSUME NEW i \in 1 .. n - m - 1, NEW j \in 1 .. n - m - 1, i < j
               PROVE  high[i].key < high[j].key
    BY DEF Ordered
  <2>1. m + i \in 1 .. n - 1 /\ m + j \in 1 .. n - 1 /\ i \in 1 .. n - m /\ j \in 1 .. n - m
        /\ m + i < m + j
    BY <1>1, <1>2
  <2>2. all[m + i].key < all[m + j].key
    BY <1>2, <2>1 DEF Ordered
  <2> QED
    BY <1>1, <2>1, <2>2
<1> QED
  BY <1>1, <1>3, <1>4

\* The slots of the halves hold what the slots of the whole do.
LEMMA CutSlots ==
  ASSUME NEW all, NEW low, NEW high, NEW m, Cuts(all, low, high, m), Len(all) \in Nat, NEW n \in Nat,
         \A j \in 1 .. Len(all) : /\ j < Len(all) => all[j].key \in Key
                                  /\ all[j].value \in 1 .. n
  PROVE  /\ \A j \in 1 .. Len(low) : /\ j < Len(low) => low[j].key \in Key
                                     /\ low[j].value \in 1 .. n + 1
         /\ \A j \in 1 .. Len(high) : /\ j < Len(high) => high[j].key \in Key
                                      /\ high[j].value \in 1 .. n + 1
         /\ all[m].key \in Key
<1> DEFINE k == Len(all)
<1>1. /\ m \in 1 .. k - 1 /\ Len(low) = m /\ Len(high) = k - m
      /\ \A j \in 1 .. m : low[j] = all[j]
      /\ \A j \in 1 .. k - m : high[j] = all[m + j]
  BY DEF Cuts
<1>2. /\ k \in Nat 
      /\ \A j \in 1 .. k : (j < k => all[j].key \in Key) /\ all[j].value \in 1 .. n
  OBVIOUS
<1> HIDE DEF k
<1>3. \A v \in 1 .. n : v \in 1 .. n + 1
  OBVIOUS
<1>4. ASSUME NEW j \in 1 .. m
      PROVE  (j < m => low[j].key \in Key) /\ low[j].value \in 1 .. n + 1
  <2>1. j \in 1 .. k /\ j < k
    BY <1>1, <1>2
  <2> QED
    BY <1>1, <1>2, <1>3, <2>1
<1>5. ASSUME NEW j \in 1 .. k - m
      PROVE  (j < k - m => high[j].key \in Key) /\ high[j].value \in 1 .. n + 1
  <2>1. m + j \in 1 .. k /\ (j < k - m => m + j < k)
    BY <1>1, <1>2
  <2> QED
    BY <1>1, <1>2, <1>3, <2>1
<1>6. m \in 1 .. k /\ m < k
  BY <1>1, <1>2
<1> QED
  BY <1>1, <1>2, <1>4, <1>5, <1>6

LEMMA SplitInnerKeeps ==
  ASSUME IInv, SplitInner
  PROVE  IInv' /\ LeavesKept(buffer', buffer) /\ LinksKept(buffer', buffer)
<1> DEFINE c == Last(call.path)
           n == Len(buffer)
           records == buffer[c].records
           key == call.promoted[1]
           child == call.promoted[2]
           halves == InnerHalves(records, key, child)
           all == WithChild(records, key, child)
           B == [buffer EXCEPT ![c].records = WithChild(@, key, child)]
           low == Inner(halves.low)
           high == Inner(halves.high)
           next == Append([buffer EXCEPT ![c] = low], high)
<1>1. /\ call.promoted # <<>> /\ call.path # <<>> /\ IsFull(buffer[c])
      /\ buffer' = next
      /\ call' = [call EXCEPT !.path = Front(@), !.promoted = <<halves.promoted, n + 1>>]
      /\ root_page' = root_page
  BY DEF SplitInner, GoingUp, Current, Records, Promote, NewId
<1>2. PICK sc, ht : /\ WideAt(B, buffer, root_page, call, c)
                    /\ Tree(B, root_page, sc, ht)
                    /\ OnWay(call.path, call.key, root_page, sc, ht)
  BY <1>1, UpIs DEF IInv
<1> HIDE DEF B, c, n
<1>3. /\ PagesFit(buffer) /\ root_page \in 1 .. n /\ n \in Nat /\ c \in 1 .. n
      /\ buffer[c] \in Page /\ ~buffer[c].leaf /\ Fits(buffer[c], n)
      /\ call \in [key : Key, rid : Rid, path : Seq(1 .. n), promoted : {<<>>} \cup (Key \X (1 .. n))]
      /\ call.path \in Seq(1 .. n) /\ key \in Key /\ child \in 1 .. n
      /\ Changed(B, buffer, c, Wide(buffer[c], call.promoted))
      /\ ~B[c].leaf /\ B[c].records = all
      /\ Widened(all, records, Child(records, key), key, child)
  BY <1>2 DEF WideAt, n
<1>4. /\ B \in Seq(Page) /\ Len(B) = n /\ buffer \in Seq(Page)
      /\ \A p \in 1 .. n : p # c => B[p] = buffer[p]
  BY <1>3 DEF Changed, n, PagesFit
<1>5. /\ records \in Seq(Entry) /\ records # <<>> /\ Ordered(records, Len(records) - 1)
      /\ Len(records) = InnerCapacity /\ key \in Int /\ child \in Nat
  <2>1. records \in Seq(Entry) /\ records # <<>> /\ Ordered(records, Len(records) - 1)
    BY <1>3 DEF Page, Fits
  <2>2. Len(records) = InnerCapacity
    BY <1>1, <1>3 DEF IsFull
  <2>3. key \in Int /\ child \in Nat
    BY <1>3, KeysAreNumbers
  <2> QED
    BY <2>1, <2>2, <2>3
<1>6. Child(records, key) \in 1 .. Len(records)
  <2> HIDE DEF records, key
  <2> QED
    BY <1>5, ChildIs
<1>7. /\ Len(records) \in Nat /\ Len(all) = Len(records) + 1
      /\ \A j \in 1 .. Len(all) :
           /\ j < Len(all) => all[j].key \in Key
           /\ all[j].value \in 1 .. n
  <2> HIDE DEF all, key, child
  <2> QED
    BY <1>3, <1>6, WidenedSlots
<1>8. /\ halves.low \in Seq(Entry) /\ halves.high \in Seq(Entry)
      /\ Len(halves.low) <= InnerCapacity /\ Len(halves.high) <= InnerCapacity
      /\ \E m \in 2 .. InnerCapacity :
           Cuts(all, halves.low, halves.high, m) /\ halves.promoted = all[m].key
  <2> HIDE DEF records, key, child
  <2> QED
    BY <1>3, <1>5, InnerHalvesCut
<1> HIDE DEF halves, all, records, key, child
<1>9. PICK m \in 2 .. InnerCapacity :
        Cuts(all, halves.low, halves.high, m) /\ halves.promoted = all[m].key
  BY <1>8
<1>10. /\ low \in Page /\ high \in Page /\ ~low.leaf /\ ~high.leaf
       /\ low.leaf = FALSE /\ high.leaf = FALSE
       /\ low.records = halves.low /\ high.records = halves.high
       /\ low.right = None /\ high.right = None
  BY <1>8 DEF Inner, Page, None
<1> HIDE DEF low, high
<1>11. B[c] \in Page
  BY <1>3, <1>4, ElementOfSeq
<1>12. Cut(B[c], low, high, m)
  <2>1. B[c].leaf = FALSE
    BY <1>3, <1>11 DEF Page
  <2>2. /\ m \in 1 .. Len(all) - 1
        /\ Len(low.records) = m
        /\ Len(high.records) = Len(all) - m
        /\ \A j \in 1 .. m : low.records[j] = all[j]
        /\ \A j \in 1 .. Len(all) - m : high.records[j] = all[m + j]
    BY <1>9, <1>10 DEF Cuts
  <2> QED
    BY <1>3, <1>10, <2>1, <2>2 DEF Cut
<1>13. Len(all) \in Nat
  BY <1>7
<1>14. Ordered(all, Len(all) - 1)
  <2>1. NodeOK(B[c], sc[c])
    BY <1>2, <1>3, <1>4 DEF Tree, PageOK
  <2> QED
    BY <1>3, <2>1 DEF NodeOK, NumKeys
<1>15. Ordered(halves.low, Len(halves.low) - 1) /\ Ordered(halves.high, Len(halves.high) - 1)
  BY <1>9, <1>13, <1>14, CutOrdered
<1>16. /\ \A j \in 1 .. Len(halves.low) : /\ j < Len(halves.low) => halves.low[j].key \in Key
                                          /\ halves.low[j].value \in 1 .. n + 1
       /\ \A j \in 1 .. Len(halves.high) : /\ j < Len(halves.high) => halves.high[j].key \in Key
                                           /\ halves.high[j].value \in 1 .. n + 1
       /\ all[m].key \in Key
  BY <1>3, <1>7, <1>9, <1>13, CutSlots
<1>17. Between(B[c], m) = halves.promoted /\ Between(B[c], m) \in Key
  BY <1>3, <1>9, <1>16 DEF Between
<1>18. SplitOf(next, buffer, B, call.path, low, high, m)
  <2>1. m # 1
    BY <1>9
  <2> QED
    BY <1>1, <1>3, <1>4, <1>10, <1>12, <1>17, <2>1 DEF SplitOf, n, c
<1>19. Len(low.records) \in Nat \ {0} /\ Len(high.records) \in Nat \ {0}
  BY <1>12, <1>13, <1>3 DEF Cut
<1>20. Fits(low, n + 1) /\ Fits(high, n + 1)
  <2>1. \A j \in 1 .. Len(low.records) : SlotFits(low, j, n + 1)
    BY <1>10, <1>16 DEF SlotFits
  <2>2. \A j \in 1 .. Len(high.records) : SlotFits(high, j, n + 1)
    BY <1>10, <1>16 DEF SlotFits
  <2>3. low.records # <<>> /\ high.records # <<>>
    BY <1>19
  <2>4. Fits(low, n + 1)
    BY <1>8, <1>10, <1>15, <2>1, <2>3 DEF Fits
  <2>5. Fits(high, n + 1)
    BY <1>8, <1>10, <1>15, <2>2, <2>3 DEF Fits
  <2> QED
    BY <2>4, <2>5
<1>21. LinkOK(next, low.right) /\ LinkOK(next, high.right)
  BY <1>10 DEF LinkOK
<1> HIDE DEF next
<1>22. low.leaf = buffer[c].leaf
  BY <1>3, <1>10 DEF Page
<1>23. Inv(next, root_page, [call EXCEPT !.path = Front(@),
                               !.promoted = <<Between(B[Last(call.path)], m), Len(buffer) + 1>>])
  BY <1>2, <1>3, <1>18, <1>20, <1>21, <1>22, SplitInv DEF n, c
<1>24. call' = [call EXCEPT !.path = Front(@),
                  !.promoted = <<Between(B[Last(call.path)], m), Len(buffer) + 1>>]
  BY <1>1, <1>17 DEF n, c
<1>25. LeavesKept(next, buffer) /\ LinksKept(next, buffer)
  <2>1. /\ Len(next) = n + 1 /\ next[n + 1] = high
        /\ \A p \in 1 .. n : next[p] = IF p = c THEN low ELSE buffer[p]
    BY <1>4, <1>18, SplitPages DEF c
  <2>2. ASSUME NEW p \in 1 .. Len(next)
        PROVE  \/ p \in 1 .. n /\ next[p] = buffer[p]
               \/ ~next[p].leaf /\ (p \in 1 .. n => ~buffer[p].leaf)
    <3>1. p \in 1 .. n \/ (p = n + 1 /\ p \notin 1 .. n)
      BY <1>3, <2>1
    <3> QED
      BY <1>3, <1>10, <2>1, <3>1
  <2>3. Len(next) \in Nat /\ n <= Len(next)
    BY <1>3, <2>1
  <2> QED
    BY <1>3, <2>2, <2>3, InnerOnly DEF n
<1> QED
  BY <1>1, <1>23, <1>24, <1>25 DEF IInv


LEMMA RecordIn ==
  ASSUME NEW k \in Key \cup {DefaultKey}, NEW v \in Rid \cup Nat
  PROVE  Record(k, v) \in Entry
BY DEF Record, Entry

LEMMA NewRootKeeps ==
  ASSUME IInv, NewRoot
  PROVE  IInv' /\ LeavesKept(buffer', buffer) /\ LinksKept(buffer', buffer)
<1> DEFINE n == Len(buffer)
           key == call.promoted[1]
           child == call.promoted[2]
           records == <<Record(key, root_page), Record(DefaultKey, child)>>
           top == Inner(records)
           B == Append(buffer, top)
<1>1. /\ call.promoted # <<>> /\ call.path = <<>>
      /\ buffer' = B /\ root_page' = n + 1 /\ call' = Idle
  BY DEF NewRoot, GoingUp, NewId
<1>2. PICK sc, ht : Rooted(buffer, root_page, call.path, call.key, call.promoted, sc, ht)
  BY DEF IInv, Inv
<1>3. Tree(B, n + 1, sc, ht)
  <2>1. /\ Completed(buffer, root_page, call.path, call.promoted) = B
        /\ CompletedRoot(buffer, root_page, call.path, call.promoted) = n + 1
    BY <1>1 DEF Completed, CompletedRoot
  <2> HIDE DEF B, n
  <2> QED
    BY <1>2, <2>1 DEF Rooted
<1>4. /\ PagesFit(buffer) /\ root_page \in 1 .. n /\ CallFits(call, n) /\ buffer \in Seq(Page) /\ n \in Nat
  <2>1. PagesFit(buffer) /\ root_page \in 1 .. n /\ CallFits(call, n)
    BY DEF IInv, Inv
  <2>2. buffer \in Seq(Page)
    BY <2>1 DEF PagesFit
  <2> QED
    BY <2>1, <2>2, LenProperties
<1>5. key \in Key /\ child \in 1 .. n
  <2>1. call # Idle
    BY <1>1, IdleIs
  <2> HIDE DEF n
  <2> QED
    BY <1>1, <1>4, <2>1, CallIs
<1> HIDE DEF key, child
<1>6. /\ records \in Seq(Entry) /\ Len(records) = 2 /\ records # <<>>
      /\ records[1] = Record(key, root_page) /\ records[2] = Record(DefaultKey, child)
  <2>0. root_page \in Nat /\ child \in Nat
    <3> HIDE DEF n
    <3> QED
      BY <1>4, <1>5
  <2>1. Record(key, root_page) \in Entry
    BY <1>5, <2>0, RecordIn
  <2>2. Record(DefaultKey, child) \in Entry
    BY <2>0, RecordIn
  <2> QED
    BY <2>1, <2>2
<1>7. /\ records[1].key = key /\ records[1].value = root_page /\ records[2].value = child
  BY <1>6, RecordIs
<1> HIDE DEF records
<1>8. /\ top \in Page /\ ~top.leaf /\ top.records = records /\ top.right = None
  BY <1>6 DEF Inner, Page, None
<1> HIDE DEF top
<1>9. /\ B \in Seq(Page) /\ Len(B) = n + 1 /\ B[n + 1] = top
      /\ \A p \in 1 .. n : B[p] = buffer[p]
  <2>1. Extended(B, buffer, top)
    BY <1>4, <1>8, PageAdded
  <2> QED
    BY <2>1 DEF Extended
<1> HIDE DEF B
<1>10. Fits(top, n + 1)
  <2>1. \A j \in 1 .. 2 : j = 1 \/ j = 2
    OBVIOUS
  <2>2. root_page \in 1 .. n + 1 /\ child \in 1 .. n + 1
    BY <1>4, <1>5
  <2>3. \A j \in 1 .. 2 : SlotFits(top, j, n + 1)
    <3> TAKE j \in 1 .. 2
    <3>1. j < 2 => j = 1
      OBVIOUS
    <3> QED
      BY <1>5, <1>6, <1>7, <1>8, <2>1, <2>2, <3>1 DEF SlotFits
  <2>4. 2 <= InnerCapacity
    BY Capacities DEF CapacityAssumption
  <2>5. Ordered(records, Len(records) - 1)
    <3>1. Ordered(records, 1)
      BY DEF Ordered
    <3>2. Len(records) - 1 = 1
      BY <1>6
    <3> QED
      BY <3>1, <3>2
  <2>6. Len(top.records) = 2 /\ top.records # <<>> /\ Ordered(top.records, Len(top.records) - 1)
    BY <1>6, <1>8, <2>5
  <2> QED
    BY <1>8, <2>3, <2>4, <2>6 DEF Fits
<1>11. PagesFit(B)
  <2>1. \A p \in 1 .. n : B[p].leaf = buffer[p].leaf
    BY <1>9
  <2>2. LinkOK(B, top.right)
    BY <1>8 DEF LinkOK
  <2>3. \A p \in 1 .. Len(B) :
          \/ p \in 1 .. Len(buffer) /\ B[p] = buffer[p]
          \/ Fits(B[p], Len(B)) /\ LinkOK(B, B[p].right)
    <3> TAKE p \in 1 .. Len(B)
    <3>1. p \in 1 .. n \/ p = n + 1
      <4> HIDE DEF n
      <4>1. p \in 1 .. n + 1
        BY <1>9
      <4> QED
        BY <1>4, <4>1
    <3> QED
      BY <1>9, <1>10, <2>2, <3>1
  <2>4. Len(buffer) <= Len(B)
    BY <1>4, <1>9
  <2> QED
    BY <1>4, <1>9, <2>1, <2>3, <2>4, FitsKept
<1> HIDE DEF n
<1>12. Inv(B, n + 1, Idle)
  BY <1>3, <1>11, DownInv, IdleIs
<1>13. LeavesKept(B, buffer) /\ LinksKept(B, buffer)
  <2>1. ASSUME NEW p \in 1 .. Len(B)
        PROVE  \/ p \in 1 .. n /\ B[p] = buffer[p]
               \/ ~B[p].leaf /\ p \notin 1 .. n
    <3>1. p \in 1 .. n \/ (p = n + 1 /\ p \notin 1 .. n)
      BY <1>4, <1>9
    <3> QED
      BY <1>8, <1>9, <3>1
  <2>2. Len(B) \in Nat /\ n <= Len(B)
    BY <1>4, <1>9
  <2> QED
    BY <1>4, <2>1, <2>2, InnerOnly DEF n
<1> QED
  BY <1>1, <1>12, <1>13 DEF IInv

LEMMA StepKeeps ==
  ASSUME IInv, [Next]_vars
  PROVE  IInv'
<1>1. ASSUME NEW request \in Request, Insert(request[1], request[2]) PROVE IInv'
  BY <1>1, InsertKeeps
<1>2. CASE Descend
  BY <1>2, DescendKeeps
<1>3. CASE Overwrite
  BY <1>3, OverwriteKeeps
<1>4. CASE AddToLeaf
  BY <1>4, AddToLeafKeeps
<1>5. CASE SplitLeaf
  BY <1>5, SplitLeafKeeps
<1>6. CASE AddToInner
  BY <1>6, AddToInnerKeeps
<1>7. CASE SplitInner
  BY <1>7, SplitInnerKeeps
<1>8. CASE NewRoot
  BY <1>8, NewRootKeeps
<1>9. CASE UNCHANGED vars
  BY <1>9 DEF vars, IInv
<1> QED
  BY <1>1, <1>2, <1>3, <1>4, <1>5, <1>6, <1>7, <1>8, <1>9 DEF Next

LEMMA InvIsTypeOK == IInv => TypeOK
<1> SUFFICES ASSUME IInv PROVE TypeOK
  OBVIOUS
<1> DEFINE n == Len(buffer)
<1>1. PagesFit(buffer) /\ root_page \in 1 .. n /\ CallFits(call, n)
  BY DEF IInv, Inv
<1>2. buffer \in Seq(Page) /\ n \in Nat /\ PageId = 1 .. n
  <2>1. buffer \in Seq(Page)
    BY <1>1 DEF PagesFit
  <2> QED
    BY <2>1, LenProperties DEF PageId
<1> HIDE DEF n
<1>3. ASSUME NEW p \in PageId
      PROVE  /\ buffer[p].leaf \in BOOLEAN
             /\ Len(buffer[p].records) <= (IF buffer[p].leaf THEN LeafCapacity ELSE InnerCapacity)
             /\ buffer[p].right \in LeafIds \cup {None}
             /\ \A i \in DOMAIN buffer[p].records :
                  /\ buffer[p].records[i].key \in Key \cup {DefaultKey}
                  /\ buffer[p].records[i].value \in IF buffer[p].leaf THEN Rid ELSE PageId
  <2>1. buffer[p] \in Page /\ p \in 1 .. n
    BY <1>2, <1>3, ElementOfSeq DEF n
  <2>2. Fits(buffer[p], n) /\ LinkOK(buffer, buffer[p].right)
    BY <1>1, <2>1 DEF PagesFit, n
  <2>3. buffer[p].leaf \in BOOLEAN /\ buffer[p].records \in Seq(Entry)
    BY <2>1 DEF Page
  <2>4. DOMAIN buffer[p].records = 1 .. Len(buffer[p].records)
    BY <2>3, LenProperties
  <2>5. buffer[p].right \in LeafIds \cup {None}
    BY <1>2, <2>2 DEF LinkOK, LeafIds, n
  <2>6. ASSUME NEW i \in DOMAIN buffer[p].records
        PROVE  /\ buffer[p].records[i].key \in Key \cup {DefaultKey}
               /\ buffer[p].records[i].value \in IF buffer[p].leaf THEN Rid ELSE PageId
    <3>1. i \in 1 .. Len(buffer[p].records)
      BY <2>4, <2>6
    <3>2. buffer[p].records[i].key \in Key \cup {DefaultKey}
      BY <2>3, <3>1, KeyOfEntry
    <3>3. SlotFits(buffer[p], i, n)
      BY <2>2, <3>1 DEF Fits
    <3> QED
      BY <1>2, <3>2, <3>3 DEF SlotFits
  <2>7. Len(buffer[p].records) <= (IF buffer[p].leaf THEN LeafCapacity ELSE InnerCapacity)
    BY <2>2 DEF Fits
  <2> QED
    BY <2>3, <2>5, <2>6, <2>7
<1>4. /\ call.key \in Key \cup {DefaultKey} /\ call.rid \in Rid \cup {NoRid}
      /\ call.path \in Seq(PageId)
      /\ call.promoted = <<>> \/ call.promoted \in (Key \X PageId)
  <2>1. CASE call = Idle
    <3>1. <<>> \in Seq(PageId)
      BY EmptySeq
    <3> QED
      BY <2>1, <3>1, IdleIs
  <2>2. CASE call # Idle
    BY <1>1, <1>2, <2>2, CallIs
  <2> QED
    BY <2>1, <2>2
<1> QED
  BY <1>1, <1>2, <1>3, <1>4 DEF TypeOK

\* The pages stay as large as they may be, and links and children lead to pages,
\* whatever inserts and splits there are (btree.rs:156).
THEOREM TypeCorrect == Spec => []TypeOK
<1>1. Init => IInv
  BY FirstLeaf
<1>2. IInv /\ [Next]_vars => IInv'
  BY StepKeeps
<1>3. IInv => TypeOK
  BY InvIsTypeOK
<1> QED
  BY <1>1, <1>2, <1>3, PTL DEF Spec



-----------------------------------------------------------------------------
(***************************************************************************)
(* The map the leaves hold.                                                *)
(***************************************************************************)

EntriesOf(pages) ==
  UNION {{pages[p].records[i] : i \in DOMAIN pages[p].records} :
           p \in {p \in DOMAIN pages : pages[p].leaf}}

ValuesOf(E, k) == {e.value : e \in {f \in E : f.key = k}}

ValueOf(values) == CASE values = {} -> NoRid
                     [] Cardinality(values) = 1 -> CHOOSE v \in values : TRUE
                     [] OTHER -> values

ContentOf(E) == [k \in Key |-> ValueOf(ValuesOf(E, k))]

LEMMA EntriesAre ==
  ASSUME NEW pages \in Seq(Page)
  PROVE  \A e : e \in EntriesOf(pages) <=> HasLeaf(pages, e)
<1>1. DOMAIN pages = 1 .. Len(pages)
  BY LenProperties
<1>2. \A p \in 1 .. Len(pages) : DOMAIN pages[p].records = 1 .. Len(pages[p].records)
  <2> TAKE p \in 1 .. Len(pages)
  <2>1. pages[p] \in Page
    BY ElementOfSeq
  <2> QED
    BY <2>1, LenProperties DEF Page
<1> TAKE e
<1>3. ASSUME e \in EntriesOf(pages) PROVE HasLeaf(pages, e)
  <2>1. PICK p \in DOMAIN pages : pages[p].leaf /\ \E i \in DOMAIN pages[p].records : e = pages[p].records[i]
    BY <1>3, Zenon DEF EntriesOf
  <2> QED
    BY <1>1, <1>2, <2>1 DEF HasLeaf, Has
<1>4. ASSUME HasLeaf(pages, e) PROVE e \in EntriesOf(pages)
  <2>1. PICK p \in 1 .. Len(pages) : pages[p].leaf /\ Has(pages[p].records, e)
    BY <1>4 DEF HasLeaf
  <2>2. PICK i \in 1 .. Len(pages[p].records) : pages[p].records[i] = e
    BY <2>1 DEF Has
  <2>3. p \in DOMAIN pages /\ i \in DOMAIN pages[p].records
    BY <1>1, <1>2, <2>1, <2>2
  <2>4. p \in {r \in DOMAIN pages : pages[r].leaf}
    BY <2>1, <2>3
  <2>5. e \in {pages[p].records[j] : j \in DOMAIN pages[p].records}
    BY <2>2, <2>3
  <2> QED
    BY <2>4, <2>5, Zenon DEF EntriesOf
<1> QED
  BY <1>3, <1>4

MapPut(new, old, key, rid) == new = [old EXCEPT ![key] = rid]

EntriesPut(F, E, key, rid) ==
  \A e : e \in F <=> e = Record(key, rid) \/ (e \in E /\ e.key # key)

\* An insert gives one key a value and leaves every other key as it is.
LEMMA ContentPut ==
  ASSUME NEW E, NEW F, NEW key \in Key, NEW rid, EntriesPut(F, E, key, rid)
  PROVE  MapPut(ContentOf(F), ContentOf(E), key, rid)
<1>1. Record(key, rid).key = key /\ Record(key, rid).value = rid
  BY RecordIs
<1>2. ValueOf(ValuesOf(F, key)) = rid
  <2>1. \A f : f \in {e \in F : e.key = key} <=> f = Record(key, rid)
    BY <1>1 DEF EntriesPut
  <2>2. ValuesOf(F, key) = {rid}
    <3>1. \A v : v \in ValuesOf(F, key) <=> \E e \in {f \in F : f.key = key} : v = e.value
      BY Zenon DEF ValuesOf
    <3>2. ASSUME NEW v \in ValuesOf(F, key) PROVE v = rid
      <4>1. PICK e \in {f \in F : f.key = key} : v = e.value
        BY <3>1, <3>2, Zenon
      <4>2. e = Record(key, rid)
        BY <2>1, <4>1
      <4> QED
        BY <1>1, <4>1, <4>2
    <3>3. rid \in ValuesOf(F, key)
      <4>1. Record(key, rid) \in {f \in F : f.key = key}
        BY <2>1
      <4> HIDE DEF ValuesOf
      <4> QED
        BY <1>1, <3>1, <4>1, Zenon
    <3> QED
      BY <3>2, <3>3
  <2>3. Cardinality({rid}) = 1 /\ {rid} # {}
    BY FS_Singleton
  <2>4. (CHOOSE v \in {rid} : TRUE) = rid
    OBVIOUS
  <2>5. ValueOf({rid}) = rid
    BY <2>3, <2>4 DEF ValueOf
  <2> QED
    BY <2>2, <2>5
<1>3. ASSUME NEW k \in Key, k # key PROVE ValuesOf(F, k) = ValuesOf(E, k)
  <2>1. {f \in F : f.key = k} = {f \in E : f.key = k}
    BY <1>1, <1>3 DEF EntriesPut
  <2> QED
    BY <2>1 DEF ValuesOf
<1>4. \A k \in Key : ContentOf(F)[k] = IF k = key THEN rid ELSE ContentOf(E)[k]
  BY <1>2, <1>3 DEF ContentOf
<1>5. DOMAIN ContentOf(F) = Key /\ DOMAIN ContentOf(E) = Key
  BY DEF ContentOf
<1>6. ContentOf(F) = [k \in Key |-> ContentOf(F)[k]] /\ ContentOf(E) = [k \in Key |-> ContentOf(E)[k]]
  BY DEF ContentOf
<1> HIDE DEF ContentOf
<1> QED
  BY <1>4, <1>5, <1>6 DEF MapPut

LEMMA ContentIs == Content = ContentOf(EntriesOf(buffer))
BY DEF Content, ContentOf, ValueOf, ValuesOf, Entries, EntriesOf, LeafIds, PageId

LEMMA ContentIsAfter == Content' = ContentOf(EntriesOf(buffer'))
BY DEF Content, ContentOf, ValueOf, ValuesOf, Entries, EntriesOf, LeafIds, PageId

LEMMA ContentStep ==
  ASSUME buffer \in Seq(Page), buffer' \in Seq(Page), call.key \in Key,
         LeafPut(buffer', buffer, call.key, call.rid)
  PROVE  Content' = [Content EXCEPT ![call.key] = call.rid]
<1> DEFINE E == EntriesOf(buffer)
           F == EntriesOf(buffer')
<1>1. \A e : e \in E <=> HasLeaf(buffer, e)
  BY EntriesAre
<1>2. \A e : e \in F <=> HasLeaf(buffer', e)
  BY EntriesAre
<1> HIDE DEF E, F
<1>3. EntriesPut(F, E, call.key, call.rid)
  BY <1>1, <1>2 DEF LeafPut, EntriesPut
<1>4. MapPut(ContentOf(F), ContentOf(E), call.key, call.rid)
  BY <1>3, ContentPut
<1> QED
  BY <1>4, ContentIs, ContentIsAfter DEF E, F, MapPut

LEMMA ContentKept ==
  ASSUME buffer \in Seq(Page), buffer' \in Seq(Page), LeavesKept(buffer', buffer)
  PROVE  Content' = Content
<1> DEFINE E == EntriesOf(buffer)
           F == EntriesOf(buffer')
<1>1. \A e : e \in E <=> HasLeaf(buffer, e)
  BY EntriesAre
<1>2. \A e : e \in F <=> HasLeaf(buffer', e)
  BY EntriesAre
<1> HIDE DEF E, F
<1>3. E = F
  BY <1>1, <1>2 DEF LeavesKept
<1> QED
  BY <1>3, ContentIs, ContentIsAfter DEF E, F

LEMMA MapInit == Init => Map!Init
<1> SUFFICES ASSUME Init PROVE Map!Init
  OBVIOUS
<1>1. buffer = <<Leaf(<<>>, None)>>
  BY DEF Init
<1>2. EntriesOf(buffer) = {}
  <2>1. Leaf(<<>>, None).records = <<>>
    BY DEF Leaf
  <2>2. DOMAIN buffer = {1} /\ buffer[1] = Leaf(<<>>, None) /\ DOMAIN <<>> = {}
    BY <1>1
  <2>3. \A p \in DOMAIN buffer : DOMAIN buffer[p].records = {}
    BY <2>1, <2>2
  <2> QED
    BY <2>3, Zenon DEF EntriesOf
<1>3. \A k \in Key : ValueOf(ValuesOf({}, k)) = NoRid
  BY DEF ValueOf, ValuesOf
<1>4. Content = [k \in Key |-> NoRid]
  BY <1>2, <1>3, ContentIs DEF ContentOf
<1> QED
  BY <1>4 DEF Map!Init

LEMMA MapStep ==
  ASSUME IInv, [Next]_vars
  PROVE  [Map!Next]_Content
<1>1. IInv'
  BY StepKeeps
<1>2. buffer \in Seq(Page) /\ buffer' \in Seq(Page)
  BY <1>1 DEF IInv, Inv, PagesFit
<1>3. ASSUME LeafPut(buffer', buffer, call.key, call.rid), call.key \in Key, call.rid \in Rid
      PROVE  Map!Next
  <2>1. Content' = [Content EXCEPT ![call.key] = call.rid]
    BY <1>2, <1>3, ContentStep
  <2>2. Map!Insert(call.key, call.rid)
    BY <2>1 DEF Map!Insert
  <2> QED
    BY <1>3, <2>2 DEF Map!Next
<1>4. ASSUME LeavesKept(buffer', buffer) PROVE Content' = Content
  BY <1>2, <1>4, ContentKept
<1>5. ASSUME buffer' = buffer PROVE Content' = Content
  BY <1>4, <1>5 DEF LeavesKept
<1>6. ASSUME GoingDown, buffer[Current].leaf PROVE call.key \in Key /\ call.rid \in Rid
  BY <1>6, AtLeaf
<1>7. CASE Overwrite
  <2>1. GoingDown /\ buffer[Current].leaf
    BY <1>7 DEF Overwrite
  <2> QED
    BY <1>3, <1>6, <1>7, <2>1, OverwriteKeeps
<1>8. CASE AddToLeaf
  <2>1. GoingDown /\ buffer[Current].leaf
    BY <1>8 DEF AddToLeaf
  <2> QED
    BY <1>3, <1>6, <1>8, <2>1, AddToLeafKeeps
<1>9. CASE SplitLeaf
  <2>1. GoingDown /\ buffer[Current].leaf
    BY <1>9 DEF SplitLeaf
  <2> QED
    BY <1>3, <1>6, <1>9, <2>1, SplitLeafKeeps
<1>10. CASE AddToInner
  BY <1>4, <1>10, AddToInnerKeeps
<1>11. CASE SplitInner
  BY <1>4, <1>11, SplitInnerKeeps
<1>12. CASE NewRoot
  BY <1>4, <1>12, NewRootKeeps
<1>13. CASE buffer' = buffer
  BY <1>5, <1>13
<1>14. ASSUME NEW request \in Request, Insert(request[1], request[2]) PROVE buffer' = buffer
  BY <1>14 DEF Insert
<1>15. Descend \/ UNCHANGED vars => buffer' = buffer
  BY DEF Descend, vars
<1> QED
  BY <1>7, <1>8, <1>9, <1>10, <1>11, <1>12, <1>13, <1>14, <1>15 DEF Next

\* The leaves implement a map: an insert gives one key its record, and no split
\* of a leaf, an inner page or the root loses, changes or adds another record
\* (btree.rs:156).
THEOREM TreeIsMap == Spec => Implements
<1>1. Init => Map!Init
  BY MapInit
<1>2. Init => IInv
  BY FirstLeaf
<1>3. IInv /\ [Next]_vars => IInv'
  BY StepKeeps
<1>4. IInv /\ [Next]_vars => [Map!Next]_Content
  BY MapStep
<1> QED
  BY <1>1, <1>2, <1>3, <1>4, PTL DEF Spec, Implements, Map!Spec


-----------------------------------------------------------------------------
(***************************************************************************)
(* Lookups.                                                                *)
(***************************************************************************)

\* The page that comes after page p on the way of a key.
Turn(pages, p, key) == pages[p].records[Child(pages[p].records, key)].value

Walk(pages, key, f) == [p \in DOMAIN pages |-> IF pages[p].leaf THEN p ELSE f[Turn(pages, p, key)]]

LEMMA LookupIsWalk ==
  ASSUME NEW key
  PROVE  LookupLeaf(key) = (CHOOSE f : f = Walk(buffer, key, f))[root_page]
BY DEF LookupLeaf, Walk, Turn, PageId

LEMMA TurnIs ==
  ASSUME NEW pages, NEW root, NEW sc, NEW ht, Tree(pages, root, sc, ht),
         NEW p \in 1 .. Len(pages), ~pages[p].leaf, NEW key \in Int
  PROVE  /\ Turn(pages, p, key) \in 1 .. Len(pages)
         /\ ht[Turn(pages, p, key)] + 1 = ht[p]
         /\ key \in sc[p] => key \in sc[Turn(pages, p, key)]
<1> DEFINE records == pages[p].records
           i == Child(records, key)
<1>1. NodeOK(pages[p], sc[p]) /\ KidsOK(pages, sc, ht, p)
  BY DEF Tree, PageOK
<1>2. records \in Seq(Entry) /\ records # <<>> /\ Ordered(records, Len(records) - 1)
  BY <1>1, TreeType DEF NodeOK, NumKeys
<1>3. i \in 1 .. Len(records)
  <2> HIDE DEF records
  <2> QED
    BY <1>2, ChildIs
<1>4. KidOK(pages, sc, ht, p, i)
  BY <1>1, <1>3 DEF KidsOK
<1>5. /\ Turn(pages, p, key) \in DOMAIN pages /\ ht[Turn(pages, p, key)] + 1 = ht[p]
      /\ sc[Turn(pages, p, key)] = Region(records, sc[p], i)
  BY <1>4 DEF KidOK, Turn
<1>6. DOMAIN pages = 1 .. Len(pages)
  BY TreeType
<1>7. ASSUME key \in sc[p] PROVE key \in Region(records, sc[p], i)
  BY <1>7 DEF Region
<1> QED
  BY <1>5, <1>6, <1>7

\* f leads from the pages up to height h to the leaf of the key.
Leads(pages, ht, key, f, h) ==
  \A p \in 1 .. Len(pages) :
    ht[p] <= h => f[p] = IF pages[p].leaf THEN p ELSE f[Turn(pages, p, key)]

LEMMA LeadsUp ==
  ASSUME NEW pages, NEW root, NEW sc, NEW ht, Tree(pages, root, sc, ht), NEW key \in Int,
         NEW h \in Nat, NEW f, Leads(pages, ht, key, f, h)
  PROVE  \E g : Leads(pages, ht, key, g, h + 1)
<1> DEFINE n == Len(pages)
           g == [p \in 1 .. n |-> IF ht[p] <= h THEN f[p]
                                  ELSE IF pages[p].leaf THEN p ELSE f[Turn(pages, p, key)]]
<1>1. \A p \in 1 .. n : ht[p] \in Nat
  BY TreeType
<1>2. ASSUME NEW p \in 1 .. n, ht[p] <= h + 1
      PROVE  g[p] = IF pages[p].leaf THEN p ELSE g[Turn(pages, p, key)]
  <2>1. CASE pages[p].leaf
    BY <2>1 DEF Leads
  <2>2. CASE ~pages[p].leaf
    <3> DEFINE t == Turn(pages, p, key)
    <3>1. t \in 1 .. n /\ ht[t] + 1 = ht[p]
      BY <2>2, TurnIs
    <3>2. ht[t] <= h
      BY <1>1, <1>2, <3>1
    <3>3. g[t] = f[t]
      BY <3>1, <3>2
    <3>4. g[p] = f[t]
      <4>1. ht[p] <= h => f[p] = f[t]
        BY <2>2 DEF Leads
      <4> QED
        BY <2>2, <4>1
    <3> QED
      BY <2>2, <3>3, <3>4
  <2> QED
    BY <2>1, <2>2
<1> HIDE DEF g
<1>3. Leads(pages, ht, key, g, h + 1)
  BY <1>2 DEF Leads, n
<1> QED
  BY <1>3

LEMMA LeadsAll ==
  ASSUME NEW pages, NEW root, NEW sc, NEW ht, Tree(pages, root, sc, ht), NEW key \in Int
  PROVE  \A h \in Nat : \E f : Leads(pages, ht, key, f, h)
<1> DEFINE Stuck == {h \in Nat : ~ \E f : Leads(pages, ht, key, f, h)}
<1>1. \E f : Leads(pages, ht, key, f, 0)
  <2> DEFINE g == [p \in 1 .. Len(pages) |-> p]
  <2>1. ASSUME NEW p \in 1 .. Len(pages), ht[p] <= 0 PROVE g[p] = p /\ pages[p].leaf
    <3>1. ht[p] \in Nat /\ PageOK(pages, root, sc, ht, p)
      BY TreeType DEF Tree
    <3>2. ht[p] = 0
      BY <2>1, <3>1
    <3> QED
      BY <3>1, <3>2 DEF PageOK
  <2> HIDE DEF g
  <2>2. Leads(pages, ht, key, g, 0)
    BY <2>1 DEF Leads
  <2> QED
    BY <2>2
<1> SUFFICES ASSUME Stuck # {} PROVE FALSE
  OBVIOUS
<1>2. PICK k \in Stuck : \A j \in Stuck : k <= j
  <2>1. Stuck \in SUBSET Nat
    OBVIOUS
  <2> HIDE DEF Stuck
  <2> QED
    BY <2>1, LeastNumber
<1>3. k # 0
  BY <1>1, <1>2
<1>4. k - 1 \in Nat /\ k - 1 \notin Stuck
  <2>1. k \in Nat
    BY <1>2
  <2>2. k - 1 \in Nat /\ ~(k <= k - 1)
    BY <1>3, <2>1
  <2> HIDE DEF Stuck
  <2> QED
    BY <1>2, <2>2
<1>5. PICK f : Leads(pages, ht, key, f, k - 1)
  BY <1>4
<1>6. \E g : Leads(pages, ht, key, g, (k - 1) + 1)
  BY <1>4, <1>5, LeadsUp
<1>7. (k - 1) + 1 = k
  BY <1>2
<1> QED
  BY <1>2, <1>6, <1>7

\* The way of a key from any page that has it in its scope ends in a leaf that has.
LEMMA WalkEnds ==
  ASSUME NEW pages, NEW root, NEW sc, NEW ht, Tree(pages, root, sc, ht), NEW key \in Int,
         NEW f, f = Walk(pages, key, f)
  PROVE  \A p \in 1 .. Len(pages) :
           key \in sc[p] => f[p] \in 1 .. Len(pages) /\ pages[f[p]].leaf /\ key \in sc[f[p]]
<1> DEFINE n == Len(pages)
           Ends(p) == f[p] \in 1 .. n /\ pages[f[p]].leaf /\ key \in sc[f[p]]
           Lost == {p \in 1 .. n : key \in sc[p] /\ ~Ends(p)}
           Heights == {ht[p] : p \in Lost}
<1> SUFFICES ASSUME Lost # {} PROVE FALSE
  OBVIOUS
<1>1. \A p \in 1 .. n : f[p] = IF pages[p].leaf THEN p ELSE f[Turn(pages, p, key)]
  <2>1. DOMAIN pages = 1 .. n
    BY TreeType
  <2> QED
    BY <2>1 DEF Walk
<1>2. \A p \in 1 .. n : ht[p] \in Nat
  BY TreeType
<1>3. PICK p \in Lost : \A q \in Lost : ht[p] <= ht[q]
  <2>1. Lost \subseteq 1 .. n
    OBVIOUS
  <2> HIDE DEF Lost
  <2>2. Heights \in SUBSET Nat /\ Heights # {}
    BY <1>2, <2>1
  <2>3. PICK h \in Heights : \A j \in Heights : h <= j
    <3> HIDE DEF Heights
    <3> QED
      BY <2>2, LeastNumber
  <2> QED
    BY <2>3
<1>4. p \in 1 .. n /\ key \in sc[p] /\ ~Ends(p)
  BY <1>3
<1>5. CASE pages[p].leaf
  BY <1>1, <1>4, <1>5
<1>6. CASE ~pages[p].leaf
  <2> DEFINE t == Turn(pages, p, key)
  <2>1. t \in 1 .. n /\ ht[t] + 1 = ht[p] /\ key \in sc[t]
    <3> HIDE DEF Ends, Lost, Heights
    <3>1. p \in 1 .. Len(pages) /\ key \in sc[p]
      BY <1>4
    <3> QED
      BY <1>6, <3>1, TurnIs
  <2>2. f[p] = f[t]
    BY <1>1, <1>4, <1>6
  <2> HIDE DEF t
  <2>3. ~Ends(t)
    BY <1>4, <2>2
  <2>4. t \in Lost
    BY <2>1, <2>3
  <2>5. ht[p] <= ht[t]
    <3> HIDE DEF Lost
    <3> QED
      BY <1>3, <2>4
  <2> QED
    BY <1>2, <1>4, <2>1, <2>5
<1> QED
  BY <1>5, <1>6

\* A lookup goes to the leaf that is responsible for its key.
LEMMA LookupLeafIs ==
  ASSUME NEW sc, NEW ht, Tree(buffer, root_page, sc, ht), NEW key \in Int
  PROVE  /\ LookupLeaf(key) \in 1 .. Len(buffer)
         /\ buffer[LookupLeaf(key)].leaf /\ key \in sc[LookupLeaf(key)]
<1>1. root_page \in 1 .. Len(buffer) /\ key \in sc[root_page]
  BY DEF Tree
<1>2. \E f : f = Walk(buffer, key, f)
  <2>1. ht[root_page] \in Nat
    BY <1>1, TreeType
  <2>2. PICK f : Leads(buffer, ht, key, f, ht[root_page])
    BY <2>1, LeadsAll
  <2>3. DOMAIN buffer = 1 .. Len(buffer)
    BY TreeType
  <2> DEFINE g == [p \in 1 .. Len(buffer) |-> f[p]]
  <2>4. ASSUME NEW p \in 1 .. Len(buffer)
        PROVE  g[p] = IF buffer[p].leaf THEN p ELSE g[Turn(buffer, p, key)]
    <3>1. ht[p] <= ht[root_page]
      BY DEF Tree, PageOK
    <3>2. f[p] = IF buffer[p].leaf THEN p ELSE f[Turn(buffer, p, key)]
      BY <2>2, <3>1 DEF Leads
    <3>3. ~buffer[p].leaf => Turn(buffer, p, key) \in 1 .. Len(buffer)
      BY TurnIs
    <3> QED
      BY <3>2, <3>3
  <2>5. g = [p \in 1 .. Len(buffer) |-> g[p]]
    OBVIOUS
  <2> HIDE DEF g
  <2>6. g = Walk(buffer, key, g)
    BY <2>3, <2>4, <2>5 DEF Walk
  <2> QED
    BY <2>6
<1> DEFINE way == CHOOSE f : f = Walk(buffer, key, f)
<1>3. way = Walk(buffer, key, way)
  BY <1>2
<1> HIDE DEF way
<1>4. way[root_page] \in 1 .. Len(buffer) /\ buffer[way[root_page]].leaf /\ key \in sc[way[root_page]]
  BY <1>1, <1>3, WalkEnds
<1>5. LookupLeaf(key) = way[root_page]
  BY LookupIsWalk DEF way
<1> QED
  BY <1>4, <1>5

LEMMA LookupsFind ==
  ASSUME IInv, call = Idle, NEW k \in Key
  PROVE  IF \E e \in Entries : e.key = k THEN Record(k, Lookup(k)) \in Entries
                                         ELSE Lookup(k) = NoRid
<1> DEFINE l == LookupLeaf(k)
           records == buffer[l].records
<1>1. PICK sc, ht : PagesFit(buffer) /\ Tree(buffer, root_page, sc, ht)
  BY IdleIs, DownIs DEF IInv
<1>2. k \in Int
  BY KeysAreNumbers
<1>3. l \in 1 .. Len(buffer) /\ buffer[l].leaf /\ k \in sc[l]
  BY <1>1, <1>2, LookupLeafIs
<1> HIDE DEF l
<1>4. PageOK(buffer, root_page, sc, ht, l) /\ buffer[l] \in Page /\ sc[l] \in SUBSET Int
  BY <1>1, <1>3, TreeType DEF Tree
<1>5. NodeOK(buffer[l], sc[l]) /\ ht[l] = 0
  BY <1>3, <1>4 DEF PageOK
<1>6. /\ records \in Seq(Entry) /\ Len(records) \in Nat /\ DOMAIN records = 1 .. Len(records)
      /\ Found(records, k) => /\ Slot(records, k) \in 1 .. Len(records)
                              /\ records[Slot(records, k)].key = k
  BY <1>2, <1>3, <1>4, <1>5, LeafSlot
<1>7. Lookup(k) = IF Found(records, k) THEN records[Slot(records, k)].value ELSE NoRid
  BY DEF Lookup, l
<1>8. \A e : e \in Entries <=> HasLeaf(buffer, e)
  <2>1. buffer \in Seq(Page)
    BY <1>1 DEF PagesFit
  <2>2. Entries = EntriesOf(buffer)
    BY DEF Entries, EntriesOf, LeafIds, PageId
  <2> QED
    BY <2>1, <2>2, EntriesAre
<1>9. ASSUME Found(records, k)
      PROVE  Record(k, Lookup(k)) \in Entries /\ \E e \in Entries : e.key = k
  <2> DEFINE i == Slot(records, k)
  <2>1. i \in 1 .. Len(records) /\ records[i].key = k /\ Lookup(k) = records[i].value
    BY <1>6, <1>7, <1>9
  <2> HIDE DEF i
  <2>2. records[i] \in Entry
    BY <1>6, <2>1, ElementOfSeq
  <2>3. records[i] = Record(records[i].key, records[i].value)
    BY <2>2 DEF Entry, Record
  <2>4. HasLeaf(buffer, records[i])
    BY <1>3, <2>1 DEF HasLeaf, Has
  <2> QED
    BY <1>8, <2>1, <2>3, <2>4
<1>10. ASSUME NEW e \in Entries, e.key = k
       PROVE  Found(records, k)
  <2>1. PICK p \in 1 .. Len(buffer) : buffer[p].leaf /\ Has(buffer[p].records, e)
    BY <1>8, <1>10 DEF HasLeaf
  <2>2. PICK i \in 1 .. Len(buffer[p].records) : buffer[p].records[i] = e
    BY <2>1 DEF Has
  <2>3. PageOK(buffer, root_page, sc, ht, p)
    BY <1>1 DEF Tree
  <2>4. k \in sc[p] /\ ht[p] = 0
    BY <1>10, <2>1, <2>2, <2>3 DEF PageOK, NodeOK, NumKeys
  <2>5. p = l
    BY <1>1, <1>3, <1>5, <2>4, OnePage
  <2> QED
    BY <1>6, <1>10, <2>2, <2>5 DEF Found
<1>11. CASE Found(records, k)
  BY <1>9, <1>11
<1>12. CASE ~Found(records, k)
  BY <1>7, <1>10, <1>12
<1> QED
  BY <1>11, <1>12

\* Between inserts the way from the root leads to the record of every key, and
\* to none for a key that was not inserted (btree.rs:43).
THEOREM LookupsExact == Spec => []LookupExact
<1>1. Init => IInv
  BY FirstLeaf
<1>2. IInv /\ [Next]_vars => IInv'
  BY StepKeeps
<1>3. IInv => LookupExact
  BY LookupsFind DEF LookupExact
<1> QED
  BY <1>1, <1>2, <1>3, PTL DEF Spec

-----------------------------------------------------------------------------
(***************************************************************************)
(* The order of the leaves.  The scopes of the leaves are intervals, one   *)
(* beside the other, so the keys of a leaf are all below those of another  *)
(* or all above them.                                                      *)
(***************************************************************************)

Convex(S) == \A x, y \in S : \A z \in Int : x <= z /\ z <= y => z \in S

LEMMA ChildRises ==
  ASSUME NEW records \in Seq(Entry), records # <<>>, Ordered(records, Len(records) - 1),
         NEW x \in Int, NEW y \in Int, x <= y
  PROVE  Child(records, x) <= Child(records, y)
<1> DEFINE i == Child(records, x)
           j == Child(records, y)
<1>1. /\ i \in 1 .. Len(records) /\ j \in 1 .. Len(records) /\ Len(records) \in Nat
      /\ \A l \in 1 .. Len(records) - 1 : /\ records[l].key <= x <=> l < i
                                          /\ records[l].key <= y <=> l < j
  BY ChildIs, LenProperties
<1> HIDE DEF i, j
<1>2. SUFFICES ASSUME j < i PROVE FALSE
  BY <1>1 DEF i, j
<1>3. j \in 1 .. Len(records) - 1
  BY <1>1, <1>2
<1>4. records[j].key \in Int
  BY <1>1, KeyOfEntry
<1>5. records[j].key <= x /\ ~(records[j].key <= y)
  BY <1>1, <1>2, <1>3
<1> QED
  BY <1>4, <1>5

LEMMA RegionConvex ==
  ASSUME NEW records \in Seq(Entry), records # <<>>, Ordered(records, Len(records) - 1),
         NEW S \in SUBSET Int, Convex(S), NEW i
  PROVE  Convex(Region(records, S, i))
<1> SUFFICES ASSUME NEW x \in Region(records, S, i), NEW y \in Region(records, S, i),
                    NEW z \in Int, x <= z, z <= y
             PROVE  z \in Region(records, S, i)
  BY DEF Convex
<1>1. x \in S /\ y \in S /\ x \in Int /\ y \in Int /\ Child(records, x) = i /\ Child(records, y) = i
  BY DEF Region
<1>2. z \in S
  BY <1>1 DEF Convex
<1>3. Child(records, x) <= Child(records, z) /\ Child(records, z) <= Child(records, y)
  BY <1>1, ChildRises
<1>4. Child(records, x) \in Int /\ Child(records, z) \in Int
  BY <1>1, ChildIs
<1>5. Child(records, z) = i
  BY <1>1, <1>3, <1>4
<1> QED
  BY <1>2, <1>5 DEF Region

\* At every height up to the root's, some page has a key in its scope.
HasAt(B, sc, ht, k, h) == \E p \in 1 .. Len(B) : ht[p] = h /\ k \in sc[p]

LEMMA PageAbove ==
  ASSUME NEW B, NEW root, NEW sc, NEW ht, Tree(B, root, sc, ht), NEW k \in Int,
         NEW h \in 0 .. ht[root]
  PROVE  HasAt(B, sc, ht, k, h)
<1> DEFINE Bad == {d \in 0 .. ht[root] : ~\E p \in 1 .. Len(B) : ht[p] = ht[root] - d /\ k \in sc[p]}
<1>1. root \in 1 .. Len(B) /\ sc[root] = Int /\ ht[root] \in Nat
  BY DEF Tree
<1>2. Bad = {}
  <2> SUFFICES ASSUME Bad # {} PROVE FALSE
    OBVIOUS
  <2>1. Bad \in SUBSET Nat
    BY <1>1
  <2>2. PICK d \in Bad : \A e \in Bad : d <= e
    BY <2>1, LeastNumber
  <2>3. d \in 0 .. ht[root]
    OBVIOUS
  <2>4. d # 0
    BY <1>1
  <2>5. d - 1 \in 0 .. ht[root] /\ d - 1 \notin Bad
    BY <1>1, <2>2, <2>3, <2>4
  <2>6. PICK p \in 1 .. Len(B) : ht[p] = ht[root] - (d - 1) /\ k \in sc[p]
    BY <2>5
  <2>7. ~B[p].leaf
    <3>1. ht[p] # 0
      BY <1>1, <2>3, <2>6
    <3> QED
      BY <3>1 DEF Tree, PageOK
  <2>8. /\ Turn(B, p, k) \in 1 .. Len(B) /\ ht[Turn(B, p, k)] + 1 = ht[p]
        /\ k \in sc[Turn(B, p, k)]
    <3> HIDE DEF Bad
    <3>1. k \in sc[p]
      BY <2>6
    <3> QED
      BY <2>7, <3>1, TurnIs
  <2>9. ht[Turn(B, p, k)] \in Nat
    BY <2>8 DEF Tree
  <2>10. ht[Turn(B, p, k)] = ht[root] - d
    <3> HIDE DEF Bad
    <3> QED
      BY <1>1, <2>3, <2>6, <2>8, <2>9
  <2> QED
    BY <2>8, <2>10
<1>3. ht[root] - h \in 0 .. ht[root] /\ ht[root] - (ht[root] - h) = h
  BY <1>1
<1> QED
  BY <1>2, <1>3 DEF HasAt

\* The scope of a page that has one and is not the root is that of a child.
LEMMA ScopeOfChild ==
  ASSUME NEW B, NEW root, NEW sc, NEW ht, Tree(B, root, sc, ht),
         NEW p \in 1 .. Len(B), ht[p] < ht[root], NEW k \in sc[p]
  PROVE  \E q \in 1 .. Len(B) : /\ ~B[q].leaf /\ ht[q] = ht[p] + 1
                                /\ \E i : sc[p] = Region(B[q].records, sc[q], i)
<1>1. ht[p] \in Nat /\ ht[root] \in Nat /\ k \in Int
  BY DEF Tree
<1>2. PICK q \in 1 .. Len(B) : ht[q] = ht[p] + 1 /\ k \in sc[q]
  <2>1. ht[p] + 1 \in Nat /\ ht[p] + 1 <= ht[root]
    BY <1>1
  <2>2. k \in Int
    BY <1>1
  <2>3. ht[p] + 1 \in 0 .. ht[root]
    BY <1>1, <2>1
  <2>4. HasAt(B, sc, ht, k, ht[p] + 1)
    BY <2>2, <2>3, PageAbove
  <2> QED
    BY <2>4 DEF HasAt
<1>3. ~B[q].leaf
  <2>1. ht[q] # 0
    BY <1>1, <1>2
  <2> QED
    BY <2>1 DEF Tree, PageOK
<1>4. /\ Turn(B, q, k) \in 1 .. Len(B) /\ ht[Turn(B, q, k)] + 1 = ht[q]
      /\ k \in sc[Turn(B, q, k)]
  <2>1. k \in Int /\ k \in sc[q]
    BY <1>1, <1>2
  <2> QED
    BY <1>3, <2>1, TurnIs
<1>5. ht[Turn(B, q, k)] = ht[p]
  <2>1. ht[Turn(B, q, k)] \in Nat
    BY <1>4 DEF Tree
  <2> QED
    BY <1>1, <1>2, <1>4, <2>1
<1>6. Turn(B, q, k) = p
  BY <1>4, <1>5, OnePage
<1> DEFINE i == Child(B[q].records, k)
<1>7. i \in 1 .. Len(B[q].records)
  <2>1. NodeOK(B[q], sc[q]) /\ B[q].records \in Seq(Entry)
    BY TreeType DEF Tree, PageOK
  <2>2. B[q].records # <<>> /\ Ordered(B[q].records, Len(B[q].records) - 1)
    BY <1>3, <2>1 DEF NodeOK, NumKeys
  <2> QED
    BY <1>1, <2>1, <2>2, ChildIs
<1>8. KidOK(B, sc, ht, q, i)
  <2> HIDE DEF i
  <2> QED
    BY <1>3, <1>7 DEF Tree, PageOK, KidsOK
<1>9. sc[p] = Region(B[q].records, sc[q], i)
  BY <1>6, <1>8 DEF KidOK, Turn
<1> QED
  BY <1>2, <1>3, <1>9

LEMMA ScopesConvex ==
  ASSUME NEW B, NEW root, NEW sc, NEW ht, Tree(B, root, sc, ht)
  PROVE  \A p \in 1 .. Len(B) : Convex(sc[p])
<1> DEFINE Bad == {d \in 0 .. ht[root] : \E p \in 1 .. Len(B) : ht[p] = ht[root] - d /\ ~Convex(sc[p])}
<1>1. /\ root \in 1 .. Len(B) /\ sc[root] = Int /\ ht[root] \in Nat
      /\ \A p \in 1 .. Len(B) : ht[p] \in Nat /\ ht[p] <= ht[root] /\ sc[p] \in SUBSET Int
  BY DEF Tree, PageOK
<1>2. Bad = {}
  <2> SUFFICES ASSUME Bad # {} PROVE FALSE
    OBVIOUS
  <2>1. Bad \in SUBSET Nat
    BY <1>1
  <2>2. PICK d \in Bad : \A e \in Bad : d <= e
    BY <2>1, LeastNumber
  <2>3. PICK p \in 1 .. Len(B) : ht[p] = ht[root] - d /\ ~Convex(sc[p])
    BY <2>2
  <2>4. d \in 0 .. ht[root]
    OBVIOUS
  <2>5. PICK k \in sc[p] : TRUE
    BY <2>3 DEF Convex
  <2>6. ht[p] < ht[root]
    <3> SUFFICES ASSUME ht[p] = ht[root] PROVE FALSE
      BY <1>1
    <3>1. k \in sc[root]
      BY <1>1, <2>5
    <3>2. p = root
      BY <1>1, <2>5, <3>1, OnePage
    <3> QED
      BY <1>1, <2>3, <3>2 DEF Convex
  <2>7. PICK q \in 1 .. Len(B) : /\ ~B[q].leaf /\ ht[q] = ht[p] + 1
                                 /\ \E i : sc[p] = Region(B[q].records, sc[q], i)
    <3> HIDE DEF Bad
    <3> QED
      BY <2>6, ScopeOfChild
  <2>8. PICK i : sc[p] = Region(B[q].records, sc[q], i)
    BY <2>7
  <2>9. Convex(sc[q])
    <3> SUFFICES ASSUME ~Convex(sc[q]) PROVE FALSE
      OBVIOUS
    <3>1. d - 1 \in 0 .. ht[root] /\ ht[q] = ht[root] - (d - 1) /\ ~(d <= d - 1)
      <4>1. /\ ht[root] \in Nat /\ d \in 0 .. ht[root]
            /\ ht[p] = ht[root] - d /\ ht[p] < ht[root] /\ ht[q] = ht[p] + 1
        BY <1>1, <2>3, <2>4, <2>6, <2>7
      <4> HIDE DEF Bad
      <4> QED
        BY <4>1
    <3>2. d - 1 \in Bad
      BY <3>1
    <3> QED
      BY <2>2, <3>1, <3>2
  <2>10. B[q].records \in Seq(Entry) /\ NodeOK(B[q], sc[q])
    BY TreeType DEF Tree, PageOK
  <2>11. B[q].records # <<>> /\ Ordered(B[q].records, Len(B[q].records) - 1)
    BY <2>7, <2>10 DEF NodeOK, NumKeys
  <2> QED
    BY <1>1, <2>3, <2>8, <2>9, <2>10, <2>11, RegionConvex
<1>3. ASSUME NEW p \in 1 .. Len(B) PROVE Convex(sc[p])
  <2>1. ht[root] - ht[p] \in 0 .. ht[root] /\ ht[p] = ht[root] - (ht[root] - ht[p])
    BY <1>1
  <2> QED
    BY <1>2, <2>1
<1> QED
  BY <1>3

LEMMA LeafKeys ==
  ASSUME NEW B, NEW root, NEW sc, NEW ht, Tree(B, root, sc, ht), NEW p, IsLeaf(B, p)
  PROVE  /\ p \in 1 .. Len(B) /\ B[p].leaf /\ ht[p] = 0
         /\ KeysOf(B[p]) \subseteq sc[p] /\ sc[p] \subseteq Int
<1>1. p \in 1 .. Len(B) /\ B[p].leaf
  BY DEF IsLeaf
<1>2. PageOK(B, root, sc, ht, p) /\ sc[p] \in SUBSET Int
  BY <1>1 DEF Tree
<1>3. KeysOf(B[p]) \subseteq sc[p]
  BY <1>1, <1>2 DEF PageOK, NodeOK, NumKeys, KeysOf
<1> QED
  BY <1>1, <1>2, <1>3 DEF PageOK

\* A key of one leaf is on one side of all that belong to another.
LEMMA OneSide ==
  ASSUME NEW B, NEW root, NEW sc, NEW ht, Tree(B, root, sc, ht),
         NEW p, NEW q, IsLeaf(B, p), IsLeaf(B, q), p # q,
         NEW x \in sc[p], NEW z \in sc[p], NEW y \in sc[q]
  PROVE  x # y /\ (x < y <=> z < y)
<1>1. /\ p \in 1 .. Len(B) /\ q \in 1 .. Len(B) /\ ht[p] = 0 /\ ht[q] = 0
      /\ sc[p] \subseteq Int /\ sc[q] \subseteq Int
  BY LeafKeys
<1>2. y \notin sc[p]
  <2>1. y \in sc[p] => p = q
    BY <1>1, OnePage
  <2> QED
    BY <2>1
<1>3. Convex(sc[p])
  BY <1>1, ScopesConvex
<1>4. ~(x <= y /\ y <= z) /\ ~(z <= y /\ y <= x)
  BY <1>1, <1>2, <1>3 DEF Convex
<1>5. x \in Int /\ y \in Int /\ z \in Int
  BY <1>1
<1> QED
  BY <1>4, <1>5

LEMMA LeavesAreBlocks ==
  ASSUME NEW B, NEW root, NEW sc, NEW ht, Tree(B, root, sc, ht)
  PROVE  Blocks(B)
<1>1. ASSUME NEW p, IsLeaf(B, p) PROVE KeysOf(B[p]) \subseteq Int
  BY <1>1, LeafKeys
<1>2. ASSUME NEW p, NEW q, IsLeaf(B, p), IsLeaf(B, q), p # q,
             NEW x \in KeysOf(B[p]), NEW y \in KeysOf(B[q])
      PROVE  x # y
  <2>1. x \in sc[p] /\ y \in sc[q]
    BY <1>2, LeafKeys
  <2> QED
    BY <1>2, <2>1, OneSide
<1>3. ASSUME NEW p, NEW q, IsLeaf(B, p), IsLeaf(B, q), Before(B, p, q),
             NEW x \in KeysOf(B[p]), NEW y \in KeysOf(B[q])
      PROVE  x < y
  <2>1. p # q
    BY <1>3 DEF Before
  <2>2. PICK v \in KeysOf(B[p]), w \in KeysOf(B[q]) : v < w
    BY <1>3 DEF Before
  <2>3. x \in sc[p] /\ v \in sc[p] /\ y \in sc[q] /\ w \in sc[q]
    BY <1>3, LeafKeys
  <2>4. x < w
    BY <1>3, <2>1, <2>2, <2>3, OneSide
  <2>5. x # y /\ (w < x <=> y < x)
    BY <1>3, <2>1, <2>3, OneSide
  <2>6. x \in Int /\ y \in Int /\ w \in Int
    BY <1>1, <1>3
  <2> QED
    BY <2>4, <2>5, <2>6
<1> QED
  BY <1>1, <1>2, <1>3 DEF Blocks

\* The order of the leaves.
LEMMA BlockOrder ==
  ASSUME NEW B, Blocks(B), NEW p, NEW q, IsLeaf(B, p), IsLeaf(B, q)
  PROVE  /\ Before(B, p, q) => ~Before(B, q, p)
         /\ p # q /\ KeysOf(B[p]) # {} /\ KeysOf(B[q]) # {} => Before(B, p, q) \/ Before(B, q, p)
<1>1. ASSUME Before(B, p, q), Before(B, q, p) PROVE FALSE
  <2>1. PICK x \in KeysOf(B[p]), y \in KeysOf(B[q]) : x < y
    BY <1>1 DEF Before
  <2>2. y < x
    BY <1>1 DEF Blocks
  <2>3. x \in Int /\ y \in Int
    BY DEF Blocks
  <2> QED
    BY <2>1, <2>2, <2>3
<1>2. ASSUME p # q, NEW x \in KeysOf(B[p]), NEW y \in KeysOf(B[q])
      PROVE  Before(B, p, q) \/ Before(B, q, p)
  <2>1. x \in Int /\ y \in Int /\ x # y
    BY <1>2 DEF Blocks
  <2>2. x < y \/ y < x
    BY <2>1
  <2> QED
    BY <1>2, <2>2 DEF Before
<1> QED
  BY <1>1, <1>2

LEMMA BeforeAll ==
  ASSUME NEW B, Blocks(B), NEW p, NEW q, NEW r, IsLeaf(B, p), IsLeaf(B, q), IsLeaf(B, r),
         Before(B, p, q), Before(B, q, r)
  PROVE  Before(B, p, r)
<1>1. PICK x \in KeysOf(B[p]), y \in KeysOf(B[q]) : x < y
  BY DEF Before
<1>2. PICK z \in KeysOf(B[r]) : TRUE
  BY DEF Before
<1>3. y < z
  BY DEF Blocks
<1>4. x \in Int /\ y \in Int /\ z \in Int
  BY DEF Blocks
<1>5. p # r
  BY BlockOrder
<1> QED
  BY <1>1, <1>3, <1>4, <1>5 DEF Before

\* Steps that leave the leaves, their keys and their order as they are.
LEMMA ChainSame ==
  ASSUME NEW pages, NEW next, Chain(pages),
         \A p : IsLeaf(next, p) <=> IsLeaf(pages, p),
         \A p : IsLeaf(pages, p) =>
           next[p].right = pages[p].right /\ KeysOf(pages[p]) \subseteq KeysOf(next[p]),
         \A p, q : IsLeaf(pages, p) /\ IsLeaf(pages, q) =>
           (Before(next, p, q) <=> Before(pages, p, q))
  PROVE  Chain(next)
<1> SUFFICES ASSUME NEW p, IsLeaf(next, p) PROVE Filled(next, p) /\ LinkFits(next, p)
  BY DEF Chain
<1>1. IsLeaf(pages, p) /\ Filled(pages, p) /\ LinkFits(pages, p)
  BY DEF Chain
<1>2. Filled(next, p)
  BY <1>1 DEF Filled
<1>3. next[p].right = pages[p].right
  BY <1>1
<1>4. LinkFits(next, p)
  <2> DEFINE q == pages[p].right
  <2>1. CASE q = None
    <3>1. \A r : IsLeaf(next, r) => ~Before(next, p, r)
      BY <1>1, <2>1 DEF LinkFits
    <3> QED
      BY <1>3, <2>1, <3>1 DEF LinkFits
  <2>2. CASE q # None
    <3>1. /\ IsLeaf(pages, q) /\ Before(pages, p, q)
          /\ \A r : IsLeaf(pages, r) => ~(Before(pages, p, r) /\ Before(pages, r, q))
      BY <1>1, <2>2 DEF LinkFits
    <3> HIDE DEF q
    <3>2. IsLeaf(next, q) /\ Before(next, p, q)
      BY <1>1, <3>1
    <3>3. \A r : IsLeaf(next, r) => ~(Before(next, p, r) /\ Before(next, r, q))
      BY <1>1, <3>1
    <3> QED
      BY <1>3, <2>2, <3>2, <3>3 DEF LinkFits, q
  <2> QED
    BY <2>1, <2>2
<1> QED
  BY <1>2, <1>4

LEMMA KeptChain ==
  ASSUME NEW pages, NEW next, Chain(pages), LinksKept(next, pages)
  PROVE  Chain(next)
<1>1. ASSUME NEW p, NEW q, IsLeaf(pages, p), IsLeaf(pages, q)
      PROVE  Before(next, p, q) <=> Before(pages, p, q)
  BY <1>1 DEF LinksKept, Before
<1>2. /\ \A p : IsLeaf(next, p) <=> IsLeaf(pages, p)
      /\ \A p : IsLeaf(pages, p) =>
           next[p].right = pages[p].right /\ KeysOf(pages[p]) \subseteq KeysOf(next[p])
  BY DEF LinksKept
<1> QED
  BY <1>1, <1>2, ChainSame

LEMMA TookChain ==
  ASSUME NEW pages, NEW next, NEW c, NEW key, Chain(pages), LeafTook(next, pages, c, key)
  PROVE  Chain(next)
<1>1. /\ IsLeaf(pages, c) /\ next[c].leaf /\ Len(next) = Len(pages)
      /\ \A p \in 1 .. Len(pages) : p # c => next[p] = pages[p]
      /\ next[c].right = pages[c].right
      /\ KeysOf(next[c]) = KeysOf(pages[c]) \cup {key}
  BY DEF LeafTook
<1>2. Blocks(pages) /\ Blocks(next)
  BY LeavesAreBlocks DEF LeafTook
<1>3. \A p : IsLeaf(next, p) <=> IsLeaf(pages, p)
  BY <1>1 DEF IsLeaf
<1>4. \A p : IsLeaf(pages, p) =>
        next[p].right = pages[p].right /\ KeysOf(pages[p]) \subseteq KeysOf(next[p])
  BY <1>1 DEF IsLeaf
<1>5. ASSUME NEW p, NEW q, IsLeaf(pages, p), IsLeaf(pages, q)
      PROVE  Before(next, p, q) <=> Before(pages, p, q)
  <2>1. ASSUME Before(pages, p, q) PROVE Before(next, p, q)
    BY <1>4, <1>5, <2>1 DEF Before
  <2>2. ASSUME Before(next, p, q) PROVE Before(pages, p, q)
    <3>1. p # q
      BY <2>2 DEF Before
    <3>2. KeysOf(pages[p]) # {} /\ KeysOf(pages[q]) # {}
      BY <1>5, <3>1 DEF Chain, Filled
    <3>3. PICK x \in KeysOf(pages[p]), y \in KeysOf(pages[q]) : TRUE
      BY <3>2
    <3>4. x \in KeysOf(next[p]) /\ y \in KeysOf(next[q])
      BY <1>4, <1>5
    <3>5. x < y
      BY <1>2, <1>3, <1>5, <2>2, <3>4 DEF Blocks
    <3> QED
      BY <3>1, <3>5 DEF Before
  <2> QED
    BY <2>1, <2>2
<1> QED
  BY <1>3, <1>4, <1>5, ChainSame

\* The order of the leaves after a split, with those of two leaves in the place of one.
LEMMA HalvedOrder ==
  ASSUME NEW pages, NEW next, NEW c, Blocks(pages), LeafHalved(next, pages, c)
  PROVE  LET n == Len(next) IN
         /\ n # c /\ ~IsLeaf(pages, n) /\ IsLeaf(next, n) /\ IsLeaf(next, c)
         /\ \A p : p # n => (IsLeaf(next, p) <=> IsLeaf(pages, p))
         /\ Before(next, c, n) /\ ~Before(next, n, c)
         /\ \A p : IsLeaf(pages, p) /\ p # c =>
              /\ next[p] = pages[p]
              /\ Before(next, p, c) <=> Before(pages, p, c)
              /\ Before(next, p, n) <=> Before(pages, p, c)
              /\ Before(next, c, p) <=> Before(pages, c, p)
              /\ Before(next, n, p) <=> Before(pages, c, p)
              /\ \A q : IsLeaf(pages, q) /\ q # c =>
                   (Before(next, p, q) <=> Before(pages, p, q))
<1> DEFINE n == Len(next)
<1>1. /\ Blocks(pages) /\ IsLeaf(pages, c)
      /\ Len(pages) \in Nat /\ n = Len(pages) + 1
      /\ \A p \in 1 .. Len(pages) : p # c => next[p] = pages[p]
      /\ next[c].leaf /\ next[n].leaf
      /\ KeysOf(next[c]) # {} /\ KeysOf(next[n]) # {}
      /\ KeysOf(pages[c]) = KeysOf(next[c]) \cup KeysOf(next[n])
      /\ \A x \in KeysOf(next[c]), y \in KeysOf(next[n]) : x < y
  BY DEF LeafHalved
<1>2. c \in 1 .. Len(pages) /\ n \notin 1 .. Len(pages) /\ n \in 1 .. n
  BY <1>1 DEF IsLeaf
<1>3. n # c /\ ~IsLeaf(pages, n) /\ IsLeaf(next, n) /\ IsLeaf(next, c)
  <2>1. c \in 1 .. n
    BY <1>1, <1>2
  <2> QED
    BY <1>1, <1>2, <2>1 DEF IsLeaf
<1>4. \A p : p # n => (IsLeaf(next, p) <=> IsLeaf(pages, p))
  <2> SUFFICES ASSUME NEW p, p # n PROVE IsLeaf(next, p) <=> IsLeaf(pages, p)
    OBVIOUS
  <2>1. p \in 1 .. n <=> p \in 1 .. Len(pages)
    BY <1>1
  <2> QED
    BY <1>1, <2>1 DEF IsLeaf
<1> HIDE DEF n
<1>5. PICK u \in KeysOf(next[c]), v \in KeysOf(next[n]) : u < v
  BY <1>1
<1>6. KeysOf(pages[c]) \subseteq Int
  BY <1>1 DEF Blocks
<1>7. Before(next, c, n)
  BY <1>3, <1>5 DEF Before
<1>8. ~Before(next, n, c)
  <2> SUFFICES ASSUME NEW x \in KeysOf(next[n]), NEW y \in KeysOf(next[c]), x < y PROVE FALSE
    BY DEF Before
  <2>1. y < x /\ x \in Int /\ y \in Int
    BY <1>1, <1>6
  <2> QED
    BY <2>1
<1>9. ASSUME NEW p, IsLeaf(pages, p), p # c
      PROVE  /\ next[p] = pages[p]
             /\ Before(next, p, c) <=> Before(pages, p, c)
             /\ Before(next, p, n) <=> Before(pages, p, c)
             /\ Before(next, c, p) <=> Before(pages, c, p)
             /\ Before(next, n, p) <=> Before(pages, c, p)
             /\ \A q : IsLeaf(pages, q) /\ q # c =>
                  (Before(next, p, q) <=> Before(pages, p, q))
  <2>1. next[p] = pages[p] /\ p # n
    BY <1>1, <1>2, <1>9 DEF IsLeaf
  <2>2. \A x \in KeysOf(pages[p]), y \in KeysOf(pages[c]) :
          /\ Before(pages, p, c) => x < y
          /\ Before(pages, c, p) => y < x
    BY <1>1, <1>9 DEF Blocks
  <2>3. Before(next, p, c) => Before(pages, p, c)
    BY <1>1, <2>1, <1>9 DEF Before
  <2>4. Before(next, p, n) => Before(pages, p, c)
    BY <1>1, <2>1, <1>9 DEF Before
  <2>5. Before(next, c, p) => Before(pages, c, p)
    BY <1>1, <2>1, <1>9 DEF Before
  <2>6. Before(next, n, p) => Before(pages, c, p)
    BY <1>1, <2>1, <1>9 DEF Before
  <2>7. ASSUME Before(pages, p, c) PROVE Before(next, p, c) /\ Before(next, p, n)
    <3>1. PICK x \in KeysOf(pages[p]) : TRUE
      BY <2>7 DEF Before
    <3>2. x < u /\ x < v
      BY <1>1, <2>2, <2>7
    <3> QED
      BY <1>9, <2>1, <3>2 DEF Before
  <2>8. ASSUME Before(pages, c, p) PROVE Before(next, c, p) /\ Before(next, n, p)
    <3>1. PICK x \in KeysOf(pages[p]) : TRUE
      BY <2>8 DEF Before
    <3>2. u < x /\ v < x
      BY <1>1, <2>2, <2>8
    <3> QED
      BY <1>9, <2>1, <3>2 DEF Before
  <2>9. \A q : IsLeaf(pages, q) /\ q # c => (Before(next, p, q) <=> Before(pages, p, q))
    BY <1>1, <2>1 DEF Before, IsLeaf
  <2> QED
    BY <2>1, <2>3, <2>4, <2>5, <2>6, <2>7, <2>8, <2>9
<1> QED
  BY <1>3, <1>4, <1>7, <1>8, <1>9 DEF n

LEMMA HalvedChain ==
  ASSUME NEW pages, NEW next, NEW c, Chain(pages), Blocks(pages), LeafHalved(next, pages, c)
  PROVE  Chain(next)
<1> DEFINE n == Len(next)
<1>1. /\ n # c /\ ~IsLeaf(pages, n) /\ IsLeaf(next, n) /\ IsLeaf(next, c)
      /\ \A p : p # n => (IsLeaf(next, p) <=> IsLeaf(pages, p))
      /\ Before(next, c, n) /\ ~Before(next, n, c)
  BY HalvedOrder
<1>2. \A p : IsLeaf(pages, p) /\ p # c =>
        /\ next[p] = pages[p]
        /\ Before(next, p, c) <=> Before(pages, p, c)
        /\ Before(next, p, n) <=> Before(pages, p, c)
        /\ Before(next, c, p) <=> Before(pages, c, p)
        /\ Before(next, n, p) <=> Before(pages, c, p)
        /\ \A q : IsLeaf(pages, q) /\ q # c =>
             (Before(next, p, q) <=> Before(pages, p, q))
  BY HalvedOrder
<1>3. /\ Blocks(pages) /\ IsLeaf(pages, c)
      /\ next[c].right = n /\ next[n].right = pages[c].right
      /\ KeysOf(next[c]) # {} /\ KeysOf(next[n]) # {} /\ n # None
  BY DEF LeafHalved, None
<1>4. LinkFits(pages, c)
  BY <1>3 DEF Chain
<1> HIDE DEF n
<1>5. LinkFits(next, c)
  <2>1. ASSUME NEW r, IsLeaf(next, r), Before(next, c, r), Before(next, r, n) PROVE FALSE
    <3>1. r # c /\ r # n
      BY <2>1 DEF Before
    <3>2. IsLeaf(pages, r)
      BY <1>1, <2>1, <3>1
    <3>3. Before(pages, c, r) /\ Before(pages, r, c)
      BY <1>2, <2>1, <3>1, <3>2
    <3> QED
      BY <1>3, <3>2, <3>3, BlockOrder
  <2> QED
    BY <1>1, <1>3, <2>1 DEF LinkFits
<1>6. LinkFits(next, n)
  <2> DEFINE q == pages[c].right
  <2>1. CASE q = None
    <3>1. ASSUME NEW r, IsLeaf(next, r), Before(next, n, r) PROVE FALSE
      <4>1. r # c /\ r # n
        BY <1>1, <3>1 DEF Before
      <4>2. IsLeaf(pages, r)
        BY <1>1, <3>1, <4>1
      <4>3. Before(pages, c, r)
        BY <1>2, <3>1, <4>1, <4>2
      <4> QED
        BY <1>4, <2>1, <4>2, <4>3 DEF LinkFits
    <3> QED
      BY <1>3, <2>1, <3>1 DEF LinkFits
  <2>2. CASE q # None
    <3>1. /\ IsLeaf(pages, q) /\ Before(pages, c, q)
          /\ \A r : IsLeaf(pages, r) => ~(Before(pages, c, r) /\ Before(pages, r, q))
      BY <1>4, <2>2 DEF LinkFits
    <3> HIDE DEF q
    <3>2. q # c /\ q # n
      BY <1>1, <3>1 DEF Before
    <3>3. IsLeaf(next, q) /\ Before(next, n, q)
      BY <1>1, <1>2, <3>1, <3>2
    <3>4. ASSUME NEW r, IsLeaf(next, r), Before(next, n, r), Before(next, r, q) PROVE FALSE
      <4>1. r # c /\ r # n
        BY <1>1, <3>4 DEF Before
      <4>2. IsLeaf(pages, r)
        BY <1>1, <3>4, <4>1
      <4>3. Before(pages, c, r) /\ Before(pages, r, q)
        BY <1>2, <3>1, <3>2, <3>4, <4>1, <4>2
      <4> QED
        BY <3>1, <4>2, <4>3
    <3> QED
      BY <1>3, <2>2, <3>3, <3>4 DEF LinkFits, q
  <2> QED
    BY <2>1, <2>2
<1>7. ASSUME NEW p, IsLeaf(pages, p), p # c PROVE Filled(next, p) /\ LinkFits(next, p)
  <2>1. next[p] = pages[p] /\ Filled(pages, p) /\ LinkFits(pages, p) /\ p # n
    BY <1>1, <1>2, <1>7 DEF Chain
  <2>2. Filled(next, p)
    <3>1. KeysOf(pages[p]) # {}
      BY <1>3, <1>7, <2>1 DEF Filled
    <3> QED
      BY <2>1, <3>1 DEF Filled
  <2> DEFINE q == pages[p].right
  <2>3. CASE q = None
    <3>1. ASSUME NEW r, IsLeaf(next, r), Before(next, p, r) PROVE FALSE
      <4>1. \A s : IsLeaf(pages, s) => ~Before(pages, p, s)
        BY <2>1, <2>3 DEF LinkFits
      <4>2. CASE r = c \/ r = n
        BY <1>2, <1>3, <1>7, <3>1, <4>1, <4>2
      <4>3. CASE r # c /\ r # n
        <5>1. IsLeaf(pages, r)
          BY <1>1, <3>1, <4>3
        <5> QED
          BY <1>2, <1>7, <3>1, <4>1, <4>3, <5>1
      <4> QED
        BY <4>2, <4>3
    <3> QED
      BY <2>1, <2>2, <2>3, <3>1 DEF LinkFits
  <2>4. CASE q # None
    <3>1. /\ IsLeaf(pages, q) /\ Before(pages, p, q)
          /\ \A r : IsLeaf(pages, r) => ~(Before(pages, p, r) /\ Before(pages, r, q))
      BY <2>1, <2>4 DEF LinkFits
    <3> HIDE DEF q
    <3>2. q # n
      BY <1>1, <3>1
    <3>3. IsLeaf(next, q) /\ Before(next, p, q)
      BY <1>1, <1>2, <1>7, <3>1, <3>2
    <3>4. ASSUME NEW r, IsLeaf(next, r), Before(next, p, r), Before(next, r, q) PROVE FALSE
      <4>1. CASE q = c
        <5>1. r # n /\ r # c
          BY <1>1, <3>4, <4>1 DEF Before
        <5>2. IsLeaf(pages, r)
          BY <1>1, <3>4, <5>1
        <5>3. Before(pages, p, r) /\ Before(pages, r, q)
          BY <1>2, <1>7, <3>4, <4>1, <5>1, <5>2
        <5> QED
          BY <3>1, <5>2, <5>3
      <4>2. CASE q # c /\ (r = c \/ r = n)
        <5>1. Before(pages, p, c) /\ Before(pages, c, q)
          BY <1>2, <1>7, <3>1, <3>4, <4>2
        <5> QED
          BY <1>3, <3>1, <5>1
      <4>3. CASE q # c /\ r # c /\ r # n
        <5>1. IsLeaf(pages, r)
          BY <1>1, <3>4, <4>3
        <5>2. Before(pages, p, r) /\ Before(pages, r, q)
          BY <1>2, <1>7, <3>1, <3>4, <4>3, <5>1
        <5> QED
          BY <3>1, <5>1, <5>2
      <4> QED
        BY <4>1, <4>2, <4>3
    <3> QED
      BY <2>1, <2>2, <2>4, <3>3, <3>4 DEF LinkFits, q
  <2> QED
    BY <2>3, <2>4
<1>8. Filled(next, c) /\ Filled(next, n)
  BY <1>3 DEF Filled
<1>9. ASSUME NEW p, IsLeaf(next, p) PROVE Filled(next, p) /\ LinkFits(next, p)
  <2>1. CASE p = c \/ p = n
    BY <1>5, <1>6, <1>8, <2>1
  <2>2. CASE p # c /\ p # n
    BY <1>1, <1>7, <1>9, <2>2
  <2> QED
    BY <2>1, <2>2
<1> QED
  BY <1>9 DEF Chain

-----------------------------------------------------------------------------
(* The steps of insert. *)

LEMMA FirstChain == Init => Chain(buffer)
<1> SUFFICES ASSUME Init PROVE Chain(buffer)
  OBVIOUS
<1>1. buffer = <<Leaf(<<>>, None)>>
  BY DEF Init
<1>2. Len(buffer) = 1 /\ buffer[1].right = None
  BY <1>1 DEF Leaf
<1>3. \A p : IsLeaf(buffer, p) => p = 1
  BY <1>2 DEF IsLeaf
<1>4. \A r : IsLeaf(buffer, r) => ~Before(buffer, 1, r)
  BY <1>3 DEF Before
<1> QED
  BY <1>2, <1>3, <1>4 DEF Chain, Filled, LinkFits

LEMMA ChainStep ==
  ASSUME IInv, Chain(buffer), [Next]_vars
  PROVE  Chain(buffer')
<1>1. ASSUME NEW request \in Request, Insert(request[1], request[2]) PROVE Chain(buffer')
  BY <1>1 DEF Insert
<1>2. CASE Descend
  BY <1>2 DEF Descend
<1>3. CASE Overwrite
  BY <1>3, OverwriteKeeps, KeptChain
<1>4. CASE AddToLeaf
  BY <1>4, AddToLeafKeeps, TookChain
<1>5. CASE SplitLeaf
  <2>1. PICK B, c : LeafTook(B, buffer, c, call.key) /\ LeafHalved(buffer', B, c)
    BY <1>5, SplitLeafKeeps
  <2>2. Chain(B)
    BY <2>1, TookChain
  <2>3. Blocks(B)
    BY <2>1, LeavesAreBlocks DEF LeafTook
  <2> QED
    BY <2>1, <2>2, <2>3, HalvedChain
<1>6. CASE AddToInner
  BY <1>6, AddToInnerKeeps, KeptChain
<1>7. CASE SplitInner
  BY <1>7, SplitInnerKeeps, KeptChain
<1>8. CASE NewRoot
  BY <1>8, NewRootKeeps, KeptChain
<1>9. CASE UNCHANGED vars
  BY <1>9 DEF vars
<1> QED
  BY <1>1, <1>2, <1>3, <1>4, <1>5, <1>6, <1>7, <1>8, <1>9 DEF Next

-----------------------------------------------------------------------------
(***************************************************************************)
(* What a range lookup returns.                                            *)
(***************************************************************************)

\* s has the values of E in the order of their keys.
Lists(s, E) ==
  \E t \in Seq(Entry) :
    /\ Ordered(t, Len(t))
    /\ s \in Seq(Rid \cup Nat) /\ Len(s) = Len(t)
    /\ \A i \in 1 .. Len(t) : s[i] = t[i].value
    /\ \A e : e \in E <=> Has(t, e)

LEMMA ListsNone == Lists(<<>>, {})
<1>1. /\ <<>> \in Seq(Entry) /\ <<>> \in Seq(Rid \cup Nat) /\ Len(<<>>) = 0
  OBVIOUS
<1>2. Ordered(<<>>, Len(<<>>))
  BY <1>1 DEF Ordered
<1>3. \A i \in 1 .. Len(<<>>) : FALSE
  BY <1>1
<1>4. \A e : e \in {} <=> Has(<<>>, e)
  BY <1>3, Zenon DEF Has
<1> QED
  BY <1>1, <1>2, <1>3, <1>4, Zenon DEF Lists

LEMMA ListsMore ==
  ASSUME NEW s, NEW F, Lists(s, F), NEW e \in Entry, \A x \in F : e.key < x.key
  PROVE  Lists(<<e.value>> \o s, F \cup {e})
<1>1. PICK t \in Seq(Entry) :
        /\ Ordered(t, Len(t))
        /\ s \in Seq(Rid \cup Nat) /\ Len(s) = Len(t)
        /\ \A i \in 1 .. Len(t) : s[i] = t[i].value
        /\ \A x : x \in F <=> Has(t, x)
  BY DEF Lists
<1> DEFINE n == Len(t)
<1>2. n \in Nat
  BY LenProperties
<1>3. /\ <<e>> \in Seq(Entry) /\ Len(<<e>>) = 1 /\ <<e>>[1] = e
      /\ <<e.value>> \in Seq(Rid \cup Nat) /\ Len(<<e.value>>) = 1 /\ <<e.value>>[1] = e.value
  <2>1. e.value \in Rid \cup Nat
    BY DEF Entry
  <2> QED
    BY <2>1
<1> DEFINE u == <<e>> \o t
           v == <<e.value>> \o s
<1>4. /\ u \in Seq(Entry) /\ Len(u) = 1 + n
      /\ \A i \in 1 .. 1 + n : u[i] = IF i <= 1 THEN <<e>>[i] ELSE t[i - 1]
  <2>1. /\ u \in Seq(Entry) /\ Len(u) = Len(<<e>>) + Len(t)
        /\ \A i \in 1 .. Len(<<e>>) + Len(t) :
             u[i] = IF i <= Len(<<e>>) THEN <<e>>[i] ELSE t[i - Len(<<e>>)]
    BY <1>3, ConcatProperties
  <2> QED
    BY <1>3, <2>1
<1>5. /\ v \in Seq(Rid \cup Nat) /\ Len(v) = 1 + n
      /\ \A i \in 1 .. 1 + n : v[i] = IF i <= 1 THEN <<e.value>>[i] ELSE s[i - 1]
  <2>1. /\ v \in Seq(Rid \cup Nat) /\ Len(v) = Len(<<e.value>>) + Len(s)
        /\ \A i \in 1 .. Len(<<e.value>>) + Len(s) :
             v[i] = IF i <= Len(<<e.value>>) THEN <<e.value>>[i] ELSE s[i - Len(<<e.value>>)]
    BY <1>1, <1>3, ConcatProperties
  <2> QED
    BY <1>1, <1>3, <2>1
<1> HIDE DEF u, v, n
<1>6. /\ u[1] = e /\ v[1] = e.value
      /\ \A i \in 1 .. n : u[i + 1] = t[i] /\ v[i + 1] = s[i]
  <2>1. 1 \in 1 .. 1 + n
    BY <1>2
  <2>2. ASSUME NEW i \in 1 .. n PROVE u[i + 1] = t[i] /\ v[i + 1] = s[i]
    <3>1. i + 1 \in 1 .. 1 + n /\ ~(i + 1 <= 1) /\ (i + 1) - 1 = i
      BY <1>2
    <3> QED
      BY <1>4, <1>5, <3>1
  <2> QED
    BY <1>3, <1>4, <1>5, <2>1, <2>2
<1>7. \A i \in 1 .. 1 + n : i = 1 \/ (i - 1 \in 1 .. n /\ (i - 1) + 1 = i)
  BY <1>2
<1>8. \A i \in 1 .. n : t[i] \in F /\ e.key < t[i].key
  BY <1>1 DEF Has, n
<1>9. Ordered(u, Len(u))
  <2> SUFFICES ASSUME NEW i \in 1 .. 1 + n, NEW j \in 1 .. 1 + n, i < j
               PROVE  u[i].key < u[j].key
    BY <1>4 DEF Ordered
  <2>1. j # 1 /\ j - 1 \in 1 .. n /\ u[j] = t[j - 1]
    <3>1. j # 1
      BY <1>2
    <3> QED
      BY <1>6, <1>7, <3>1
  <2>2. CASE i = 1
    BY <1>6, <1>8, <2>1, <2>2
  <2>3. CASE i # 1
    <3>1. i - 1 \in 1 .. n /\ u[i] = t[i - 1] /\ i - 1 < j - 1
      BY <1>2, <1>6, <1>7, <2>3
    <3> QED
      BY <1>1, <2>1, <3>1 DEF Ordered, n
  <2> QED
    BY <2>2, <2>3
<1>10. \A i \in 1 .. 1 + n : v[i] = u[i].value
  <2> TAKE i \in 1 .. 1 + n
  <2>1. CASE i = 1
    BY <1>6, <2>1
  <2>2. CASE i # 1
    <3>1. i - 1 \in 1 .. n /\ u[i] = t[i - 1] /\ v[i] = s[i - 1]
      BY <1>6, <1>7, <2>2
    <3> QED
      BY <1>1, <3>1 DEF n
  <2> QED
    BY <2>1, <2>2
<1>11. ASSUME NEW x PROVE x \in F \cup {e} <=> Has(u, x)
  <2>1. ASSUME x \in F PROVE Has(u, x)
    <3>1. PICK i \in 1 .. n : t[i] = x
      BY <1>1, <2>1 DEF Has, n
    <3>2. i + 1 \in 1 .. 1 + n
      BY <1>2
    <3> QED
      BY <1>4, <1>6, <3>1, <3>2 DEF Has
  <2>2. Has(u, e)
    <3>1. 1 \in 1 .. 1 + n
      BY <1>2
    <3> QED
      BY <1>4, <1>6, <3>1 DEF Has
  <2>3. ASSUME Has(u, x), x # e PROVE x \in F
    <3>1. PICK i \in 1 .. 1 + n : u[i] = x
      BY <1>4, <2>3 DEF Has
    <3>2. i - 1 \in 1 .. n /\ t[i - 1] = x
      BY <1>6, <1>7, <2>3, <3>1
    <3> QED
      BY <1>8, <3>2
  <2> QED
    BY <2>1, <2>2, <2>3
<1> QED
  BY <1>4, <1>5, <1>9, <1>10, <1>11 DEF Lists, u, v

\* A sequence with different members is as long as the set of its members.
LEMMA MembersCounted ==
  ASSUME NEW n \in Nat, NEW t, NEW E,
         \A i, j \in 1 .. n : i # j => t[i] # t[j],
         \A e : e \in E <=> \E i \in 1 .. n : t[i] = e
  PROVE  IsFiniteSet(E) /\ Cardinality(E) = n
<1> DEFINE f == [i \in 1 .. n |-> t[i]]
<1>1. f \in Bijection(1 .. n, E)
  <2>1. f \in [1 .. n -> E]
    OBVIOUS
  <2>2. \A i, j \in 1 .. n : f[i] = f[j] => i = j
    OBVIOUS
  <2>3. \A e \in E : \E i \in 1 .. n : f[i] = e
    OBVIOUS
  <2> QED
    BY <2>1, <2>2, <2>3 DEF Bijection, Injection, Surjection, IsInjective
<1>2. IsFiniteSet(1 .. n) /\ Cardinality(1 .. n) = n
  <2>1. /\ IsFiniteSet(1 .. n)
        /\ Cardinality(1 .. n) = IF 1 > n THEN 0 ELSE n - 1 + 1
    BY FS_Interval
  <2> QED
    BY <2>1
<1> HIDE DEF f
<1>3. ExistsBijection(1 .. n, E)
  BY <1>1 DEF ExistsBijection
<1>4. IsFiniteSet(E) /\ Cardinality(E) = Cardinality(1 .. n)
  BY <1>2, <1>3, FS_Bijection
<1> QED
  BY <1>2, <1>4

LEMMA ListsInOrder ==
  ASSUME NEW s, NEW E, Lists(s, E)
  PROVE  /\ Len(s) = Cardinality(E)
         /\ \A e \in E : s[Cardinality({x \in E : x.key <= e.key})] = e.value
<1>1. PICK t \in Seq(Entry) :
        /\ Ordered(t, Len(t))
        /\ s \in Seq(Rid \cup Nat) /\ Len(s) = Len(t)
        /\ \A i \in 1 .. Len(t) : s[i] = t[i].value
        /\ \A e : e \in E <=> Has(t, e)
  BY DEF Lists
<1> DEFINE n == Len(t)
<1>2. n \in Nat /\ \A i \in 1 .. n : t[i].key \in Int
  BY LenProperties, KeyOfEntry
<1>3. \A i, j \in 1 .. n : i < j => t[i].key < t[j].key
  BY <1>1 DEF Ordered
<1>4. \A e : e \in E <=> \E i \in 1 .. n : t[i] = e
  BY <1>1 DEF Has
<1>5. Len(s) = n /\ \A i \in 1 .. n : s[i] = t[i].value
  BY <1>1
<1> HIDE DEF n
<1>6. \A i, j \in 1 .. n : i # j => t[i] # t[j]
  <2> SUFFICES ASSUME NEW i \in 1 .. n, NEW j \in 1 .. n, i # j, t[i] = t[j] PROVE FALSE
    OBVIOUS
  <2>1. i < j \/ j < i
    OBVIOUS
  <2>2. t[i].key < t[j].key \/ t[j].key < t[i].key
    BY <1>3, <2>1
  <2>3. t[i].key \in Int
    BY <1>2
  <2> QED
    BY <2>2, <2>3
<1>7. Cardinality(E) = n
  BY <1>2, <1>4, <1>6, MembersCounted
<1>8. ASSUME NEW e \in E PROVE s[Cardinality({x \in E : x.key <= e.key})] = e.value
  <2>1. PICK i \in 1 .. n : t[i] = e
    BY <1>4
  <2> DEFINE D == {x \in E : x.key <= e.key}
  <2>2. \A j \in 1 .. n : t[j].key <= e.key <=> j <= i
    <3> TAKE j \in 1 .. n
    <3>1. t[j].key \in Int /\ t[i].key \in Int
      BY <1>2
    <3>2. j < i => t[j].key < t[i].key
      BY <1>3
    <3>3. i < j => t[i].key < t[j].key
      BY <1>3
    <3>4. j < i \/ j = i \/ i < j
      BY <1>2
    <3> QED
      BY <1>2, <2>1, <3>1, <3>2, <3>3, <3>4
  <2>3. ASSUME NEW x PROVE x \in D <=> \E j \in 1 .. i : t[j] = x
    <3>1. ASSUME x \in D PROVE \E j \in 1 .. i : t[j] = x
      <4>1. PICK j \in 1 .. n : t[j] = x
        BY <1>4, <3>1
      <4>2. j <= i
        BY <2>2, <3>1, <4>1
      <4> QED
        BY <1>2, <4>1, <4>2
    <3>2. ASSUME NEW j \in 1 .. i, t[j] = x PROVE x \in D
      <4>1. j \in 1 .. n /\ j <= i
        BY <1>2
      <4>2. x \in E
        BY <1>4, <3>2, <4>1
      <4>3. x.key <= e.key
        BY <2>2, <3>2, <4>1
      <4> QED
        BY <4>2, <4>3
    <3> QED
      BY <3>1, <3>2
  <2>4. i \in Nat /\ \A j, k \in 1 .. i : j # k => t[j] # t[k]
    BY <1>2, <1>6
  <2> HIDE DEF D
  <2>5. Cardinality(D) = i
    BY <2>3, <2>4, MembersCounted
  <2> QED
    BY <1>5, <2>1, <2>5 DEF D
<1> QED
  BY <1>5, <1>7, <1>8

-----------------------------------------------------------------------------
(* The walk of a range lookup. *)

LeavesOf(pages) == {p \in DOMAIN pages : pages[p].leaf}
Places(pages) == LeavesOf(pages) \X (1 .. LeafCapacity + 1)

StepFrom(pages, lo, hi, f, at) ==
  LET page == pages[at[1]]
      i    == at[2]
  IN  IF i > Len(page.records)
        THEN IF page.right = None THEN <<>> ELSE f[<<page.right, 1>>]
      ELSE IF page.records[i].key > hi THEN <<>>
      ELSE IF page.records[i].key >= lo
        THEN <<page.records[i].value>> \o f[<<at[1], i + 1>>]
      ELSE f[<<at[1], i + 1>>]

Scan(pages, lo, hi, f) == [at \in Places(pages) |-> StepFrom(pages, lo, hi, f, at)]

LEMMA RangeIsScan ==
  ASSUME NEW lo, NEW hi
  PROVE  RangeLookup(lo, hi) =
           (CHOOSE f : f = [at \in LeafIds \X (1 .. LeafCapacity + 1) |-> StepFrom(buffer, lo, hi, f, at)])
             [<<LookupLeaf(lo), Slot(buffer[LookupLeaf(lo)].records, lo)>>]
BY DEF RangeLookup, StepFrom

LEMMA ScanIs ==
  ASSUME NEW lo, NEW hi, \E f : f = Scan(buffer, lo, hi, f)
  PROVE  \E f : /\ f = Scan(buffer, lo, hi, f)
                /\ RangeLookup(lo, hi) =
                     f[<<LookupLeaf(lo), Slot(buffer[LookupLeaf(lo)].records, lo)>>]
<1> DEFINE g == CHOOSE f : f = [at \in LeafIds \X (1 .. LeafCapacity + 1) |-> StepFrom(buffer, lo, hi, f, at)]
<1>1. Places(buffer) = LeafIds \X (1 .. LeafCapacity + 1)
  BY DEF Places, LeavesOf, LeafIds, PageId
<1>2. PICK f : f = Scan(buffer, lo, hi, f)
  OBVIOUS
<1>3. f = [at \in LeafIds \X (1 .. LeafCapacity + 1) |-> StepFrom(buffer, lo, hi, f, at)]
  BY <1>1, <1>2 DEF Scan
<1>4. g = [at \in LeafIds \X (1 .. LeafCapacity + 1) |-> StepFrom(buffer, lo, hi, g, at)]
  BY <1>3, Zenon
<1>5. RangeLookup(lo, hi) = g[<<LookupLeaf(lo), Slot(buffer[LookupLeaf(lo)].records, lo)>>]
  BY RangeIsScan
<1> HIDE DEF g
<1>6. g = Scan(buffer, lo, hi, g)
  BY <1>1, <1>4 DEF Scan
<1> QED
  BY <1>5, <1>6

\* A leaf page of the tree between inserts, and what is known of it.
Linked(pages, root, sc, ht) ==
  /\ Tree(pages, root, sc, ht) /\ PagesFit(pages) /\ Chain(pages)

LEMMA LeafIs ==
  ASSUME NEW pages, NEW root, NEW sc, NEW ht, Linked(pages, root, sc, ht), NEW p, IsLeaf(pages, p)
  PROVE  /\ p \in 1 .. Len(pages) /\ pages[p].leaf
         /\ pages[p].records \in Seq(Entry) /\ Len(pages[p].records) \in 0 .. LeafCapacity
         /\ LeafCapacity \in Nat
         /\ Ordered(pages[p].records, Len(pages[p].records))
         /\ \A i \in 1 .. Len(pages[p].records) :
              /\ pages[p].records[i] \in Entry
              /\ pages[p].records[i].key \in KeysOf(pages[p])
              /\ pages[p].records[i].key \in Int
         /\ LinkFits(pages, p)
<1>1. Tree(pages, root, sc, ht) /\ PagesFit(pages) /\ Chain(pages)
  BY DEF Linked
<1>2. p \in 1 .. Len(pages) /\ pages[p].leaf
  BY DEF IsLeaf
<1>3. /\ pages[p].records \in Seq(Entry) /\ Len(pages[p].records) \in Nat
      /\ NodeOK(pages[p], sc[p])
  BY <1>1, <1>2, TreeType DEF Tree, PageOK
<1>4. LeafCapacity \in Nat
  BY Capacities DEF CapacityAssumption
<1>5. Len(pages[p].records) \in 0 .. LeafCapacity
  BY <1>1, <1>2, <1>3, <1>4 DEF PagesFit, Fits
<1>6. Ordered(pages[p].records, Len(pages[p].records))
  BY <1>2, <1>3 DEF NodeOK, NumKeys
<1>7. ASSUME NEW i \in 1 .. Len(pages[p].records)
      PROVE  /\ pages[p].records[i] \in Entry
             /\ pages[p].records[i].key \in KeysOf(pages[p])
             /\ pages[p].records[i].key \in Int
  BY <1>3, ElementOfSeq, KeyOfEntry DEF KeysOf
<1>8. LinkFits(pages, p)
  BY <1>1 DEF Chain
<1> QED
  BY <1>2, <1>3, <1>4, <1>5, <1>6, <1>7, <1>8

LEMMA PlaceIs ==
  ASSUME NEW pages, DOMAIN pages = 1 .. Len(pages), NEW p, NEW i
  PROVE  <<p, i>> \in Places(pages) <=> IsLeaf(pages, p) /\ i \in 1 .. LeafCapacity + 1
BY DEF Places, LeavesOf, IsLeaf

\* The places a walk has before it.
Ahead(pages, p, i) ==
  {at \in Places(pages) : Before(pages, p, at[1]) \/ (at[1] = p /\ i <= at[2])}

LEMMA AheadIs ==
  ASSUME NEW pages, DOMAIN pages = 1 .. Len(pages), NEW p, NEW i, NEW q, NEW j
  PROVE  <<q, j>> \in Ahead(pages, p, i) <=>
           /\ IsLeaf(pages, q) /\ j \in 1 .. LeafCapacity + 1
           /\ Before(pages, p, q) \/ (q = p /\ i <= j)
BY PlaceIs DEF Ahead

LEMMA AheadFinite ==
  ASSUME NEW pages \in Seq(Page), NEW p, NEW i
  PROVE  /\ IsFiniteSet(Places(pages)) /\ IsFiniteSet(Ahead(pages, p, i))
         /\ Cardinality(Ahead(pages, p, i)) \in Nat /\ Cardinality(Places(pages)) \in Nat
         /\ Cardinality(Ahead(pages, p, i)) <= Cardinality(Places(pages))
<1>1. Len(pages) \in Nat /\ DOMAIN pages = 1 .. Len(pages)
  BY LenProperties
<1>2. IsFiniteSet(1 .. Len(pages)) /\ IsFiniteSet(1 .. LeafCapacity + 1)
  <2>1. LeafCapacity + 1 \in Int /\ 1 \in Int /\ Len(pages) \in Int
    BY <1>1, Capacities DEF CapacityAssumption
  <2> QED
    BY <2>1, FS_Interval
<1>3. IsFiniteSet(LeavesOf(pages))
  <2>1. LeavesOf(pages) \subseteq 1 .. Len(pages)
    BY <1>1 DEF LeavesOf
  <2> QED
    BY <1>2, <2>1, FS_Subset
<1>4. IsFiniteSet(Places(pages))
  BY <1>2, <1>3, FS_Product DEF Places
<1>5. Ahead(pages, p, i) \subseteq Places(pages)
  BY DEF Ahead
<1>6. /\ IsFiniteSet(Ahead(pages, p, i))
      /\ Cardinality(Ahead(pages, p, i)) <= Cardinality(Places(pages))
  BY <1>4, <1>5, FS_Subset
<1> QED
  BY <1>4, <1>6, FS_CardinalityType

\* The place after place i of leaf p.
NextPlace(pages, p, i) ==
  IF i > Len(pages[p].records) THEN <<pages[p].right, 1>> ELSE <<p, i + 1>>

Size(pages, at) == Cardinality(Ahead(pages, at[1], at[2]))

\* A walk that goes on has fewer places before it.
LEMMA WalkGoesOn ==
  ASSUME NEW pages, NEW root, NEW sc, NEW ht, Linked(pages, root, sc, ht),
         NEW p, NEW i, <<p, i>> \in Places(pages),
         i > Len(pages[p].records) => pages[p].right # None
  PROVE  /\ NextPlace(pages, p, i) \in Places(pages)
         /\ Size(pages, NextPlace(pages, p, i)) < Size(pages, <<p, i>>)
<1>0. pages \in Seq(Page) /\ DOMAIN pages = 1 .. Len(pages) /\ Blocks(pages)
  BY TreeType, LeavesAreBlocks DEF Linked, Tree
<1>1. IsLeaf(pages, p) /\ i \in 1 .. LeafCapacity + 1
  BY <1>0, PlaceIs
<1>2. Len(pages[p].records) \in 0 .. LeafCapacity /\ LeafCapacity \in Nat /\ LinkFits(pages, p)
  BY <1>1, LeafIs
<1>3. \E q, j : /\ NextPlace(pages, p, i) = <<q, j>> /\ <<q, j>> \in Places(pages)
                /\ Ahead(pages, q, j) \subseteq Ahead(pages, p, i)
                /\ <<p, i>> \notin Ahead(pages, q, j)
  <2>1. CASE i > Len(pages[p].records)
    <3>1. PICK q : q = pages[p].right
      OBVIOUS
    <3>2. IsLeaf(pages, q) /\ Before(pages, p, q)
      BY <1>2, <2>1, <3>1 DEF LinkFits
    <3>3. NextPlace(pages, p, i) = <<q, 1>>
      BY <2>1, <3>1 DEF NextPlace
    <3>4. <<q, 1>> \in Places(pages)
      <4>1. 1 \in 1 .. LeafCapacity + 1
        BY <1>2
      <4> QED
        BY <1>0, <3>2, <4>1, PlaceIs
    <3>5. \A at \in Ahead(pages, q, 1) : at \in Ahead(pages, p, i)
      <4> TAKE at \in Ahead(pages, q, 1)
      <4>1. at \in Places(pages) /\ (Before(pages, q, at[1]) \/ at[1] = q)
        BY DEF Ahead
      <4>2. IsLeaf(pages, at[1])
        BY <1>0, <4>1 DEF Places, LeavesOf, IsLeaf
      <4>3. Before(pages, p, at[1])
        BY <1>0, <1>1, <3>2, <4>1, <4>2, BeforeAll
      <4> QED
        BY <4>1, <4>3 DEF Ahead
    <3>6. <<p, i>> \notin Ahead(pages, q, 1)
      <4>1. ~Before(pages, q, p) /\ p # q
        BY <1>0, <1>1, <3>2, BlockOrder DEF Before
      <4> QED
        BY <1>0, <4>1, AheadIs
    <3> QED
      BY <3>3, <3>4, <3>5, <3>6
  <2>2. CASE ~(i > Len(pages[p].records))
    <3>1. i + 1 \in 1 .. LeafCapacity + 1 /\ i < i + 1
      BY <1>1, <1>2, <2>2
    <3>2. NextPlace(pages, p, i) = <<p, i + 1>> /\ <<p, i + 1>> \in Places(pages)
      BY <1>0, <1>1, <2>2, <3>1, PlaceIs DEF NextPlace
    <3>3. \A at \in Ahead(pages, p, i + 1) : at \in Ahead(pages, p, i)
      <4> TAKE at \in Ahead(pages, p, i + 1)
      <4>1. at \in Places(pages) /\ (Before(pages, p, at[1]) \/ (at[1] = p /\ i + 1 <= at[2]))
        BY DEF Ahead
      <4>2. at[2] \in Int
        BY <4>1 DEF Places
      <4>3. i + 1 <= at[2] => i <= at[2]
        BY <1>1, <4>2
      <4> QED
        BY <4>1, <4>3 DEF Ahead
    <3>4. <<p, i>> \notin Ahead(pages, p, i + 1)
      <4>1. ~Before(pages, p, p) /\ ~(i + 1 <= i)
        BY <1>1 DEF Before
      <4> QED
        BY <1>0, <4>1, AheadIs
    <3> QED
      BY <3>2, <3>3, <3>4
  <2> QED
    BY <2>1, <2>2
<1>4. PICK q, j : /\ NextPlace(pages, p, i) = <<q, j>> /\ <<q, j>> \in Places(pages)
                  /\ Ahead(pages, q, j) \subseteq Ahead(pages, p, i)
                  /\ <<p, i>> \notin Ahead(pages, q, j)
  BY <1>3
<1>5. <<p, i>> \in Ahead(pages, p, i)
  BY <1>0, <1>1, AheadIs
<1>6. Cardinality(Ahead(pages, q, j)) < Cardinality(Ahead(pages, p, i))
  <2>1. IsFiniteSet(Ahead(pages, p, i)) /\ Ahead(pages, q, j) # Ahead(pages, p, i)
    BY <1>0, <1>4, <1>5, AheadFinite
  <2>2. Cardinality(Ahead(pages, q, j)) \in Nat /\ Cardinality(Ahead(pages, p, i)) \in Nat
    BY <1>0, AheadFinite
  <2>3. /\ Cardinality(Ahead(pages, q, j)) <= Cardinality(Ahead(pages, p, i))
        /\ Cardinality(Ahead(pages, q, j)) # Cardinality(Ahead(pages, p, i))
    BY <1>4, <2>1, FS_Subset
  <2> QED
    BY <2>2, <2>3
<1> QED
  BY <1>4, <1>6 DEF Size

\* f is what the walk returns from every place with no more than n before it.
Scanned(pages, lo, hi, f, n) ==
  \A at \in Places(pages) : Size(pages, at) <= n => f[at] = StepFrom(pages, lo, hi, f, at)

\* A step of the walk looks at the next place only, and only if there is one.
LEMMA StepLooks ==
  ASSUME NEW pages, NEW lo, NEW hi, NEW f, NEW g, NEW p, NEW i,
         \/ i > Len(pages[p].records) /\ pages[p].right = None
         \/ f[NextPlace(pages, p, i)] = g[NextPlace(pages, p, i)]
  PROVE  StepFrom(pages, lo, hi, f, <<p, i>>) = StepFrom(pages, lo, hi, g, <<p, i>>)
<1>1. <<p, i>>[1] = p /\ <<p, i>>[2] = i
  OBVIOUS
<1>2. CASE i > Len(pages[p].records) /\ pages[p].right = None
  BY <1>1, <1>2 DEF StepFrom
<1>3. CASE i > Len(pages[p].records) /\ pages[p].right # None
  <2>1. f[<<pages[p].right, 1>>] = g[<<pages[p].right, 1>>]
    BY <1>3 DEF NextPlace
  <2> QED
    BY <1>1, <1>3, <2>1 DEF StepFrom
<1>4. CASE ~(i > Len(pages[p].records))
  <2>1. f[<<p, i + 1>>] = g[<<p, i + 1>>]
    BY <1>4 DEF NextPlace
  <2> QED
    BY <1>1, <1>4, <2>1 DEF StepFrom
<1> QED
  BY <1>2, <1>3, <1>4

LEMMA PlaceIsPair ==
  ASSUME NEW pages, NEW at \in Places(pages)
  PROVE  \E p, i : at = <<p, i>>
BY DEF Places

LEMMA ScannedMore ==
  ASSUME NEW pages, NEW root, NEW sc, NEW ht, Linked(pages, root, sc, ht),
         NEW lo, NEW hi, NEW n \in Nat, NEW f, Scanned(pages, lo, hi, f, n)
  PROVE  \E g : Scanned(pages, lo, hi, g, n + 1)
<1> DEFINE g == [at \in Places(pages) |-> StepFrom(pages, lo, hi, f, at)]
<1>0. pages \in Seq(Page)
  BY DEF Linked, Tree
<1>1. ASSUME NEW at \in Places(pages), Size(pages, at) <= n PROVE g[at] = f[at]
  BY <1>1 DEF Scanned
<1>2. ASSUME NEW at \in Places(pages) PROVE g[at] = StepFrom(pages, lo, hi, f, at)
  OBVIOUS
<1> HIDE DEF g
<1>3. ASSUME NEW at \in Places(pages), Size(pages, at) <= n + 1
      PROVE  g[at] = StepFrom(pages, lo, hi, g, at)
  <2>1. PICK p, i : at = <<p, i>>
    BY PlaceIsPair
  <2>2. \/ i > Len(pages[p].records) /\ pages[p].right = None
        \/ f[NextPlace(pages, p, i)] = g[NextPlace(pages, p, i)]
    <3> SUFFICES ASSUME i > Len(pages[p].records) => pages[p].right # None
                 PROVE  f[NextPlace(pages, p, i)] = g[NextPlace(pages, p, i)]
      OBVIOUS
    <3>1. /\ NextPlace(pages, p, i) \in Places(pages)
          /\ Size(pages, NextPlace(pages, p, i)) < Size(pages, <<p, i>>)
      BY <2>1, WalkGoesOn
    <3>2. Size(pages, NextPlace(pages, p, i)) \in Nat /\ Size(pages, at) \in Nat
      BY <1>0, AheadFinite DEF Size
    <3>3. Size(pages, NextPlace(pages, p, i)) <= n
      BY <1>3, <2>1, <3>1, <3>2
    <3> QED
      BY <1>1, <3>1, <3>3
  <2>3. StepFrom(pages, lo, hi, f, <<p, i>>) = StepFrom(pages, lo, hi, g, <<p, i>>)
    BY <2>2, StepLooks
  <2> QED
    BY <1>2, <2>1, <2>3
<1> QED
  BY <1>3 DEF Scanned

LEMMA ScannedAll ==
  ASSUME NEW pages, NEW root, NEW sc, NEW ht, Linked(pages, root, sc, ht), NEW lo, NEW hi
  PROVE  \A n \in Nat : \E f : Scanned(pages, lo, hi, f, n)
<1> DEFINE Bad == {n \in Nat : ~\E f : Scanned(pages, lo, hi, f, n)}
<1>0. pages \in Seq(Page)
  BY DEF Linked, Tree
<1>1. Bad = {}
  <2> SUFFICES ASSUME Bad # {} PROVE FALSE
    OBVIOUS
  <2>1. Bad \in SUBSET Nat
    OBVIOUS
  <2>2. PICK n \in Bad : \A e \in Bad : n <= e
    BY <2>1, LeastNumber
  <2>3. n \in Nat /\ ~\E f : Scanned(pages, lo, hi, f, n)
    OBVIOUS
  <2>4. n # 0
    <3> SUFFICES ASSUME n = 0 PROVE FALSE
      OBVIOUS
    <3>1. ASSUME NEW at \in Places(pages) PROVE ~(Size(pages, at) <= 0)
      <4>1. PICK p, i : at = <<p, i>>
        BY PlaceIsPair
      <4>2. /\ DOMAIN pages = 1 .. Len(pages) /\ IsLeaf(pages, p)
            /\ i \in 1 .. LeafCapacity + 1
        BY <1>0, <4>1, LenProperties, PlaceIs
      <4>3. <<p, i>> \in Ahead(pages, p, i)
        BY <4>2, AheadIs
      <4>4. IsFiniteSet(Ahead(pages, p, i)) /\ Cardinality(Ahead(pages, p, i)) \in Nat
        BY <1>0, AheadFinite
      <4>5. Cardinality(Ahead(pages, p, i)) # 0
        BY <4>3, <4>4, FS_EmptySet
      <4>6. Size(pages, at) = Cardinality(Ahead(pages, p, i))
        BY <4>1 DEF Size
      <4> QED
        BY <4>4, <4>5, <4>6
    <3>2. \A f : Scanned(pages, lo, hi, f, 0)
      BY <3>1 DEF Scanned
    <3> QED
      BY <2>3, <3>2
  <2>5. n - 1 \in Nat /\ (n - 1) + 1 = n /\ ~(n <= n - 1)
    BY <2>3, <2>4
  <2>6. PICK f : Scanned(pages, lo, hi, f, n - 1)
    BY <2>2, <2>5
  <2>7. \E g : Scanned(pages, lo, hi, g, (n - 1) + 1)
    <3> HIDE DEF Bad
    <3> QED
      BY <2>5, <2>6, ScannedMore
  <2> QED
    BY <2>3, <2>5, <2>7
<1> QED
  BY <1>1

LEMMA ScanExists ==
  ASSUME NEW pages, NEW root, NEW sc, NEW ht, Linked(pages, root, sc, ht), NEW lo, NEW hi
  PROVE  \E f : f = Scan(pages, lo, hi, f)
<1>0. pages \in Seq(Page)
  BY DEF Linked, Tree
<1> DEFINE n == Cardinality(Places(pages))
<1>1. n \in Nat /\ \A at \in Places(pages) : Size(pages, at) <= n
  BY <1>0, AheadFinite DEF Size
<1>2. PICK f : Scanned(pages, lo, hi, f, n)
  <2> HIDE DEF n
  <2> QED
    BY <1>1, ScannedAll
<1> DEFINE g == [at \in Places(pages) |-> f[at]]
<1>3. ASSUME NEW at \in Places(pages) PROVE g[at] = StepFrom(pages, lo, hi, g, at)
  <2>1. PICK p, i : at = <<p, i>>
    BY PlaceIsPair
  <2>2. \/ i > Len(pages[p].records) /\ pages[p].right = None
        \/ f[NextPlace(pages, p, i)] = g[NextPlace(pages, p, i)]
    <3> SUFFICES ASSUME i > Len(pages[p].records) => pages[p].right # None
                 PROVE  f[NextPlace(pages, p, i)] = g[NextPlace(pages, p, i)]
      OBVIOUS
    <3>1. NextPlace(pages, p, i) \in Places(pages)
      BY <2>1, WalkGoesOn
    <3> QED
      BY <3>1
  <2>3. StepFrom(pages, lo, hi, f, <<p, i>>) = StepFrom(pages, lo, hi, g, <<p, i>>)
    <3> HIDE DEF g
    <3> QED
      BY <2>2, StepLooks
  <2>4. f[at] = StepFrom(pages, lo, hi, f, at)
    BY <1>1, <1>2 DEF Scanned
  <2> QED
    BY <2>1, <2>3, <2>4
<1>4. g = [at \in Places(pages) |-> g[at]]
  OBVIOUS
<1> HIDE DEF g
<1>5. g = Scan(pages, lo, hi, g)
  BY <1>3, <1>4 DEF Scan
<1> QED
  BY <1>5

-----------------------------------------------------------------------------
(* The entries a walk has before it, and those of the range among them. *)

InRest(pages, p, i, e) ==
  \/ \E j \in i .. Len(pages[p].records) : pages[p].records[j] = e
  \/ \E r : IsLeaf(pages, r) /\ Before(pages, p, r) /\ Has(pages[r].records, e)

Rest(pages, lo, hi, p, i) ==
  {e \in EntriesOf(pages) : lo <= e.key /\ e.key <= hi /\ InRest(pages, p, i, e)}

LEMMA RestIs ==
  ASSUME NEW pages, NEW root, NEW sc, NEW ht, Linked(pages, root, sc, ht),
         NEW p, IsLeaf(pages, p), NEW i \in Nat \ {0}, NEW e, InRest(pages, p, i, e)
  PROVE  /\ e \in EntriesOf(pages) /\ e \in Entry /\ e.key \in Int
<1>1. pages \in Seq(Page)
  BY DEF Linked, Tree
<1>2. PICK r, j : /\ IsLeaf(pages, r) /\ j \in 1 .. Len(pages[r].records)
                  /\ pages[r].records[j] = e
  <2>1. CASE \E j \in i .. Len(pages[p].records) : pages[p].records[j] = e
    <3>1. PICK j \in i .. Len(pages[p].records) : pages[p].records[j] = e
      BY <2>1
    <3>2. Len(pages[p].records) \in Nat
      BY LeafIs
    <3>3. j \in 1 .. Len(pages[p].records)
      BY <3>2
    <3> QED
      BY <3>1, <3>3
  <2>2. CASE \E r : IsLeaf(pages, r) /\ Before(pages, p, r) /\ Has(pages[r].records, e)
    BY <2>2 DEF Has
  <2> QED
    BY <2>1, <2>2 DEF InRest
<1>3. e \in Entry /\ e.key \in Int
  BY <1>2, LeafIs
<1>4. HasLeaf(pages, e)
  BY <1>2 DEF HasLeaf, Has, IsLeaf
<1> QED
  BY <1>1, <1>3, <1>4, EntriesAre

\* Two places with the same entries before them.
LEMMA SameRest ==
  ASSUME NEW pages, NEW lo, NEW hi, NEW p, NEW i, NEW q, NEW j,
         \A e \in EntriesOf(pages) : lo <= e.key /\ e.key <= hi =>
           (InRest(pages, p, i, e) <=> InRest(pages, q, j, e))
  PROVE  Rest(pages, lo, hi, p, i) = Rest(pages, lo, hi, q, j)
BY DEF Rest

\* Nothing comes after the last leaf.
LEMMA RestEnds ==
  ASSUME NEW pages, NEW root, NEW sc, NEW ht, Linked(pages, root, sc, ht), NEW lo, NEW hi,
         NEW p, NEW i \in Nat \ {0}, IsLeaf(pages, p), i > Len(pages[p].records),
         pages[p].right = None
  PROVE  Rest(pages, lo, hi, p, i) = {}
<1>1. Len(pages[p].records) \in Nat /\ LinkFits(pages, p)
  BY LeafIs
<1>2. \A j \in i .. Len(pages[p].records) : FALSE
  BY <1>1
<1>3. \A r : IsLeaf(pages, r) => ~Before(pages, p, r)
  BY <1>1 DEF LinkFits
<1>4. \A e : ~InRest(pages, p, i, e)
  BY <1>2, <1>3 DEF InRest
<1> QED
  BY <1>4 DEF Rest

\* The first place of the next leaf has the same entries before it as the end of a leaf.
LEMMA RestOfNext ==
  ASSUME NEW pages, NEW root, NEW sc, NEW ht, Linked(pages, root, sc, ht), NEW lo, NEW hi,
         NEW p, NEW i \in Nat \ {0}, IsLeaf(pages, p), i > Len(pages[p].records),
         NEW q, pages[p].right = q, q # None
  PROVE  Rest(pages, lo, hi, p, i) = Rest(pages, lo, hi, q, 1)
<1>1. Len(pages[p].records) \in Nat /\ LinkFits(pages, p)
  BY LeafIs
<1>2. \A j \in i .. Len(pages[p].records) : FALSE
  BY <1>1
<1>3. /\ IsLeaf(pages, q) /\ Before(pages, p, q)
      /\ \A r : IsLeaf(pages, r) => ~(Before(pages, p, r) /\ Before(pages, r, q))
  BY <1>1 DEF LinkFits
<1>4. Blocks(pages)
  BY LeavesAreBlocks DEF Linked
<1>5. ASSUME NEW r, IsLeaf(pages, r), KeysOf(pages[r]) # {}
      PROVE  Before(pages, p, r) <=> r = q \/ Before(pages, q, r)
  <2>1. ASSUME Before(pages, p, r), r # q PROVE Before(pages, q, r)
    <3>1. KeysOf(pages[q]) # {}
      BY <1>3 DEF Before
    <3>2. Before(pages, q, r) \/ Before(pages, r, q)
      BY <1>3, <1>4, <1>5, <2>1, <3>1, BlockOrder
    <3> QED
      BY <1>3, <1>5, <2>1, <3>2
  <2>2. ASSUME Before(pages, q, r) PROVE Before(pages, p, r)
    BY <1>3, <1>4, <1>5, <2>2, BeforeAll
  <2> QED
    BY <1>3, <2>1, <2>2
<1>6. ASSUME NEW e PROVE InRest(pages, p, i, e) <=> InRest(pages, q, 1, e)
  <2>1. \A r : IsLeaf(pages, r) /\ Has(pages[r].records, e) => KeysOf(pages[r]) # {}
    BY DEF Has, KeysOf
  <2>2. Has(pages[q].records, e) <=> \E j \in 1 .. Len(pages[q].records) : pages[q].records[j] = e
    BY DEF Has
  <2> QED
    BY <1>2, <1>3, <1>5, <2>1, <2>2 DEF InRest
<1> QED
  BY <1>6, SameRest

\* All entries behind a slot have larger keys.
LEMMA RestOfSlot ==
  ASSUME NEW pages, NEW root, NEW sc, NEW ht, Linked(pages, root, sc, ht),
         NEW p, IsLeaf(pages, p), NEW i \in 1 .. Len(pages[p].records), NEW e
  PROVE  /\ InRest(pages, p, i, e) <=> e = pages[p].records[i] \/ InRest(pages, p, i + 1, e)
         /\ InRest(pages, p, i + 1, e) => pages[p].records[i].key < e.key
<1> DEFINE records == pages[p].records
<1>1. /\ Len(records) \in Nat /\ Ordered(records, Len(records))
      /\ records[i].key \in KeysOf(pages[p])
  BY LeafIs
<1>2. Blocks(pages)
  BY LeavesAreBlocks DEF Linked
<1>3. i .. Len(records) = {i} \cup (i + 1 .. Len(records))
  BY <1>1
<1>4. InRest(pages, p, i, e) <=> e = records[i] \/ InRest(pages, p, i + 1, e)
  BY <1>3 DEF InRest
<1>5. ASSUME NEW j \in i + 1 .. Len(records), records[j] = e PROVE records[i].key < e.key
  <2>1. j \in 1 .. Len(records) /\ i < j
    BY <1>1
  <2> QED
    BY <1>1, <1>5, <2>1 DEF Ordered
<1>6. ASSUME NEW r, IsLeaf(pages, r), Before(pages, p, r), Has(pages[r].records, e)
      PROVE  records[i].key < e.key
  <2>1. e.key \in KeysOf(pages[r])
    BY <1>6 DEF Has, KeysOf
  <2> QED
    BY <1>1, <1>2, <1>6, <2>1 DEF Blocks
<1> QED
  BY <1>4, <1>5, <1>6 DEF InRest

\* What is before a place is what its slot has and what is before the next place.
LEMMA RestStep ==
  ASSUME NEW pages, NEW root, NEW sc, NEW ht, Linked(pages, root, sc, ht),
         NEW lo \in Int, NEW hi \in Int,
         NEW p, IsLeaf(pages, p), NEW i \in 1 .. Len(pages[p].records)
  PROVE  LET e == pages[p].records[i] IN
         /\ e \in Entry /\ e.key \in Int
         /\ e.key > hi => Rest(pages, lo, hi, p, i) = {}
         /\ e.key < lo => Rest(pages, lo, hi, p, i) = Rest(pages, lo, hi, p, i + 1)
         /\ lo <= e.key /\ e.key <= hi =>
              Rest(pages, lo, hi, p, i) = Rest(pages, lo, hi, p, i + 1) \cup {e}
         /\ \A x \in Rest(pages, lo, hi, p, i + 1) : e.key < x.key
<1> DEFINE e == pages[p].records[i]
<1>1. Len(pages[p].records) \in Nat /\ i \in Nat \ {0} /\ i + 1 \in Nat \ {0} /\ e \in Entry /\ e.key \in Int
  BY LeafIs
<1>2. ASSUME NEW x
      PROVE  /\ InRest(pages, p, i, x) <=> x = e \/ InRest(pages, p, i + 1, x)
             /\ InRest(pages, p, i + 1, x) => e.key < x.key
  BY RestOfSlot
<1> HIDE DEF e
<1>3. ASSUME NEW x, InRest(pages, p, i, x) PROVE x \in EntriesOf(pages) /\ x.key \in Int
  BY <1>1, <1>3, RestIs
<1>4. ASSUME e.key > hi PROVE Rest(pages, lo, hi, p, i) = {}
  <2>1. ASSUME NEW x \in Rest(pages, lo, hi, p, i) PROVE FALSE
    <3>1. InRest(pages, p, i, x) /\ x.key <= hi
      BY DEF Rest
    <3>2. x.key \in Int /\ (x = e \/ e.key < x.key)
      BY <1>2, <1>3, <3>1
    <3>3. x # e
      BY <1>1, <1>4, <3>1
    <3> QED
      BY <1>1, <1>4, <3>1, <3>2, <3>3
  <2> QED
    BY <2>1
<1>5. ASSUME e.key < lo PROVE Rest(pages, lo, hi, p, i) = Rest(pages, lo, hi, p, i + 1)
  <2>1. ASSUME NEW x \in EntriesOf(pages), lo <= x.key, x.key <= hi
        PROVE  InRest(pages, p, i, x) <=> InRest(pages, p, i + 1, x)
    <3>1. x # e
      BY <1>1, <1>5, <2>1
    <3> QED
      BY <1>2, <3>1
  <2> QED
    BY <2>1, SameRest
<1>6. ASSUME lo <= e.key, e.key <= hi
      PROVE  Rest(pages, lo, hi, p, i) = Rest(pages, lo, hi, p, i + 1) \cup {e}
  <2>1. InRest(pages, p, i, e) /\ e \in EntriesOf(pages)
    BY <1>2, <1>3
  <2>2. ASSUME NEW x
        PROVE  x \in Rest(pages, lo, hi, p, i) <=> x \in Rest(pages, lo, hi, p, i + 1) \/ x = e
    BY <1>2, <1>6, <2>1 DEF Rest
  <2> QED
    BY <2>2
<1>7. \A x \in Rest(pages, lo, hi, p, i + 1) : e.key < x.key
  BY <1>2 DEF Rest
<1> QED
  BY <1>1, <1>4, <1>5, <1>6, <1>7 DEF e

\* The walk from a place lists the entries of the range before it.
LEMMA WalkLists ==
  ASSUME NEW pages, NEW root, NEW sc, NEW ht, Linked(pages, root, sc, ht),
         NEW lo \in Int, NEW hi \in Int, NEW f, f = Scan(pages, lo, hi, f)
  PROVE  \A p, i : <<p, i>> \in Places(pages) => Lists(f[<<p, i>>], Rest(pages, lo, hi, p, i))
<1> DEFINE Good(p, i) == Lists(f[<<p, i>>], Rest(pages, lo, hi, p, i))
           Bad == {n \in Nat : \E p, i : <<p, i>> \in Places(pages) /\ Size(pages, <<p, i>>) = n /\ ~Good(p, i)}
<1>0. pages \in Seq(Page) /\ DOMAIN pages = 1 .. Len(pages)
  BY LenProperties DEF Linked, Tree
<1>1. ASSUME NEW at \in Places(pages) PROVE f[at] = StepFrom(pages, lo, hi, f, at)
  BY Zenon DEF Scan
<1>2. ASSUME NEW p, NEW i, <<p, i>> \in Places(pages),
             i > Len(pages[p].records) => pages[p].right # None,
             \A q, j : NextPlace(pages, p, i) = <<q, j>> => Good(q, j)
      PROVE  Good(p, i)
  <2> DEFINE page == pages[p]
             e == page.records[i]
  <2>1. IsLeaf(pages, p) /\ i \in 1 .. LeafCapacity + 1
    BY <1>0, <1>2, PlaceIs
  <2>2. LeafCapacity \in Nat /\ Len(page.records) \in Nat /\ i \in Nat \ {0}
    BY <2>1, LeafIs
  <2>3. f[<<p, i>>] = StepFrom(pages, lo, hi, f, <<p, i>>)
    BY <1>1, <1>2
  <2>4. CASE i > Len(page.records)
    <3>1. PICK q : q = page.right
      OBVIOUS
    <3>2. q # None /\ NextPlace(pages, p, i) = <<q, 1>>
      BY <1>2, <2>4, <3>1 DEF NextPlace
    <3>3. f[<<p, i>>] = f[<<q, 1>>]
      BY <2>3, <2>4, <3>1, <3>2 DEF StepFrom
    <3>4. Rest(pages, lo, hi, p, i) = Rest(pages, lo, hi, q, 1)
      BY <2>1, <2>2, <2>4, <3>1, <3>2, RestOfNext
    <3>5. Good(q, 1)
      BY <1>2, <3>2
    <3> QED
      BY <3>3, <3>4, <3>5
  <2>5. CASE ~(i > Len(page.records))
    <3>1. i \in 1 .. Len(page.records)
      BY <2>2, <2>5
    <3>2. /\ e \in Entry /\ e.key \in Int
          /\ e.key > hi => Rest(pages, lo, hi, p, i) = {}
          /\ e.key < lo => Rest(pages, lo, hi, p, i) = Rest(pages, lo, hi, p, i + 1)
          /\ lo <= e.key /\ e.key <= hi =>
               Rest(pages, lo, hi, p, i) = Rest(pages, lo, hi, p, i + 1) \cup {e}
          /\ \A x \in Rest(pages, lo, hi, p, i + 1) : e.key < x.key
      BY <2>1, <3>1, RestStep
    <3>3. Lists(f[<<p, i + 1>>], Rest(pages, lo, hi, p, i + 1))
      <4>1. NextPlace(pages, p, i) = <<p, i + 1>>
        BY <2>5 DEF NextPlace
      <4> QED
        BY <1>2, <4>1
    <3>4. f[<<p, i>>] = IF e.key > hi THEN <<>>
                        ELSE IF e.key >= lo THEN <<e.value>> \o f[<<p, i + 1>>]
                        ELSE f[<<p, i + 1>>]
      BY <2>3, <2>5 DEF StepFrom
    <3> HIDE DEF e
    <3>5. CASE e.key > hi
      BY <3>2, <3>4, <3>5, ListsNone
    <3>6. CASE ~(e.key > hi) /\ ~(e.key >= lo)
      <4>1. e.key < lo
        BY <3>2, <3>6
      <4> QED
        BY <3>2, <3>3, <3>4, <3>6, <4>1
    <3>7. CASE ~(e.key > hi) /\ e.key >= lo
      <4>1. lo <= e.key /\ e.key <= hi
        BY <3>2, <3>7
      <4>2. Rest(pages, lo, hi, p, i) = Rest(pages, lo, hi, p, i + 1) \cup {e}
        BY <3>2, <4>1
      <4>3. Lists(<<e.value>> \o f[<<p, i + 1>>], Rest(pages, lo, hi, p, i + 1) \cup {e})
        BY <3>2, <3>3, ListsMore
      <4>4. f[<<p, i>>] = <<e.value>> \o f[<<p, i + 1>>]
        BY <3>4, <3>7
      <4> QED
        BY <4>2, <4>3, <4>4
    <3> QED
      BY <3>5, <3>6, <3>7
  <2> QED
    BY <2>4, <2>5
<1>3. ASSUME NEW p, NEW i, <<p, i>> \in Places(pages),
             i > Len(pages[p].records), pages[p].right = None
      PROVE  Good(p, i)
  <2>1. IsLeaf(pages, p) /\ i \in 1 .. LeafCapacity + 1
    BY <1>0, <1>3, PlaceIs
  <2>2. i \in Nat \ {0}
    BY <2>1
  <2>3. Rest(pages, lo, hi, p, i) = {}
    BY <1>3, <2>1, <2>2, RestEnds
  <2>4. f[<<p, i>>] = <<>>
    <3>1. f[<<p, i>>] = StepFrom(pages, lo, hi, f, <<p, i>>)
      BY <1>1, <1>3
    <3> QED
      BY <1>3, <3>1 DEF StepFrom
  <2> QED
    BY <2>3, <2>4, ListsNone
<1> HIDE DEF Good
<1>4. Bad = {}
  <2> SUFFICES ASSUME Bad # {} PROVE FALSE
    OBVIOUS
  <2>1. Bad \in SUBSET Nat
    OBVIOUS
  <2>2. PICK n \in Bad : \A k \in Bad : n <= k
    BY <2>1, LeastNumber
  <2>3. PICK p, i : <<p, i>> \in Places(pages) /\ Size(pages, <<p, i>>) = n /\ ~Good(p, i)
    BY <2>2
  <2>4. i > Len(pages[p].records) => pages[p].right # None
    BY <1>3, <2>3
  <2>5. PICK q, j : NextPlace(pages, p, i) = <<q, j>> /\ ~Good(q, j)
    BY <1>2, <2>3, <2>4
  <2>6. /\ <<q, j>> \in Places(pages)
        /\ Size(pages, <<q, j>>) < Size(pages, <<p, i>>)
    <3> HIDE DEF Bad
    <3>1. /\ NextPlace(pages, p, i) \in Places(pages)
          /\ Size(pages, NextPlace(pages, p, i)) < Size(pages, <<p, i>>)
      BY <2>3, <2>4, WalkGoesOn
    <3> QED
      BY <2>5, <3>1
  <2>7. Size(pages, <<q, j>>) \in Nat /\ n \in Nat
    <3>1. Size(pages, <<q, j>>) = Cardinality(Ahead(pages, q, j))
      BY DEF Size
    <3> QED
      BY <1>0, <3>1, AheadFinite
  <2>8. Size(pages, <<q, j>>) \in Bad
    BY <2>5, <2>6, <2>7
  <2>9. n <= Size(pages, <<q, j>>)
    BY <2>2, <2>8
  <2> HIDE DEF Bad
  <2> QED
    BY <2>3, <2>6, <2>7, <2>9
<1>5. ASSUME NEW p, NEW i, <<p, i>> \in Places(pages) PROVE Good(p, i)
  <2>1. Size(pages, <<p, i>>) \in Nat
    <3>1. Size(pages, <<p, i>>) = Cardinality(Ahead(pages, p, i))
      BY DEF Size
    <3> QED
      BY <1>0, <3>1, AheadFinite
  <2> QED
    BY <1>4, <1>5, <2>1
<1> QED
  BY <1>5 DEF Good

\* The walk begins at the slot of the lower bound in the leaf the bound belongs to:
\* all entries of the range are before it.
LEMMA RestOfFirst ==
  ASSUME NEW sc, NEW ht, Linked(buffer, root_page, sc, ht), NEW lo \in Int, NEW hi \in Int,
         NEW p, p = LookupLeaf(lo), NEW i, i = Slot(buffer[p].records, lo)
  PROVE  /\ <<p, i>> \in Places(buffer)
         /\ Rest(buffer, lo, hi, p, i) = {e \in EntriesOf(buffer) : lo <= e.key /\ e.key <= hi}
<1>1. Tree(buffer, root_page, sc, ht) /\ buffer \in Seq(Page) /\ DOMAIN buffer = 1 .. Len(buffer)
  BY LenProperties DEF Linked, Tree
<1>2. IsLeaf(buffer, p) /\ lo \in sc[p]
  BY <1>1, LookupLeafIs DEF IsLeaf
<1>3. /\ buffer[p].records \in Seq(Entry) /\ Len(buffer[p].records) \in 0 .. LeafCapacity
      /\ LeafCapacity \in Nat /\ Ordered(buffer[p].records, Len(buffer[p].records))
  BY <1>2, LeafIs
<1>4. /\ i \in 1 .. Len(buffer[p].records) + 1
      /\ \A j \in 1 .. Len(buffer[p].records) : buffer[p].records[j].key < lo <=> j < i
  BY <1>3, SlotIs
<1>5. <<p, i>> \in Places(buffer)
  <2>1. i \in 1 .. LeafCapacity + 1
    BY <1>3, <1>4
  <2> QED
    BY <1>1, <1>2, <2>1, PlaceIs
<1>6. ASSUME NEW e \in EntriesOf(buffer), lo <= e.key PROVE InRest(buffer, p, i, e)
  <2>1. PICK r \in 1 .. Len(buffer) : buffer[r].leaf /\ Has(buffer[r].records, e)
    BY <1>1, EntriesAre DEF HasLeaf
  <2>2. IsLeaf(buffer, r)
    BY <2>1 DEF IsLeaf
  <2>3. PICK j \in 1 .. Len(buffer[r].records) : buffer[r].records[j] = e
    BY <2>1 DEF Has
  <2>4. e.key \in KeysOf(buffer[r]) /\ e.key \in Int
    BY <2>2, <2>3, LeafIs
  <2>5. CASE r = p
    <3>1. j \in 1 .. Len(buffer[p].records) /\ buffer[p].records[j] = e
      BY <2>3, <2>5
    <3>2. ~(e.key < lo)
      BY <1>6, <2>4
    <3>3. ~(j < i)
      BY <1>4, <3>1, <3>2
    <3>4. j \in i .. Len(buffer[p].records)
      BY <1>3, <1>4, <3>1, <3>3
    <3> QED
      BY <3>1, <3>4 DEF InRest
  <2>6. CASE r # p
    <3>1. KeysOf(buffer[p]) # {}
      BY <1>2, <2>2, <2>6 DEF Linked, Chain, Filled
    <3>2. PICK x \in KeysOf(buffer[p]) : TRUE
      BY <3>1
    <3>3. x \in sc[p] /\ e.key \in sc[r]
      BY <1>1, <1>2, <2>2, <2>4, <3>2, LeafKeys
    <3>4. lo # e.key /\ (lo < e.key <=> x < e.key)
      BY <1>1, <1>2, <2>2, <2>6, <3>3, OneSide
    <3>5. x < e.key
      BY <1>6, <2>4, <3>4
    <3>6. Before(buffer, p, r)
      BY <2>4, <2>6, <3>2, <3>5 DEF Before
    <3> QED
      BY <2>1, <2>2, <3>6 DEF InRest
  <2> QED
    BY <2>5, <2>6
<1>7. Rest(buffer, lo, hi, p, i) = {e \in EntriesOf(buffer) : lo <= e.key /\ e.key <= hi}
  BY <1>6 DEF Rest
<1> QED
  BY <1>5, <1>7

LEMMA RangesFind ==
  ASSUME IInv, Chain(buffer), call = Idle, NEW lo \in Key, NEW hi \in Key
  PROVE  LET hits  == {e \in Entries : lo <= e.key /\ e.key <= hi}
             found == RangeLookup(lo, hi)
         IN  /\ Len(found) = Cardinality(hits)
             /\ \A e \in hits :
                  found[Cardinality({f \in hits : f.key <= e.key})] = e.value
<1> DEFINE hits == {e \in Entries : lo <= e.key /\ e.key <= hi}
           found == RangeLookup(lo, hi)
<1>1. PICK sc, ht : PagesFit(buffer) /\ Tree(buffer, root_page, sc, ht)
  BY IdleIs, DownIs DEF IInv
<1>2. Linked(buffer, root_page, sc, ht)
  BY <1>1 DEF Linked
<1>3. lo \in Int /\ hi \in Int
  BY KeysAreNumbers
<1>4. \E f : f = Scan(buffer, lo, hi, f)
  BY <1>2, ScanExists
<1>5. PICK p, i : p = LookupLeaf(lo) /\ i = Slot(buffer[p].records, lo)
  OBVIOUS
<1>6. PICK f : f = Scan(buffer, lo, hi, f) /\ found = f[<<p, i>>]
  BY <1>4, <1>5, ScanIs
<1>7. /\ <<p, i>> \in Places(buffer)
      /\ Rest(buffer, lo, hi, p, i) = {e \in EntriesOf(buffer) : lo <= e.key /\ e.key <= hi}
  BY <1>2, <1>3, <1>5, RestOfFirst
<1>8. Lists(f[<<p, i>>], Rest(buffer, lo, hi, p, i))
  BY <1>2, <1>3, <1>6, <1>7, WalkLists
<1>9. Entries = EntriesOf(buffer)
  BY DEF Entries, EntriesOf, LeafIds, PageId
<1>10. Rest(buffer, lo, hi, p, i) = hits
  BY <1>7, <1>9
<1>11. Lists(found, hits)
  BY <1>6, <1>8, <1>10
<1> HIDE DEF hits, found
<1>12. /\ Len(found) = Cardinality(hits)
       /\ \A e \in hits : found[Cardinality({x \in hits : x.key <= e.key})] = e.value
  BY <1>11, ListsInOrder
<1> QED
  BY <1>12 DEF hits, found

\* Between inserts a range lookup returns the records of all keys in the range,
\* in the order of the keys and each once, whatever splits have made of the
\* chain of leaves (btree.rs:95).
THEOREM RangesExact == Spec => []RangeExact
<1>1. Init => IInv /\ Chain(buffer)
  BY FirstLeaf, FirstChain
<1>2. IInv /\ Chain(buffer) /\ [Next]_vars => IInv' /\ Chain(buffer)'
  BY StepKeeps, ChainStep
<1>3. IInv /\ Chain(buffer) => RangeExact
  BY RangesFind DEF RangeExact
<1> QED
  BY <1>1, <1>2, <1>3, PTL DEF Spec

=============================================================================
