----------------------------- MODULE BitmapIndexes -----------------------------
(***************************************************************************)
(* The three bitmap indexes of distributed-operators (src/index) and the   *)
(* iterator over the rows a lookup finds.                                  *)
(*                                                                         *)
(* A bitmap is the set of its ones: bit b of byte p is row 8 * p + b, both *)
(* where an index sets it and where the iterator reads it.  Rows, digits   *)
(* and keys are numbers from 0; a column is a sequence of keys, row r the  *)
(* element r + 1.                                                          *)
(***************************************************************************)
EXTENDS Naturals, Sequences, FiniteSets, FiniteSetsExt, SequencesExt

CONSTANTS
  IndexedColumn, \* the columns that are tried
  MaxKey,        \* bound: keys of columns and lookups
  Base           \* of the decomposed index

ASSUME KeyBoundAssumption == MaxKey \in Nat
ASSUME BaseAssumption == Base \in Nat \ {0, 1}
ASSUME ColumnAssumption == IndexedColumn \subseteq Seq(0 .. MaxKey) \ {<<>>}

VARIABLES
  column,   \* the key column
  index,    \* the three indexes of it
  found,    \* what is left of the bitmap of the last lookup, its bounds and who answered it
  row_ids   \* rows its iterator has returned

bitmaps == <<column, index, found, row_ids>>

Rows == 0 .. Len(column) - 1
KeyOf(r) == column[r + 1]
Keys == {KeyOf(r) : r \in Rows}

\* All bits, those behind the last row included.
Bits == 0 .. 8 * ((Len(column) + 7) \div 8) - 1

(***************************************************************************)
(* One bitmap per key; a lookup is the union of those in the range.        *)
(***************************************************************************)
NewNaive == [k \in Keys |-> {r \in Rows : KeyOf(r) = k}]

InRange(map, start, end) == {k \in DOMAIN map : start <= k /\ k <= end}

NaiveLookup(map, start, end) == UNION {map[k] : k \in InRange(map, start, end)}

(***************************************************************************)
(* A row is in the bitmaps of all keys up to its own.  A lookup takes the  *)
(* bitmap of the first key in the range without that of the first key      *)
(* behind it; it panics when one of them is missing.                       *)
(***************************************************************************)
NewRangeEncoded == [k \in Keys |-> {r \in Rows : k <= KeyOf(r)}]

\* Fault: an entry of the end key itself is not passed over.
Behind_AtEnd(map, end) == {k \in DOMAIN map : k >= end}

Behind(map, end) == {k \in DOMAIN map : k > end}

RangeEncodedAnswers(map, start, end) == InRange(map, start, end) # {} /\ Behind(map, end) # {}

RangeEncodedLookup(map, start, end) ==
  map[Min(InRange(map, start, end))] \cap (Bits \ map[Min(Behind(map, end))])

(***************************************************************************)
(* One bitmap per digit and value of the digit.  A lookup goes from the    *)
(* most significant digit down; its mask has the rows that agree with the  *)
(* bound so far.  The index has as many digits as the largest key, and of  *)
(* a bound that has more it looks at the lowest ones alone.                *)
(***************************************************************************)
\* What i divisions by the base leave of n.
Rest[i \in 0 .. MaxKey + 1] ==
  [n \in 0 .. MaxKey |-> IF i = 0 THEN n ELSE Rest[i - 1][n] \div Base]

NumDigits(n) == Min({d \in 1 .. MaxKey + 1 : Rest[d][n] = 0})
Digit(n, i) == Rest[i][n] % Base

NewDecomposed ==
  [i \in 0 .. NumDigits(Max(Keys)) - 1 |->
    [d \in 0 .. Base - 1 |-> {r \in Rows : Digit(KeyOf(r), i) = d}]]

\* Rows that have the digits of n from digit i on.
Mask(vecs, n, i) ==
  {r \in Bits : \A j \in DOMAIN vecs : j >= i => r \in vecs[j][Digit(n, j)]}

\* Rows that agree with n down to a digit and have one of these values there.
Deciding(vecs, n, values) ==
  UNION {Mask(vecs, n, i + 1) \cap UNION {vecs[i][d] : d \in values[Digit(n, i)]} :
           i \in DOMAIN vecs}

DecomposedLookup(vecs, start, end) ==
  (Deciding(vecs, start, [d \in 0 .. Base - 1 |-> d + 1 .. Base - 1]) \cup Mask(vecs, start, 0)) \cap
  (Deciding(vecs, end, [d \in 0 .. Base - 1 |-> 0 .. d - 1]) \cup Mask(vecs, end, 0))

-----------------------------------------------------------------------------

NoLookup == [by |-> "none", bits |-> {}, start |-> 1, end |-> 0]

BitmapInit ==
  /\ column \in IndexedColumn
  /\ index = [naive |-> NewNaive, ranges |-> NewRangeEncoded, digits |-> NewDecomposed]
  /\ found = NoLookup
  /\ row_ids = <<>>

Lookup(by, bits, start, end) ==
  /\ found' = [by |-> by, bits |-> bits, start |-> start, end |-> end]
  /\ row_ids' = <<>>
  /\ UNCHANGED <<column, index>>

\* A lookup borrows its index, so that one that panicked can be followed by others.
RangeLookup ==
  \E start, end \in 0 .. MaxKey :
    \/ Lookup("naive", NaiveLookup(index.naive, start, end), start, end)
    \/ /\ RangeEncodedAnswers(index.ranges, start, end)
       /\ Lookup("ranges", RangeEncodedLookup(index.ranges, start, end), start, end)
    \/ /\ ~RangeEncodedAnswers(index.ranges, start, end)
       /\ Lookup("panic", {}, start, end)
    \/ Lookup("digits", DecomposedLookup(index.digits, start, end), start, end)

\* next() of the iterator: the lowest bit that is left.
NextRowID ==
  /\ found.bits # {}
  /\ row_ids' = Append(row_ids, Min(found.bits))
  /\ found' = [found EXCEPT !.bits = @ \ {Min(@)}]
  /\ UNCHANGED <<column, index>>

BitmapNext == RangeLookup \/ NextRowID

-----------------------------------------------------------------------------

\* Numbers with more digits than the largest key.
TooLong == {n \in 0 .. MaxKey : Rest[NumDigits(Max(Keys))][n] # 0}

\* What the decomposed index looks up for n: the lowest digits, as many as the largest key has.
Cut(n) == IF TooLong = {} THEN n ELSE n % Min(TooLong)

RowsBetween(start, end) == {r \in Rows : start <= KeyOf(r) /\ KeyOf(r) <= end}

\* The rows that the last lookup owes.
Wanted ==
  IF found.by = "digits" THEN RowsBetween(Cut(found.start), Cut(found.end))
                         ELSE RowsBetween(found.start, found.end)

(***************************************************************************)
(* What the three indexes find.  The naive one finds the rows whose key is *)
(* in the range.  The range-encoded one finds the same, and panics only    *)
(* when no key is in the range or none is behind it.  The decomposed one   *)
(* finds the rows between the bounds cut to the digits of its largest key: *)
(* the same again when that takes no digit away, and others when it does,  *)
(* so that the three are not interchangeable (README.md:12) outside the    *)
(* keys of the column.  Of each of the three the iterator returns every    *)
(* row once, in ascending order, and nothing behind the last row.          *)
(***************************************************************************)
LookupsAgree ==
  /\ IF found.by = "panic"
     THEN \/ RowsBetween(found.start, found.end) = {}
          \/ \A r \in Rows : KeyOf(r) <= found.end
     ELSE ToSet(row_ids) \cup found.bits = Wanted
  /\ \A i, j \in DOMAIN row_ids : i < j => row_ids[i] < row_ids[j]
  /\ \A i \in DOMAIN row_ids, r \in found.bits : row_ids[i] < r

=============================================================================
