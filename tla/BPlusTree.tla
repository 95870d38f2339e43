------------------------------ MODULE BPlusTree ------------------------------
(***************************************************************************)
(* The unique B+-tree of index-and-operators/src/index/btree.rs: inserts   *)
(* with splits of leaves, inner pages and the root, and the two lookups.   *)
(*                                                                         *)
(* insert is one call on &mut self.  Its recursion is unfolded here into   *)
(* steps: call.path holds the pages of the activations from the root down, *)
(* a step descends, changes the leaf, or returns to the page above with    *)
(* the (key, page) pair that a split promotes.  Lookups borrow the tree,   *)
(* so they see it between inserts only.                                    *)
(*                                                                         *)
(* Pages and slots count from 1, as sequences do.  records holds the first *)
(* `length' slots of a page; slots behind it are never read.  The left     *)
(* link of a leaf, which nothing reads, is left out.                       *)
(***************************************************************************)
EXTENDS Integers, Sequences, FiniteSets, SequencesExt

CONSTANTS
  Key,            \* the keys that are inserted and looked up
  Rid,            \* record identifiers
  NoRid,          \* None
  Request,        \* the inserts clients may ask for: pairs of a key and a Rid
  LeafCapacity,   \* LeafPage::CAPACITY
  InnerCapacity   \* InnerPage::CAPACITY, counted in children

\* split_leaf copies one half into the slots of the other: the halves of a full
\* leaf are equal.  split_inner leaves the new page a child: it needs three.
CapacityAssumption ==
  /\ LeafCapacity \in Nat \ {0} /\ LeafCapacity % 2 = 0
  /\ InnerCapacity \in Nat /\ InnerCapacity >= 3

ASSUME Capacities == CapacityAssumption

ASSUME KeyAssumption ==
  Key \subseteq Int /\ NoRid \notin Rid /\ Request \subseteq Key \X Rid

VARIABLES
  buffer,      \* Vec<Page>
  root_page,
  call         \* the insert going on

vars == <<buffer, root_page, call>>

-----------------------------------------------------------------------------
(* Pages *)

None == 0                 \* no page
DefaultKey == 0           \* the key of a slot nothing was written to

Leaf(records, right) == [leaf |-> TRUE, records |-> records, right |-> right]
Inner(records) == [leaf |-> FALSE, records |-> records, right |-> None]
Record(key, value) == [key |-> key, value |-> value]

PageId == DOMAIN buffer
LeafIds == {p \in PageId : buffer[p].leaf}
NewId == Len(buffer) + 1

\* Fault: a page counts as full one record too late.
IsFull_Late(page) ==
  Len(page.records) > IF page.leaf THEN LeafCapacity ELSE InnerCapacity

IsFull(page) ==
  Len(page.records) = IF page.leaf THEN LeafCapacity ELSE InnerCapacity

\* Fault: a key that equals the lower bound of a child goes to the one before it.
Child_Strict(records, key) ==
  1 + Cardinality({i \in 1 .. Len(records) - 1 : records[i].key < key})

\* partition_point over all slots but the last one, whose key is dead: the slot
\* of the child a key belongs to.
Child(records, key) ==
  1 + Cardinality({i \in 1 .. Len(records) - 1 : records[i].key <= key})

\* binary_search_by_key: the slot a key has, or would have.
Slot(records, key) ==
  1 + Cardinality({i \in DOMAIN records : records[i].key < key})

\* Fault: the last slot is skipped, as it is in an inner page.
Found_NotLast(records, key) == \E i \in 1 .. Len(records) - 1 : records[i].key = key

Found(records, key) == \E i \in DOMAIN records : records[i].key = key

\* The new child goes behind the child that was split; the new key between them.
WithChild(records, key, child) ==
  LET i == Child(records, key)
  IN  SubSeq(records, 1, i - 1)
        \o <<Record(key, records[i].value), Record(records[i].key, child)>>
        \o SubSeq(records, i + 1, Len(records))

\* The two halves of a full leaf, with the new record in the one it belongs to.
LeafHalves(records, new) ==
  LET split == Len(records) \div 2
      i     == Slot(records, new.key)
      low   == SubSeq(records, 1, split)
      high  == SubSeq(records, split + 1, Len(records))
  IN  IF i <= split
        THEN <<InsertAt(low, i, new), high>>
        ELSE <<low, InsertAt(high, i - split, new)>>

\* The two halves of a full inner page and the key between them, which stays in
\* the dead slot of the lower half.
InnerHalves(records, key, child) ==
  LET m        == Len(records) \div 2 + 1
      promoted == records[m].key
      low      == SubSeq(records, 1, m)
      high     == SubSeq(records, m + 1, Len(records))
  IN  [promoted |-> promoted,
       low  |-> IF key < promoted THEN WithChild(low, key, child) ELSE low,
       high |-> IF key < promoted THEN high ELSE WithChild(high, key, child)]

-----------------------------------------------------------------------------
(* Lookups *)

LookupLeaf(key) ==
  LET leaf[p \in PageId] ==
        IF buffer[p].leaf THEN p
        ELSE leaf[buffer[p].records[Child(buffer[p].records, key)].value]
  IN  leaf[root_page]

Lookup(key) ==
  LET records == buffer[LookupLeaf(key)].records
  IN  IF Found(records, key) THEN records[Slot(records, key)].value ELSE NoRid

\* The values from the slot of the lower bound on, slot after slot and along the
\* right links, up to the first key above the range.
RangeLookup(lo, hi) ==
  LET walk[at \in LeafIds \X (1 .. LeafCapacity + 1)] ==
        LET page == buffer[at[1]]
            i    == at[2]
        IN  IF i > Len(page.records)
              THEN IF page.right = None THEN <<>> ELSE walk[<<page.right, 1>>]
            ELSE IF page.records[i].key > hi THEN <<>>
            ELSE IF page.records[i].key >= lo
              THEN <<page.records[i].value>> \o walk[<<at[1], i + 1>>]
            ELSE walk[<<at[1], i + 1>>]
      first == LookupLeaf(lo)
  IN  walk[<<first, Slot(buffer[first].records, lo)>>]

-----------------------------------------------------------------------------
(* Insert *)

\* path: the pages from the root to the current one; promoted: what the page
\* below returned, <<>> on the way down.
Call(key, rid, path, promoted) ==
  [key |-> key, rid |-> rid, path |-> path, promoted |-> promoted]
Idle == Call(DefaultKey, NoRid, <<>>, <<>>)

Current == Last(call.path)
Records == buffer[Current].records
GoingDown == call # Idle /\ call.promoted = <<>>
GoingUp == call.promoted # <<>>

Init ==
  /\ buffer = <<Leaf(<<>>, None)>>
  /\ root_page = 1
  /\ call = Idle

Insert(key, rid) ==
  /\ call = Idle
  /\ call' = Call(key, rid, <<root_page>>, <<>>)
  /\ UNCHANGED <<buffer, root_page>>

Descend ==
  /\ GoingDown /\ ~buffer[Current].leaf
  /\ call' = [call EXCEPT !.path = Append(@, Records[Child(Records, call.key)].value)]
  /\ UNCHANGED <<buffer, root_page>>

\* None is returned through all activations: the call is over.
Overwrite ==
  /\ GoingDown /\ buffer[Current].leaf
  /\ Found(Records, call.key)
  /\ buffer' = [buffer EXCEPT ![Current].records[Slot(Records, call.key)].value = call.rid]
  /\ call' = Idle
  /\ UNCHANGED root_page

AddToLeaf ==
  /\ GoingDown /\ buffer[Current].leaf
  /\ ~Found(Records, call.key) /\ ~IsFull(buffer[Current])
  /\ buffer' = [buffer EXCEPT ![Current].records =
                  InsertAt(@, Slot(@, call.key), Record(call.key, call.rid))]
  /\ call' = Idle
  /\ UNCHANGED root_page

\* The split of a page returns the key and the identifier of the new page.
Promote(key) ==
  call' = [call EXCEPT !.path = Front(@), !.promoted = <<key, NewId>>]

\* Fault: the old leaf keeps its link.
LinkedLeaves_Skipped(old, new, right) == <<Leaf(old, right), Leaf(new, right)>>

\* The old page and the new one, linked in this order.
LinkedLeaves(old, new, right) == <<Leaf(old, NewId), Leaf(new, right)>>

SplitLeaf ==
  LET halves == LeafHalves(Records, Record(call.key, call.rid))
      leaves == LinkedLeaves(halves[1], halves[2], buffer[Current].right)
  IN  /\ GoingDown /\ buffer[Current].leaf
      /\ ~Found(Records, call.key) /\ IsFull(buffer[Current])
      /\ buffer' = Append([buffer EXCEPT ![Current] = leaves[1]], leaves[2])
      /\ Promote(halves[2][1].key)
      /\ UNCHANGED root_page

AddToInner ==
  /\ GoingUp /\ call.path # <<>>
  /\ ~IsFull(buffer[Current])
  /\ buffer' = [buffer EXCEPT ![Current].records =
                  WithChild(@, call.promoted[1], call.promoted[2])]
  /\ call' = Idle
  /\ UNCHANGED root_page

SplitInner ==
  LET halves == InnerHalves(Records, call.promoted[1], call.promoted[2])
  IN  /\ GoingUp /\ call.path # <<>>
      /\ IsFull(buffer[Current])
      /\ buffer' = Append([buffer EXCEPT ![Current] = Inner(halves.low)],
                          Inner(halves.high))
      /\ Promote(halves.promoted)
      /\ UNCHANGED root_page

NewRoot ==
  /\ GoingUp /\ call.path = <<>>
  /\ buffer' = Append(buffer, Inner(<<Record(call.promoted[1], root_page),
                                      Record(DefaultKey, call.promoted[2])>>))
  /\ root_page' = NewId
  /\ call' = Idle

Next ==
  \/ \E request \in Request : Insert(request[1], request[2])
  \/ Descend \/ Overwrite \/ AddToLeaf \/ SplitLeaf
  \/ AddToInner \/ SplitInner \/ NewRoot

Spec == Init /\ [][Next]_vars

-----------------------------------------------------------------------------
(* Properties *)

Entries == UNION {{buffer[p].records[i] : i \in DOMAIN buffer[p].records} : p \in LeafIds}

\* Pages fit their capacity, links and children are pages of the right kind, and
\* a call is idle, on its way down, or returning to a page.
TypeOK ==
  /\ \A p \in PageId :
       LET page == buffer[p]
       IN  /\ page.leaf \in BOOLEAN
           /\ Len(page.records) <= (IF page.leaf THEN LeafCapacity ELSE InnerCapacity)
           /\ page.right \in LeafIds \cup {None}
           /\ \A i \in DOMAIN page.records :
                /\ page.records[i].key \in Key \cup {DefaultKey}
                /\ page.records[i].value \in IF page.leaf THEN Rid ELSE PageId
  /\ root_page \in PageId
  /\ call.key \in Key \cup {DefaultKey} /\ call.rid \in Rid \cup {NoRid}
  /\ call.path \in Seq(PageId)
  /\ call.promoted = <<>> \/ call.promoted \in (Key \X PageId)

\* Between inserts the way from the root leads to the record of every key, and
\* to none for a key that was not inserted (btree.rs:43).
LookupExact ==
  call = Idle =>
    \A k \in Key : IF \E e \in Entries : e.key = k
                     THEN Record(k, Lookup(k)) \in Entries
                     ELSE Lookup(k) = NoRid

\* Between inserts a range lookup returns the records of all keys in the range,
\* in the order of the keys and each once, whatever splits have made of the
\* chain of leaves (btree.rs:95).
RangeExact ==
  call = Idle =>
    \A lo, hi \in Key :
      LET hits  == {e \in Entries : lo <= e.key /\ e.key <= hi}
          found == RangeLookup(lo, hi)
      IN  /\ Len(found) = Cardinality(hits)
          /\ \A e \in hits :
               found[Cardinality({f \in hits : f.key <= e.key})] = e.value

\* The map the leaves hold.  A key in two leaves has no value here.
Content == [k \in Key |->
  LET values == {e.value : e \in {f \in Entries : f.key = k}}
  IN  CASE values = {} -> NoRid
        [] Cardinality(values) = 1 -> CHOOSE v \in values : TRUE
        [] OTHER -> values]

Map == INSTANCE OrderedMap WITH map <- Content

\* The leaves implement a map: an insert gives one key its record, and no split
\* on the way loses, changes or adds another (btree.rs:156).
Implements == Map!Spec

=============================================================================
