------------------------------- MODULE KWayMerge -------------------------------
(***************************************************************************)
(* The external sort of index-and-operators (src/kwaymerge/kwmerge.rs):    *)
(* sort splits the pages into k lists, sorts those that are not sorted by  *)
(* calling itself, and merges them.  The recursion is a stack of frames;   *)
(* the call on top compares its lists one after the other and then merges, *)
(* a record per step.                                                      *)
(*                                                                         *)
(* A page is the sequence of its records, the first `length` ones.  The    *)
(* pages a merge writes are one sequence of records: a page is full before *)
(* the next one is begun.  is_sorted, external, looks at the records of    *)
(* all its pages.  Lists, pages and slots are numbered from 1.             *)
(***************************************************************************)
EXTENDS Naturals, Sequences, FiniteSets, FiniteSetsExt, SequencesExt

CONSTANTS
  Capacity,  \* records that fit in a page
  SortCall   \* the calls: k, two at least, and pages that are not empty

ASSUME CapacityAssumption == Capacity \in Nat \ {0}
ASSUME SortCallAssumption ==
  \A call \in SortCall :
    /\ call.k \in Nat \ {0, 1}
    /\ call.pages # <<>>
    /\ \A p \in DOMAIN call.pages : Len(call.pages[p]) \in 1 .. Capacity

VARIABLES
  sorting,  \* the call
  stack,    \* the frames of sort, the innermost last
  cursor,   \* per list of the merge, the pages_to_merge; 0 is None
  slot,     \* curr_slots
  merged,   \* the records in output_pages
  states,   \* states_at_finalizing, per output page
  sorted    \* the output pages of the call, when it is over

merging == <<cursor, slot, merged, states>>
sortVars == <<sorting, stack, merging, sorted>>

Frame(pages, at) == [input |-> pages, at |-> at, list |-> 1, pages |-> pages]

Records(pages) == FlattenSeq(pages)
IsAscending(seq) == \A i, j \in DOMAIN seq : i < j => seq[i] <= seq[j]

frame == stack[Len(stack)]
Size == Len(frame.input)

\* Fewer pages than k: every page is a list.
StepSize == IF Size < sorting.k THEN 1 ELSE Size \div sorting.k
Lists == 1 .. (IF Size < sorting.k THEN Size ELSE sorting.k)
FirstPage(i) == (i - 1) * StepSize + 1

\* Fault: the last list has no more pages than the others.
LastPage_Short(i) == i * StepSize

\* The pages that are left over belong to the last list.
LastPage(i) == IF i = Max(Lists) THEN Size ELSE i * StepSize

SortInit ==
  /\ sorting \in SortCall
  /\ stack = <<Frame(sorting.pages, 1)>>
  /\ cursor = <<>>
  /\ slot = <<>>
  /\ merged = <<>>
  /\ states = <<>>
  /\ sorted = <<>>

\* The call on top is over: its pages go into those of its caller.
Return(pages) ==
  IF Len(stack) = 1
  THEN /\ stack' = <<>>
       /\ sorted' = pages
  ELSE /\ stack' = [Front(stack) EXCEPT ![Len(stack) - 1] =
            [@ EXCEPT !.list = @ + 1,
                      !.pages = [p \in DOMAIN @ |-> IF p - frame.at + 1 \in DOMAIN pages
                                                    THEN pages[p - frame.at + 1] ELSE @[p]]]]
       /\ UNCHANGED sorted

SortPage ==
  /\ stack # <<>> /\ Size = 1
  /\ Return(<<SortSeq(frame.input[1], <)>>)
  /\ UNCHANGED <<sorting, merging>>

Comparing == stack # <<>> /\ Size # 1 /\ cursor = <<>>
ListPages(i) == SubSeq(frame.input, FirstPage(i), LastPage(i))

SkipList ==
  /\ Comparing
  /\ frame.list \in Lists
  /\ IsAscending(Records(ListPages(frame.list)))
  /\ stack' = [stack EXCEPT ![Len(stack)].list = @ + 1]
  /\ UNCHANGED <<sorting, merging, sorted>>

SortList ==
  /\ Comparing
  /\ frame.list \in Lists
  /\ ~IsAscending(Records(ListPages(frame.list)))
  /\ stack' = Append(stack, Frame(ListPages(frame.list), FirstPage(frame.list)))
  /\ UNCHANGED <<sorting, merging, sorted>>

BeginMerge ==
  /\ Comparing
  /\ frame.list \notin Lists
  /\ cursor' = [i \in Lists |-> FirstPage(i)]
  /\ slot' = [i \in Lists |-> 1]
  /\ UNCHANGED <<sorting, stack, merged, states, sorted>>

-----------------------------------------------------------------------------

Active == {i \in DOMAIN cursor : cursor[i] # 0}
Current(i) == frame.pages[cursor[i]][slot[i]]

\* The first of the lists with the least record.
Smallest ==
  CHOOSE i \in Active : \A j \in Active : Current(i) < Current(j) \/ (Current(i) = Current(j) /\ i <= j)

\* List i behind its current record: an empty page ends it as well.
Advance(i) ==
  LET page == frame.pages[cursor[i]]
  IN  IF slot[i] # Len(page)
      THEN /\ slot' = [slot EXCEPT ![i] = @ + 1]
           /\ UNCHANGED cursor
      ELSE IF cursor[i] = LastPage(i) \/ frame.pages[cursor[i] + 1] = <<>>
      THEN /\ cursor' = [cursor EXCEPT ![i] = 0]
           /\ slot' = [slot EXCEPT ![i] = @ + 1]
      ELSE /\ cursor' = [cursor EXCEPT ![i] = @ + 1]
           /\ slot' = [slot EXCEPT ![i] = 1]

\* The positions of the lists that are not exhausted.
Positions == [i \in Active |-> <<cursor[i], slot[i]>>]

PageFull(records) == Len(records) % Capacity = 0
AllFull == Len(merged) = Size * Capacity

\* The state is taken before the list that gave the record advances.
MergeRecord ==
  /\ stack # <<>> /\ Active # {} /\ ~AllFull
  /\ merged' = Append(merged, Current(Smallest))
  /\ states' = IF PageFull(merged') THEN Append(states, Positions) ELSE states
  /\ IF Len(merged') = Size * Capacity
     THEN UNCHANGED <<cursor, slot>>
     ELSE Advance(Smallest)
  /\ UNCHANGED <<sorting, stack, sorted>>

\* The pages behind the last record are empty.
OutputPages ==
  [p \in 1 .. Size |-> SubSeq(merged, (p - 1) * Capacity + 1, Min({p * Capacity, Len(merged)}))]

EndMerge ==
  /\ stack # <<>> /\ cursor # <<>>
  /\ Active = {} \/ AllFull
  /\ Return(OutputPages)
  /\ cursor' = <<>> /\ slot' = <<>> /\ merged' = <<>> /\ states' = <<>>
  /\ UNCHANGED sorting

SortNext ==
  \/ SortPage \/ SkipList \/ SortList
  \/ BeginMerge \/ MergeRecord \/ EndMerge

-----------------------------------------------------------------------------

Occurrences(v, seq) == Cardinality({i \in DOMAIN seq : seq[i] = v})
SameRecords(s, t) == \A v \in ToSet(s) \cup ToSet(t) : Occurrences(v, s) = Occurrences(v, t)

\* The records of list i before the position it had, all of them when it has none.
Before(i, position) ==
  IF i \in DOMAIN position
  THEN Len(Records(SubSeq(frame.pages, FirstPage(i), position[i][1] - 1))) + position[i][2] - 1
  ELSE Len(Records(SubSeq(frame.pages, FirstPage(i), LastPage(i))))

\* The records that the merge still has to take.
Remaining ==
  FlattenSeq([i \in DOMAIN cursor |->
    IF i \in Active
    THEN LET list == Records(SubSeq(frame.pages, FirstPage(i), LastPage(i)))
         IN  SubSeq(list, Before(i, Positions) + 1, Len(list))
    ELSE <<>>])

(***************************************************************************)
(* sort sorts: at every step of a merge, on every level of the recursion,  *)
(* what is merged is in order, no larger than what remains and, with it,   *)
(* the input; a state was taken when all but the last record of its page   *)
(* had been passed; and the output of the call is its records in order,    *)
(* full pages first and empty ones last.                                   *)
(***************************************************************************)
MergeSorts ==
  /\ (stack # <<>> /\ cursor # <<>> /\ ~AllFull) =>
       /\ IsAscending(merged)
       /\ SameRecords(merged \o Remaining, Records(frame.input))
       /\ \A i \in Active : \A n \in DOMAIN merged : merged[n] <= Current(i)
       /\ Len(states) = Len(merged) \div Capacity
  /\ \A p \in DOMAIN states :
       MapThenSumSet(LAMBDA i : Before(i, states[p]), DOMAIN cursor) = p * Capacity - 1
  /\ (stack = <<>> /\ sorted # <<>>) =>
       /\ IsAscending(Records(sorted))
       /\ SameRecords(Records(sorted), Records(sorting.pages))
       /\ Len(sorted) = Len(sorting.pages)
       /\ \A p \in DOMAIN sorted : p > 1 /\ sorted[p] # <<>> => Len(sorted[p - 1]) = Capacity

=============================================================================
