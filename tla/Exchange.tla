------------------------------- MODULE Exchange -------------------------------
(***************************************************************************)
(* The Exchange operator of distributed-operators                          *)
(* (src/dist_operator/exchange/exchange_impl.rs), the distribution         *)
(* functions and the join plans that put exchanges below a join            *)
(* (join/join_impl.rs).  Every peer is a thread that runs one join; the    *)
(* join drains its left child, then its right one, and each child is an    *)
(* exchange or a local operator, depending on the plan.  Each exchange has *)
(* channels of its own.                                                    *)
(*                                                                         *)
(* The network is external (src/network.rs is not part of the repository): *)
(* an unbounded FIFO channel per ordered pair of peers, an end-of-stream   *)
(* message that close_send puts into each of them once, and a receive that *)
(* blocks until a row is there or every other peer has ended.  The joins   *)
(* are external too: they are given by the rows they draw.                 *)
(***************************************************************************)
EXTENDS Integers, Sequences, FiniteSets, SequencesExt

CONSTANTS
  N,          \* number of peers
  LeftRow,
  RightRow,   \* the rows of the two tables, numbers of their own
  Key,        \* the join key of a row
  NoRow,
  EndOfStream \* the message of close_send

Peer == 0 .. N - 1
Row == LeftRow \cup RightRow
Plan == {"symmetric", "asymmetric", "replication", "semi"}
Side == {"left", "right"}

ASSUME NAssumption == N \in Nat \ {0}
ASSUME RowAssumption ==
  /\ LeftRow \subseteq Nat /\ IsFiniteSet(LeftRow)
  /\ RightRow \subseteq Nat /\ IsFiniteSet(RightRow)
  /\ LeftRow \cap RightRow = {}
  /\ NoRow \notin Row
  /\ EndOfStream \notin Row
ASSUME KeyAssumption == Key \in [Row -> Int]

VARIABLES
  plan,       \* which join is run
  child,      \* per side and peer, the rows the child has not returned yet
  draining,   \* per peer, the side its join draws from
  pc,         \* per peer, where the call of next() is
  sending,    \* per peer, the row in the loop of send() and the peers it still goes to
  channel,    \* per side, sender and receiver, the messages on the way
  closed,     \* per side, the peers that have closed their sending end
  eos,        \* per side and peer, the peers whose end of stream it has seen
  returned    \* per side and peer, the rows the join was given

vars == <<plan, child, draining, pc, sending, channel, closed, eos, returned>>

NotSending == [row |-> NoRow, to |-> {}, local |-> FALSE]

\* Only the symmetric join re-partitions its left child.
Exchanged(s) == plan = "symmetric" \/ s = "right"

\* rem_euclid: never negative, whatever the key.
Hash(r) == Key[r] % N

\* Fault: the left exchange repartitions by another column.
Distribution_WrongColumn(s, r) ==
  IF plan = "replication" THEN Peer ELSE IF s = "left" THEN {r % N} ELSE {Hash(r)}

Distribution(s, r) == IF plan = "replication" THEN Peer ELSE {Hash(r)}

RowsOf(s) == IF s = "left" THEN LeftRow ELSE RightRow

-----------------------------------------------------------------------------

\* The rows that a placement of table s puts at peer p, in the order a scan has.
Partition(place, s, p) == SetToSeq({r \in RowsOf(s) : place[r] = p})

(***************************************************************************)
(* A partition can hold any row, except that the asymmetric join and the   *)
(* semi-join reduction expect the left table to be partitioned by its key. *)
(***************************************************************************)
Init ==
  /\ plan \in Plan
  /\ \E place \in [Row -> Peer] :
       /\ plan \in {"asymmetric", "semi"} => \A r \in LeftRow : place[r] = Hash(r)
       /\ child = [s \in Side |-> [p \in Peer |-> Partition(place, s, p)]]
  /\ draining = [p \in Peer |-> "left"]
  /\ pc = [p \in Peer |-> "send"]
  /\ sending = [p \in Peer |-> NotSending]
  /\ channel = [s \in Side |-> [p \in Peer |-> [q \in Peer |-> <<>>]]]
  /\ closed = [s \in Side |-> {}]
  /\ eos = [s \in Side |-> [p \in Peer |-> {}]]
  /\ returned = [s \in Side |-> [p \in Peer |-> <<>>]]

\* Peer p is at l in a call of next() of its exchange of side s.
At(p, s, l) == draining[p] = s /\ Exchanged(s) /\ pc[p] = l

Return(p, s, r) == returned' = [returned EXCEPT ![s][p] = Append(@, r)]

\* The join is told the end of side s and goes on.
Ended(p, s) == draining' = [draining EXCEPT ![p] = IF s = "left" THEN "right" ELSE "done"]

\* A child that is no exchange.
LocalNext(p, s) ==
  /\ draining[p] = s
  /\ ~Exchanged(s)
  /\ IF child[s][p] = <<>>
     THEN Ended(p, s) /\ UNCHANGED <<child, returned>>
     ELSE /\ Return(p, s, Head(child[s][p]))
          /\ child' = [child EXCEPT ![s][p] = Tail(@)]
          /\ UNCHANGED draining
  /\ UNCHANGED <<plan, pc, sending, channel, closed, eos>>

\* send() takes a row from the child and computes where it goes.
Pull(p, s) ==
  /\ At(p, s, "send")
  /\ child[s][p] # <<>>
  /\ LET r == Head(child[s][p]) IN
       sending' = [sending EXCEPT ![p] =
         [row |-> r, to |-> Distribution(s, r) \ {p}, local |-> p \in Distribution(s, r)]]
  /\ child' = [child EXCEPT ![s][p] = Tail(@)]
  /\ pc' = [pc EXCEPT ![p] = "sending"]
  /\ UNCHANGED <<plan, draining, channel, closed, eos, returned>>

\* One com.send, to the first of the peers left.
SendTo(p, s) ==
  /\ At(p, s, "sending")
  /\ \E q \in sending[p].to :
       /\ \A o \in sending[p].to : q <= o
       /\ channel' = [channel EXCEPT ![s][p][q] = Append(@, sending[p].row)]
       /\ sending' = [sending EXCEPT ![p].to = @ \ {q}]
  /\ UNCHANGED <<plan, child, draining, pc, closed, eos, returned>>

\* The row was sent: send() returns it when it is local, and takes the next one otherwise.
Sent(p, s) ==
  /\ At(p, s, "sending")
  /\ sending[p].to = {}
  /\ IF sending[p].local THEN Return(p, s, sending[p].row) ELSE UNCHANGED returned
  /\ sending' = [sending EXCEPT ![p] = NotSending]
  /\ pc' = [pc EXCEPT ![p] = "send"]
  /\ UNCHANGED <<plan, child, draining, channel, closed, eos>>

\* Fault: peers with rows under way are not told the end.
CloseSend_Idle(p, s) ==
  /\ At(p, s, "send")
  /\ child[s][p] = <<>>
  /\ channel' = [channel EXCEPT ![s][p] =
       [q \in Peer |-> IF q # p /\ p \notin closed[s] /\ @[q] = <<>>
                       THEN <<EndOfStream>> ELSE @[q]]]
  /\ closed' = [closed EXCEPT ![s] = @ \cup {p}]
  /\ pc' = [pc EXCEPT ![p] = "receive"]
  /\ UNCHANGED <<plan, child, draining, sending, eos, returned>>

(***************************************************************************)
(* The child is exhausted.  Every later call of next() comes here again;   *)
(* close_send has dropped the senders by then and sends nothing.           *)
(***************************************************************************)
CloseSend(p, s) ==
  /\ At(p, s, "send")
  /\ child[s][p] = <<>>
  /\ channel' = [channel EXCEPT ![s][p] =
       [q \in Peer |-> IF q # p /\ p \notin closed[s] THEN Append(@[q], EndOfStream) ELSE @[q]]]
  /\ closed' = [closed EXCEPT ![s] = @ \cup {p}]
  /\ pc' = [pc EXCEPT ![p] = "receive"]
  /\ UNCHANGED <<plan, child, draining, sending, eos, returned>>

\* com.receive takes a message from any channel; it goes on after an end of stream.
Receive(p, s) ==
  /\ At(p, s, "receive")
  /\ \E q \in Peer :
       /\ channel[s][q][p] # <<>>
       /\ channel' = [channel EXCEPT ![s][q][p] = Tail(@)]
       /\ IF Head(channel[s][q][p]) = EndOfStream
          THEN /\ eos' = [eos EXCEPT ![s][p] = @ \cup {q}]
               /\ UNCHANGED <<pc, returned>>
          ELSE /\ Return(p, s, Head(channel[s][q][p]))
               /\ pc' = [pc EXCEPT ![p] = "send"]
               /\ UNCHANGED eos
  /\ UNCHANGED <<plan, child, draining, sending, closed>>

\* Fault: the end of one peer's stream is taken for the end.
AllClosed_Any(p, s) == N = 1 \/ eos[s][p] # {}

AllClosed(p, s) == eos[s][p] = Peer \ {p}

\* next() returns None.
ReturnNone(p, s) ==
  /\ At(p, s, "receive")
  /\ AllClosed(p, s)
  /\ Ended(p, s)
  /\ pc' = [pc EXCEPT ![p] = "send"]
  /\ UNCHANGED <<plan, child, sending, channel, closed, eos, returned>>

Step(p) ==
  \E s \in Side :
    \/ LocalNext(p, s)
    \/ Pull(p, s) \/ SendTo(p, s) \/ Sent(p, s) \/ CloseSend(p, s)
    \/ Receive(p, s) \/ ReturnNone(p, s)

Next == \E p \in Peer : Step(p)

\* The threads of the peers are scheduled.
Spec == Init /\ [][Next]_vars /\ \A p \in Peer : WF_vars(Step(p))

-----------------------------------------------------------------------------

(***************************************************************************)
(* Both sides implement a redistribution: a row is owed to a peer for as   *)
(* long as it is in a child, in the loop of send() or in a channel, it is  *)
(* given to that peer's join exactly once, and the join is told the end    *)
(* only when nothing is on its way to it, from whichever peer.             *)
(***************************************************************************)
Destinations(s, p, r) == IF Exchanged(s) THEN Distribution(s, r) ELSE {p}

Owed(s, p) ==
  {r \in RowsOf(s) :
     \/ \E q \in Peer : r \in ToSet(child[s][q]) /\ p \in Destinations(s, q, r)
     \/ \E q \in Peer : r = sending[q].row /\ p \in sending[q].to
     \/ r = sending[p].row /\ sending[p].local
     \/ \E q \in Peer : r \in ToSet(channel[s][q][p])}

PastSide(s) == {p \in Peer : draining[p] = "done" \/ (s = "left" /\ draining[p] = "right")}

Left == INSTANCE Redistribution WITH
  owed <- [p \in Peer |-> Owed("left", p)], returned <- returned["left"], ended <- PastSide("left")

Right == INSTANCE Redistribution WITH
  owed <- [p \in Peer |-> Owed("right", p)], returned <- returned["right"], ended <- PastSide("right")

Implements == Left!Spec /\ Right!Spec

(***************************************************************************)
(* The plans join what they should: two rows with the same key meet at     *)
(* exactly one peer, negative keys and replicated rows included, wherever  *)
(* the partitions had them.                                                *)
(***************************************************************************)
Meet(p, l, r) == l \in ToSet(returned["left"][p]) /\ r \in ToSet(returned["right"][p])

MatchesMeetOnce ==
  (\A p \in Peer : draining[p] = "done") =>
    \A l \in LeftRow, r \in RightRow :
      Key[l] = Key[r] => Cardinality({p \in Peer : Meet(p, l, r)}) = 1

(***************************************************************************)
(* Every join comes to its end: no peer waits for ever for rows or for an  *)
(* end of stream, although a peer sends only while its own join asks for   *)
(* rows and stops sending while it waits.                                  *)
(***************************************************************************)
EveryJoinEnds == <>(\A p \in Peer : draining[p] = "done")

=============================================================================
