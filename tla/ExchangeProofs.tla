---------------------------- MODULE ExchangeProofs ----------------------------
(***************************************************************************)
(* Proofs about Exchange for any number of peers, any two tables and any   *)
(* assignment of keys.                                                     *)
(***************************************************************************)
EXTENDS Exchange, FiniteSetTheorems, SequenceTheorems, TLAPS

-----------------------------------------------------------------------------
(***************************************************************************)
(* Sequences as sets of distinct elements.                                 *)
(***************************************************************************)
LEMMA SetOfHeadTail ==
  ASSUME NEW S, NEW q \in Seq(S), q # <<>>
  PROVE  /\ Head(q) \in ToSet(q)
         /\ ToSet(q) = {Head(q)} \cup ToSet(Tail(q))
         /\ IsInjective(q) => IsInjective(Tail(q)) /\ Head(q) \notin ToSet(Tail(q))
<1>1. /\ Len(q) \in Nat \ {0} /\ DOMAIN q = 1 .. Len(q) /\ Head(q) = q[1]
  BY EmptySeq
<1>2. /\ Tail(q) \in Seq(S) /\ Len(Tail(q)) = Len(q) - 1
      /\ \A i \in 1 .. Len(Tail(q)) : Tail(q)[i] = q[i + 1]
  BY HeadTailProperties
<1>3. DOMAIN Tail(q) = 1 .. Len(q) - 1
  BY <1>2
<1>4. \A i \in DOMAIN Tail(q) : i + 1 \in DOMAIN q /\ Tail(q)[i] = q[i + 1]
  BY <1>1, <1>2, <1>3
<1>5. \A i \in DOMAIN q : i = 1 \/ (i - 1 \in DOMAIN Tail(q) /\ q[i] = Tail(q)[i - 1])
  BY <1>1, <1>2, <1>3
<1>6. 1 \in DOMAIN q
  BY <1>1
<1>7. ToSet(q) = {Head(q)} \cup ToSet(Tail(q))
  <2>1. ASSUME NEW x \in ToSet(q) PROVE x \in {Head(q)} \cup ToSet(Tail(q))
    BY <1>1, <1>5 DEF ToSet
  <2>2. ASSUME NEW x \in ToSet(Tail(q)) PROVE x \in ToSet(q)
    BY <1>4 DEF ToSet
  <2> QED
    BY <1>1, <1>6, <2>1, <2>2 DEF ToSet
<1>8. ASSUME IsInjective(q) PROVE IsInjective(Tail(q)) /\ Head(q) \notin ToSet(Tail(q))
  <2>1. ASSUME NEW i \in DOMAIN Tail(q), NEW j \in DOMAIN Tail(q), Tail(q)[i] = Tail(q)[j]
        PROVE  i = j
    BY <1>3, <1>4, <1>8, <2>1 DEF IsInjective
  <2>2. ASSUME NEW i \in DOMAIN Tail(q) PROVE Tail(q)[i] # Head(q)
    BY <1>1, <1>3, <1>4, <1>6, <1>8 DEF IsInjective
  <2> QED
    BY <2>1, <2>2 DEF IsInjective, ToSet
<1> QED
  BY <1>1, <1>6, <1>7, <1>8 DEF ToSet

LEMMA SetOfAppend ==
  ASSUME NEW S, NEW q \in Seq(S), NEW x \in S
  PROVE  /\ Append(q, x) \in Seq(S)
         /\ ToSet(Append(q, x)) = ToSet(q) \cup {x}
         /\ IsInjective(q) /\ x \notin ToSet(q) => IsInjective(Append(q, x))
<1> DEFINE a == Append(q, x)
<1>1. /\ a \in Seq(S) /\ Len(a) = Len(q) + 1
      /\ \A i \in 1 .. Len(q) : a[i] = q[i]
      /\ a[Len(q) + 1] = x
      /\ Len(q) \in Nat /\ DOMAIN q = 1 .. Len(q) /\ DOMAIN a = 1 .. Len(q) + 1
  BY AppendProperties
<1> HIDE DEF a
<1>2. /\ \A i \in DOMAIN q : i \in DOMAIN a /\ a[i] = q[i]
      /\ \A i \in DOMAIN a : i \in DOMAIN q \/ i = Len(q) + 1
      /\ Len(q) + 1 \in DOMAIN a
  BY <1>1
<1>3. ToSet(a) = ToSet(q) \cup {x}
  <2>1. \A y \in ToSet(a) : y \in ToSet(q) \cup {x}
    BY <1>1, <1>2 DEF ToSet
  <2>2. \A y \in ToSet(q) : y \in ToSet(a)
    BY <1>2 DEF ToSet
  <2>3. x \in ToSet(a)
    BY <1>1, <1>2 DEF ToSet
  <2> QED
    BY <2>1, <2>2, <2>3
<1>4. ASSUME IsInjective(q), x \notin ToSet(q) PROVE IsInjective(a)
  BY <1>1, <1>2, <1>4 DEF IsInjective, ToSet
<1> QED
  BY <1>1, <1>3, <1>4 DEF a

LEMMA SetOfEmpty == ToSet(<<>>) = {} /\ IsInjective(<<>>)
BY DEF ToSet, IsInjective

\* A partition has each of its rows once.
LEMMA SetOfSetToSeq ==
  ASSUME NEW S, IsFiniteSet(S)
  PROVE  /\ SetToSeq(S) \in Seq(S)
         /\ ToSet(SetToSeq(S)) = S
         /\ IsInjective(SetToSeq(S))
<1> DEFINE q == SetToSeq(S)
<1>1. PICK n \in Nat : ExistsBijection(1 .. n, S)
  BY FS_NatBijection
<1>2. Cardinality(S) = n
  BY <1>1, FS_CountingElements
<1>3. PICK g \in Bijection(1 .. n, S) : TRUE
  BY <1>1 DEF ExistsBijection
<1>4. q \in [1 .. n -> S] /\ IsInjective(q)
  <2>1. \E f \in [1 .. n -> S] : IsInjective(f)
    BY <1>3 DEF Bijection, Injection, IsInjective
  <2> QED
    BY <1>2, <2>1 DEF SetToSeq
<1> HIDE DEF q
<1>5. q \in Seq(S)
  BY <1>4, SeqDef
<1>6. ToSet(q) = S
  <2> DEFINE T == ToSet(q)
  <2>1. T \in SUBSET S
    BY <1>4 DEF ToSet
  <2>2. q \in Bijection(1 .. n, T)
    BY <1>4 DEF ToSet, Bijection, Injection, Surjection, IsInjective
  <2>3. Cardinality(T) = n
    BY <2>2, FS_CountingElements DEF ExistsBijection
  <2> QED
    BY <1>2, <2>1, <2>3, FS_Subset
<1> QED
  BY <1>4, <1>5, <1>6 DEF q

-----------------------------------------------------------------------------
(***************************************************************************)
(* The inductive invariant.  Types first.                                  *)
(***************************************************************************)
Location == {"send", "sending", "receive"}
Message == Row \cup {EndOfStream}

TypeOK ==
  /\ plan \in Plan
  /\ child \in [Side -> [Peer -> Seq(Row)]]
  /\ draining \in [Peer -> Side \cup {"done"}]
  /\ pc \in [Peer -> Location]
  /\ sending \in [Peer -> [row : Row \cup {NoRow}, to : SUBSET Peer, local : BOOLEAN]]
  /\ channel \in [Side -> [Peer -> [Peer -> Seq(Message)]]]
  /\ closed \in [Side -> SUBSET Peer]
  /\ eos \in [Side -> [Peer -> SUBSET Peer]]
  /\ returned \in [Side -> [Peer -> Seq(Row)]]

(***************************************************************************)
(* Where a peer is in its call: it has a row in its hands exactly while it *)
(* sends, and waits for others only when it has closed its own end.        *)
(***************************************************************************)
Sending(q, s) == pc[q] = "sending" /\ draining[q] = s

Calls ==
  /\ \A q \in Peer : pc[q] # "sending" => sending[q] = NotSending
  /\ \A q \in Peer : pc[q] # "send" => draining[q] \in Side /\ Exchanged(draining[q])
  /\ \A q \in Peer : pc[q] = "sending" =>
       sending[q].row \in RowsOf(draining[q]) /\ q \notin sending[q].to
  /\ \A q \in Peer : pc[q] = "receive" => q \in closed[draining[q]]

(***************************************************************************)
(* The tables do not mix, nobody sends to itself, and a child that is no   *)
(* exchange has no channels.                                               *)
(***************************************************************************)
SidesApart ==
  \A s \in Side : \A q, p \in Peer :
    /\ ToSet(child[s][q]) \subseteq RowsOf(s)
    /\ ToSet(channel[s][q][p]) \subseteq RowsOf(s) \cup {EndOfStream}
    /\ q = p \/ ~Exchanged(s) => channel[s][q][p] = <<>>

(***************************************************************************)
(* A peer closes a side after its last row, and the end of its stream is   *)
(* the last message in each of its channels.                               *)
(***************************************************************************)
EndIsLast ==
  \A s \in Side : \A q, p \in Peer :
    /\ q \in closed[s] => child[s][q] = <<>> /\ ~Sending(q, s)
    /\ EndOfStream \in ToSet(channel[s][q][p]) =>
         /\ q \in closed[s]
         /\ q \notin eos[s][p]
    /\ \A i \in DOMAIN channel[s][q][p] :
         channel[s][q][p][i] = EndOfStream => i = Len(channel[s][q][p])
    /\ q \in eos[s][p] => q \in closed[s] /\ channel[s][q][p] = <<>>

(***************************************************************************)
(* No row is in two places on its way to the same peer.                    *)
(***************************************************************************)
Distinct ==
  \A s \in Side : \A q, p \in Peer :
    IsInjective(child[s][q]) /\ IsInjective(channel[s][q][p])

ChildHolds ==
  \A s \in Side : \A q, p \in Peer : \A r \in ToSet(child[s][q]) :
    /\ r \in ToSet(child[s][p]) => q = p
    /\ r # sending[p].row
    /\ \A o \in Peer : r \notin ToSet(channel[s][o][p])

OneSender ==
  \A q, p \in Peer : sending[q].row = sending[p].row /\ sending[q].row \in Row => q = p

Owes(q, p) == p \in sending[q].to \/ (p = q /\ sending[q].local)

SenderHolds ==
  \A s \in Side : \A q, p, o \in Peer :
    Owes(q, p) => sending[q].row \notin ToSet(channel[s][o][p])

OneChannel ==
  \A s \in Side : \A q, o, p \in Peer : \A r \in Row :
    r \in ToSet(channel[s][q][p]) /\ r \in ToSet(channel[s][o][p]) => q = o

OnePlace == Distinct /\ ChildHolds /\ OneSender /\ SenderHolds /\ OneChannel

Inv == TypeOK /\ Calls /\ SidesApart /\ EndIsLast /\ OnePlace

-----------------------------------------------------------------------------
LEMMA RowsOfSides ==
  /\ \A s \in Side : RowsOf(s) \subseteq Row
  /\ RowsOf("left") \cap RowsOf("right") = {}
  /\ NoRow \notin Row /\ EndOfStream \notin Row
BY RowAssumption DEF RowsOf, Row, Side

LEMMA HashIsPeer == \A r \in Row : Hash(r) \in Peer
<1>1. \A x \in Int : x % N \in 0 .. N - 1
  BY NAssumption
<1> QED
  BY <1>1, KeyAssumption DEF Hash, Peer

LEMMA DistributionIsPeers ==
  ASSUME NEW s \in Side, NEW r \in Row
  PROVE  Distribution(s, r) \subseteq Peer
BY HashIsPeer DEF Distribution

LEMMA InvInit == Init => Inv
<1> SUFFICES ASSUME Init PROVE Inv
  OBVIOUS
<1>1. PICK place \in [Row -> Peer] :
        child = [s \in Side |-> [p \in Peer |-> Partition(place, s, p)]]
  BY DEF Init
<1>2. ASSUME NEW s \in Side, NEW p \in Peer
      PROVE  /\ child[s][p] \in Seq(RowsOf(s))
             /\ child[s][p] \in Seq(Row)
             /\ ToSet(child[s][p]) = {r \in RowsOf(s) : place[r] = p}
             /\ IsInjective(child[s][p])
  <2> DEFINE S == {r \in RowsOf(s) : place[r] = p}
  <2>1. IsFiniteSet(S)
    <3>1. IsFiniteSet(RowsOf(s)) /\ S \in SUBSET RowsOf(s)
      BY RowAssumption DEF RowsOf
    <3> QED
      BY <3>1, FS_Subset
  <2>2. child[s][p] = SetToSeq(S)
    BY <1>1 DEF Partition
  <2>3. child[s][p] \in Seq(S) /\ ToSet(child[s][p]) = S /\ IsInjective(child[s][p])
    BY <2>1, <2>2, SetOfSetToSeq
  <2>4. S \subseteq RowsOf(s) /\ S \subseteq Row
    BY RowsOfSides
  <2> HIDE DEF S
  <2>5. child[s][p] \in Seq(RowsOf(s)) /\ child[s][p] \in Seq(Row)
    BY <2>3, <2>4, SeqMonotonic
  <2> QED
    BY <2>3, <2>5 DEF S
<1>3. /\ \A p \in Peer : draining[p] = "left" /\ pc[p] = "send" /\ sending[p] = NotSending
      /\ \A s \in Side : \A q, p \in Peer : channel[s][q][p] = <<>>
      /\ \A s \in Side : closed[s] = {}
      /\ \A s \in Side, p \in Peer : eos[s][p] = {}
  BY DEF Init
<1>4. TypeOK
  <2>1. child \in [Side -> [Peer -> Seq(Row)]]
    BY <1>1, <1>2
  <2>2. <<>> \in Seq(Message) /\ <<>> \in Seq(Row)
    BY EmptySeq
  <2>3. NotSending \in [row : Row \cup {NoRow}, to : SUBSET Peer, local : BOOLEAN]
    BY DEF NotSending
  <2> QED
    BY <2>1, <2>2, <2>3 DEF Init, TypeOK, Location, Side
<1>5. Calls
  BY <1>3 DEF Calls
<1>6. SidesApart
  BY <1>2, <1>3, SetOfEmpty DEF SidesApart
<1>7. EndIsLast
  <2>1. DOMAIN <<>> = {}
    OBVIOUS
  <2> QED
    BY <1>3, <2>1, SetOfEmpty DEF EndIsLast, Sending
<1>8. OnePlace
  <2>1. ASSUME NEW s \in Side, NEW q \in Peer, NEW p \in Peer, NEW r \in ToSet(child[s][q])
        PROVE  /\ r \in ToSet(child[s][p]) => q = p
               /\ r # NoRow
    <3>1. r \in RowsOf(s) /\ place[r] = q
      BY <1>2
    <3>2. r \in ToSet(child[s][p]) => place[r] = p
      BY <1>2
    <3> QED
      BY <3>1, <3>2, RowsOfSides
  <2>2. \A p \in Peer : sending[p].row = NoRow /\ sending[p].to = {} /\ sending[p].local = FALSE
    BY <1>3 DEF NotSending
  <2>3. \A s \in Side : \A q, p \in Peer :
          ToSet(channel[s][q][p]) = {} /\ IsInjective(channel[s][q][p])
    BY <1>3, SetOfEmpty
  <2>4. \A s \in Side : \A q \in Peer : IsInjective(child[s][q])
    BY <1>2
  <2>5. Distinct /\ OneChannel
    BY <2>3, <2>4 DEF Distinct, OneChannel
  <2>6. ChildHolds
    <3> SUFFICES ASSUME NEW s \in Side, NEW q \in Peer, NEW p \in Peer,
                        NEW r \in ToSet(child[s][q])
                 PROVE  /\ r \in ToSet(child[s][p]) => q = p
                        /\ r # sending[p].row
                        /\ \A o \in Peer : r \notin ToSet(channel[s][o][p])
      BY DEF ChildHolds
    <3>1. (r \in ToSet(child[s][p]) => q = p) /\ r # NoRow
      BY <2>1
    <3>2. r # sending[p].row
      BY <2>2, <3>1
    <3>3. \A o \in Peer : r \notin ToSet(channel[s][o][p])
      BY <2>3
    <3> QED
      BY <3>1, <3>2, <3>3
  <2>7. OneSender /\ SenderHolds
    BY <2>2, <2>3, RowsOfSides DEF OneSender, SenderHolds
  <2> QED
    BY <2>5, <2>6, <2>7 DEF OnePlace
<1> QED
  BY <1>4, <1>5, <1>6, <1>7, <1>8 DEF Inv

(***************************************************************************)
(* The invariant is preserved.  Pull takes a row from the child.           *)
(***************************************************************************)
LEMMA PullInv ==
  ASSUME Inv, NEW p \in Peer, NEW s \in Side, Pull(p, s)
  PROVE  Inv'
<1> USE DEF Inv
<1>1. /\ pc[p] = "send" /\ draining[p] = s /\ Exchanged(s)
      /\ child[s][p] # <<>> /\ child[s][p] \in Seq(Row)
      /\ IsInjective(child[s][p])
  BY DEF Pull, At, TypeOK, OnePlace, Distinct
<1>2. PICK r \in Row : r = Head(child[s][p]) /\ r \in ToSet(child[s][p])
  BY <1>1, SetOfHeadTail DEF SidesApart, TypeOK
<1>3. r \in RowsOf(s)
  BY <1>2, RowsOfSides DEF SidesApart
<1> DEFINE to   == Distribution(s, r) \ {p}
           here == p \in Distribution(s, r)
           hand == [row |-> r, to |-> to, local |-> here]
<1>4. to \subseteq Peer /\ p \notin to /\ here \in BOOLEAN
  BY DistributionIsPeers
<1>5. /\ child' = [child EXCEPT ![s][p] = Tail(child[s][p])]
      /\ sending' = [sending EXCEPT ![p] = hand]
      /\ pc' = [pc EXCEPT ![p] = "sending"]
      /\ UNCHANGED <<plan, draining, channel, closed, eos, returned>>
  BY <1>2 DEF Pull
<1> HIDE DEF to, here
<1>6. /\ child'[s][p] = Tail(child[s][p]) /\ Tail(child[s][p]) \in Seq(Row)
      /\ \A u \in Side, q \in Peer : u # s \/ q # p => child'[u][q] = child[u][q]
      /\ sending'[p] = hand /\ \A q \in Peer : q # p => sending'[q] = sending[q]
      /\ pc'[p] = "sending" /\ \A q \in Peer : q # p => pc'[q] = pc[q]
  BY <1>1, <1>5, HeadTailProperties DEF TypeOK
<1>7. /\ ToSet(child[s][p]) = {r} \cup ToSet(Tail(child[s][p]))
      /\ IsInjective(Tail(child[s][p])) /\ r \notin ToSet(Tail(child[s][p]))
  BY <1>1, <1>2, SetOfHeadTail
<1>8. \A u \in Side, q \in Peer : /\ ToSet(child'[u][q]) \subseteq ToSet(child[u][q])
                                  /\ IsInjective(child'[u][q])
  BY <1>6, <1>7 DEF OnePlace, Distinct
<1>9. \A u \in Side, q \in Peer : r \notin ToSet(child'[u][q])
  <2> SUFFICES ASSUME NEW u \in Side, NEW q \in Peer PROVE r \notin ToSet(child'[u][q])
    OBVIOUS
  <2>1. CASE u = s /\ q = p
    BY <1>6, <1>7, <2>1
  <2>2. CASE u = s /\ q # p
    BY <1>2, <1>6, <2>2 DEF OnePlace, ChildHolds
  <2>3. CASE u # s
    BY <1>3, <1>8, <2>3, RowsOfSides DEF SidesApart, Side
  <2> QED
    BY <2>1, <2>2, <2>3
<1>10. TypeOK'
  <2>1. hand \in [row : Row \cup {NoRow}, to : SUBSET Peer, local : BOOLEAN]
    BY <1>4
  <2> HIDE DEF hand
  <2> QED
    BY <1>5, <1>6, <2>1 DEF TypeOK, Location
<1>11. Calls'
  BY <1>1, <1>3, <1>4, <1>5, <1>6 DEF Calls, Exchanged, TypeOK
<1>12. SidesApart'
  BY <1>5, <1>8 DEF SidesApart, Exchanged
<1>13. EndIsLast'
  <2>1. p \notin closed[s]
    BY <1>1 DEF EndIsLast
  <2>2. \A q \in Peer, u \in Side : q \in closed[u] => child'[u][q] = child[u][q]
    BY <1>6, <2>1
  <2>3. \A q \in Peer, u \in Side : q \in closed[u] => ~Sending(q, u)'
    BY <1>1, <1>5, <1>6, <2>1 DEF EndIsLast, Sending
  <2> QED
    BY <1>5, <2>2, <2>3 DEF EndIsLast
<1>14. ChildHolds'
  <2> SUFFICES ASSUME NEW u \in Side, NEW q \in Peer, NEW o \in Peer,
                      NEW x \in ToSet(child'[u][q])
               PROVE  /\ x \in ToSet(child'[u][o]) => q = o
                      /\ x # sending'[o].row
                      /\ \A g \in Peer : x \notin ToSet(channel[u][g][o])
    BY <1>5 DEF ChildHolds
  <2>1. x \in ToSet(child[u][q]) /\ x # r
    BY <1>8, <1>9
  <2>2. /\ x \in ToSet(child[u][o]) => q = o
        /\ x # sending[o].row
        /\ \A g \in Peer : x \notin ToSet(channel[u][g][o])
    BY <2>1 DEF OnePlace, ChildHolds
  <2> QED
    BY <1>6, <1>8, <2>1, <2>2
<1>15. OneSender'
  <2>1. \A q \in Peer : sending[q].row # r
    BY <1>2 DEF OnePlace, ChildHolds
  <2> QED
    BY <1>6, <2>1 DEF OnePlace, OneSender
<1>16. SenderHolds'
  <2>1. \A u \in Side, q \in Peer, o \in Peer : r \notin ToSet(channel[u][o][q])
    <3> SUFFICES ASSUME NEW u \in Side, NEW q \in Peer, NEW o \in Peer
                 PROVE  r \notin ToSet(channel[u][o][q])
      OBVIOUS
    <3>1. CASE u = s
      BY <1>2, <3>1 DEF OnePlace, ChildHolds
    <3>2. CASE u # s
      BY <1>3, <3>2, RowsOfSides DEF SidesApart, Side
    <3> QED
      BY <3>1, <3>2
  <2> QED
    BY <1>5, <1>6, <2>1 DEF OnePlace, SenderHolds, Owes
<1>17. Distinct' /\ OneChannel'
  BY <1>5, <1>8 DEF OnePlace, Distinct, OneChannel
<1> QED
  BY <1>10, <1>11, <1>12, <1>13, <1>14, <1>15, <1>16, <1>17 DEF OnePlace

\* SendTo moves it into a channel.
LEMMA SendToInv ==
  ASSUME Inv, NEW p \in Peer, NEW s \in Side, SendTo(p, s)
  PROVE  Inv'
<1> USE DEF Inv
<1>1. pc[p] = "sending" /\ draining[p] = s /\ Exchanged(s) /\ Sending(p, s)
  BY DEF SendTo, At, Sending
<1>2. PICK q \in Peer :
        /\ q \in sending[p].to
        /\ channel' = [channel EXCEPT ![s][p][q] = Append(@, sending[p].row)]
        /\ sending' = [sending EXCEPT ![p].to = @ \ {q}]
  BY DEF SendTo, TypeOK
<1>3. PICK r \in Row : r = sending[p].row /\ r \in RowsOf(s)
  BY <1>1, RowsOfSides DEF Calls
<1>4. q # p /\ p \notin closed[s] /\ r # EndOfStream
  BY <1>1, <1>2, <1>3, RowsOfSides DEF Calls, EndIsLast
<1> DEFINE ch == channel[s][p][q]
<1>5. ch \in Seq(Message) /\ r \in Message /\ IsInjective(ch) /\ r \notin ToSet(ch)
  BY <1>2, <1>3, <1>4 DEF TypeOK, Message, OnePlace, Distinct, SenderHolds, Owes
<1>6. /\ Append(ch, r) \in Seq(Message)
      /\ ToSet(Append(ch, r)) = ToSet(ch) \cup {r}
      /\ IsInjective(Append(ch, r))
  BY <1>5, SetOfAppend
<1>7. channel' = [channel EXCEPT ![s][p][q] = Append(ch, r)]
  BY <1>2, <1>3
<1>8. UNCHANGED <<plan, child, draining, pc, closed, eos, returned>>
  BY DEF SendTo
<1> HIDE DEF ch
<1>9. /\ channel'[s][p][q] = Append(ch, r)
      /\ \A u \in Side, a \in Peer, b \in Peer :
           u # s \/ a # p \/ b # q => channel'[u][a][b] = channel[u][a][b]
      /\ channel' \in [Side -> [Peer -> [Peer -> Seq(Message)]]]
  <2>1. channel \in [Side -> [Peer -> [Peer -> Seq(Message)]]]
    BY DEF TypeOK
  <2>2. channel'[s][p][q] = Append(ch, r)
    BY <1>7, <2>1
  <2>3. channel' \in [Side -> [Peer -> [Peer -> Seq(Message)]]]
    BY <1>6, <1>7, <2>1
  <2>4. \A u \in Side, a \in Peer, b \in Peer :
           u # s \/ a # p \/ b # q => channel'[u][a][b] = channel[u][a][b]
    BY <1>7, <2>1
  <2> QED
    BY <2>2, <2>3, <2>4
<1>10. /\ sending'[p].row = r /\ sending'[p].to = sending[p].to \ {q}
       /\ sending'[p].local = sending[p].local
       /\ \A o \in Peer : o # p => sending'[o] = sending[o]
       /\ sending' \in [Peer -> [row : Row \cup {NoRow}, to : SUBSET Peer, local : BOOLEAN]]
  <2>1. sending[p] \in [row : Row \cup {NoRow}, to : SUBSET Peer, local : BOOLEAN]
    BY DEF TypeOK
  <2> QED
    BY <1>2, <1>3, <2>1 DEF TypeOK
<1>11. ToSet(channel'[s][p][q]) = ToSet(channel[s][p][q]) \cup {r}
  BY <1>6, <1>9 DEF ch
<1>21. \A u \in Side, a \in Peer, b \in Peer, x \in Row :
         x \in ToSet(channel'[u][a][b]) =>
           x \in ToSet(channel[u][a][b]) \/ (u = s /\ a = p /\ b = q /\ x = r)
  <2> SUFFICES ASSUME NEW u \in Side, NEW a \in Peer, NEW b \in Peer, NEW x \in Row,
                      x \in ToSet(channel'[u][a][b])
               PROVE  x \in ToSet(channel[u][a][b]) \/ (u = s /\ a = p /\ b = q /\ x = r)
    OBVIOUS
  <2>1. CASE u # s \/ a # p \/ b # q
    BY <1>9, <2>1
  <2>2. CASE u = s /\ a = p /\ b = q
    BY <1>11, <2>2
  <2> QED
    BY <2>1, <2>2
<1>12. \A o \in Peer : sending'[o].row = sending[o].row
  BY <1>3, <1>10
<1>13. TypeOK'
  BY <1>8, <1>9, <1>10 DEF TypeOK
<1>14. Calls'
  BY <1>1, <1>8, <1>10, <1>12 DEF Calls, Exchanged
<1>15. SidesApart'
  <2> SUFFICES ASSUME NEW u \in Side, NEW a \in Peer, NEW b \in Peer
               PROVE  /\ ToSet(child[u][a]) \subseteq RowsOf(u)
                      /\ ToSet(channel'[u][a][b]) \subseteq RowsOf(u) \cup {EndOfStream}
                      /\ a = b \/ ~Exchanged(u) => channel'[u][a][b] = <<>>
    BY <1>8 DEF SidesApart, Exchanged
  <2>1. /\ ToSet(child[u][a]) \subseteq RowsOf(u)
        /\ ToSet(channel[u][a][b]) \subseteq RowsOf(u) \cup {EndOfStream}
        /\ a = b \/ ~Exchanged(u) => channel[u][a][b] = <<>>
    BY DEF SidesApart
  <2>2. CASE u # s \/ a # p \/ b # q
    BY <1>9, <2>1, <2>2
  <2>3. CASE u = s /\ a = p /\ b = q
    BY <1>1, <1>3, <1>4, <1>11, <2>1, <2>3
  <2> QED
    BY <2>2, <2>3
<1>16. EndIsLast'
  <2> SUFFICES ASSUME NEW u \in Side, NEW a \in Peer, NEW b \in Peer
               PROVE  /\ EndOfStream \in ToSet(channel'[u][a][b]) =>
                           /\ a \in closed[u]
                           /\ a \notin eos[u][b]
                      /\ \A i \in DOMAIN channel'[u][a][b] :
                           channel'[u][a][b][i] = EndOfStream => i = Len(channel'[u][a][b])
                      /\ a \in eos[u][b] => a \in closed[u] /\ channel'[u][a][b] = <<>>
    BY <1>8 DEF EndIsLast, Sending
  <2>1. CASE u # s \/ a # p \/ b # q
    <3>1. channel'[u][a][b] = channel[u][a][b]
      BY <1>9, <2>1
    <3>2. /\ EndOfStream \in ToSet(channel[u][a][b]) => a \in closed[u] /\ a \notin eos[u][b]
          /\ \A i \in DOMAIN channel[u][a][b] :
               channel[u][a][b][i] = EndOfStream => i = Len(channel[u][a][b])
          /\ a \in eos[u][b] => a \in closed[u] /\ channel[u][a][b] = <<>>
      BY DEF EndIsLast
    <3> QED
      BY <3>1, <3>2
  <2>2. CASE u = s /\ a = p /\ b = q
    <3>1. EndOfStream \notin ToSet(channel'[u][a][b])
      BY <1>4, <1>11, <2>2 DEF EndIsLast
    <3>2. a \notin eos[u][b]
      BY <1>4, <2>2 DEF EndIsLast
    <3> QED
      BY <3>1, <3>2 DEF ToSet
  <2> QED
    BY <2>1, <2>2
<1>17. Distinct'
  <2> SUFFICES ASSUME NEW u \in Side, NEW a \in Peer, NEW b \in Peer
               PROVE  IsInjective(child[u][a]) /\ IsInjective(channel'[u][a][b])
    BY <1>8 DEF Distinct
  <2>1. IsInjective(child[u][a]) /\ IsInjective(channel[u][a][b])
    BY DEF OnePlace, Distinct
  <2>2. CASE u # s \/ a # p \/ b # q
    BY <1>9, <2>1, <2>2
  <2>3. CASE u = s /\ a = p /\ b = q
    BY <1>6, <1>9, <2>1, <2>3
  <2> QED
    BY <2>2, <2>3
<1>18. ChildHolds'
  <2> SUFFICES ASSUME NEW u \in Side, NEW a \in Peer, NEW b \in Peer,
                      NEW x \in ToSet(child[u][a])
               PROVE  /\ x \in ToSet(child[u][b]) => a = b
                      /\ x # sending'[b].row
                      /\ \A g \in Peer : x \notin ToSet(channel'[u][g][b])
    BY <1>8 DEF ChildHolds
  <2>1. /\ x \in ToSet(child[u][b]) => a = b
        /\ x # sending[b].row
        /\ \A g \in Peer : x \notin ToSet(channel[u][g][b])
    BY DEF OnePlace, ChildHolds
  <2>2. x # r
    BY <1>3 DEF OnePlace, ChildHolds
  <2>3. x # sending'[b].row
    BY <1>12, <2>1
  <2>4. x \in Row
    BY RowsOfSides DEF SidesApart
  <2>5. \A g \in Peer : x \notin ToSet(channel'[u][g][b])
    BY <1>21, <2>1, <2>2, <2>4
  <2> QED
    BY <2>1, <2>3, <2>5
<1>19. OneSender'
  BY <1>12 DEF OnePlace, OneSender
<1>20. SenderHolds'
  <2> SUFFICES ASSUME NEW u \in Side, NEW a \in Peer, NEW b \in Peer, NEW o \in Peer,
                      Owes(a, b)'
               PROVE  sending'[a].row \notin ToSet(channel'[u][o][b])
    BY DEF SenderHolds
  <2>1. Owes(a, b) /\ (a = p => b # q)
    BY <1>4, <1>10 DEF Owes
  <2>2. sending[a].row \notin ToSet(channel[u][o][b])
    BY <2>1 DEF OnePlace, SenderHolds
  <2>3. b = q => sending[a].row # r
    BY <1>2, <1>3, <1>4, <2>1 DEF OnePlace, OneSender, Owes
  <2>4. CASE u = s /\ o = p /\ b = q
    <3>1. sending[a].row \notin ToSet(channel'[u][o][b])
      BY <1>11, <2>2, <2>3, <2>4
    <3> QED
      BY <1>12, <3>1
  <2>5. CASE u # s \/ o # p \/ b # q
    BY <1>9, <1>12, <2>2, <2>5
  <2> QED
    BY <2>4, <2>5
<1>23. OneChannel'
  <2> SUFFICES ASSUME NEW u \in Side, NEW a \in Peer, NEW o \in Peer, NEW b \in Peer, NEW x \in Row,
                      x \in ToSet(channel'[u][a][b]), x \in ToSet(channel'[u][o][b])
               PROVE  a = o
    BY DEF OneChannel
  <2>1. \A g \in Peer : r \notin ToSet(channel[s][g][q])
    <3>1. Owes(p, q)
      BY <1>2 DEF Owes
    <3> QED
      BY <1>3, <3>1 DEF OnePlace, SenderHolds
  <2>2. /\ x \in ToSet(channel[u][a][b]) \/ (u = s /\ a = p /\ b = q /\ x = r)
        /\ x \in ToSet(channel[u][o][b]) \/ (u = s /\ o = p /\ b = q /\ x = r)
    BY <1>21
  <2>3. x \in ToSet(channel[u][a][b]) /\ x \in ToSet(channel[u][o][b]) => a = o
    BY DEF OnePlace, OneChannel
  <2> QED
    BY <2>1, <2>2, <2>3
<1> QED
  BY <1>13, <1>14, <1>15, <1>16, <1>17, <1>18, <1>19, <1>20, <1>23 DEF OnePlace

\* The other actions only take rows away from the places they are in.
LEMMA OnePlaceShrinks ==
  ASSUME Inv,
         \A u \in Side, q \in Peer : /\ ToSet(child'[u][q]) \subseteq ToSet(child[u][q])
                                     /\ IsInjective(child'[u][q]),
         \A u \in Side, q \in Peer, p \in Peer :
           /\ ToSet(channel'[u][q][p]) \cap Row \subseteq ToSet(channel[u][q][p])
           /\ IsInjective(channel'[u][q][p]),
         \A q \in Peer : sending'[q] = sending[q] \/ sending'[q] = NotSending
  PROVE  OnePlace'
<1> USE DEF Inv
<1>1. /\ NotSending.row = NoRow /\ NotSending.to = {} /\ NotSending.local = FALSE
      /\ NoRow \notin Row
  BY RowsOfSides DEF NotSending
<1>2. \A q, p \in Peer : Owes(q, p) => sending[q].row \in Row
  BY <1>1, RowsOfSides DEF Calls, Owes
<1>3. \A q \in Peer : sending'[q].row \in Row => sending'[q] = sending[q]
  BY <1>1
<1>4. \A q, p \in Peer : Owes(q, p)' => Owes(q, p) /\ sending'[q] = sending[q]
  <2> SUFFICES ASSUME NEW q \in Peer, NEW p \in Peer, Owes(q, p)'
               PROVE  Owes(q, p) /\ sending'[q] = sending[q]
    OBVIOUS
  <2>1. sending'[q] # NotSending
    BY <1>1 DEF Owes
  <2>2. sending'[q] = sending[q]
    BY <2>1
  <2> QED
    BY <2>2 DEF Owes
<1>5. Distinct'
  BY DEF Distinct
<1>6. ChildHolds'
  <2> SUFFICES ASSUME NEW u \in Side, NEW q \in Peer, NEW p \in Peer,
                      NEW x \in ToSet(child'[u][q])
               PROVE  /\ x \in ToSet(child'[u][p]) => q = p
                      /\ x # sending'[p].row
                      /\ \A o \in Peer : x \notin ToSet(channel'[u][o][p])
    BY DEF ChildHolds
  <2>1. x \in ToSet(child[u][q])
    OBVIOUS
  <2>2. x \in Row
    BY <2>1, RowsOfSides DEF SidesApart
  <2>3. /\ x \in ToSet(child[u][p]) => q = p
        /\ x # sending[p].row
        /\ \A o \in Peer : x \notin ToSet(channel[u][o][p])
    BY <2>1 DEF OnePlace, ChildHolds
  <2>4. x # sending'[p].row
    BY <1>3, <2>2, <2>3
  <2>5. \A o \in Peer : x \notin ToSet(channel'[u][o][p])
    BY <2>2, <2>3
  <2>6. x \in ToSet(child'[u][p]) => x \in ToSet(child[u][p])
    OBVIOUS
  <2> QED
    BY <2>3, <2>4, <2>5, <2>6
<1>7. OneSender'
  BY <1>3 DEF OnePlace, OneSender
<1>8. SenderHolds'
  <2> SUFFICES ASSUME NEW u \in Side, NEW q \in Peer, NEW p \in Peer, NEW o \in Peer, Owes(q, p)'
               PROVE  sending'[q].row \notin ToSet(channel'[u][o][p])
    BY DEF SenderHolds
  <2>1. Owes(q, p) /\ sending'[q] = sending[q]
    BY <1>4
  <2>2. sending[q].row \in Row /\ sending[q].row \notin ToSet(channel[u][o][p])
    BY <1>2, <2>1 DEF OnePlace, SenderHolds
  <2> QED
    BY <2>1, <2>2
<1>9. OneChannel'
  BY DEF OnePlace, OneChannel
<1> QED
  BY <1>5, <1>6, <1>7, <1>8, <1>9 DEF OnePlace

LEMMA ReturnAppends ==
  ASSUME TypeOK, NEW p \in Peer, NEW s \in Side, NEW r \in Row, Return(p, s, r)
  PROVE  /\ returned' \in [Side -> [Peer -> Seq(Row)]]
         /\ returned'[s] = [returned[s] EXCEPT ![p] = Append(@, r)]
         /\ \A u \in Side : u # s => returned'[u] = returned[u]
<1> DEFINE a == Append(returned[s][p], r)
<1>1. returned \in [Side -> [Peer -> Seq(Row)]]
  BY DEF TypeOK
<1>2. a \in Seq(Row)
  BY <1>1, AppendProperties
<1>3. returned' = [returned EXCEPT ![s][p] = a]
  BY DEF Return
<1>4. returned'[s] = [returned[s] EXCEPT ![p] = a]
  BY <1>1, <1>3
<1> HIDE DEF a
<1>5. returned' \in [Side -> [Peer -> Seq(Row)]]
  BY <1>1, <1>2, <1>3
<1>6. \A u \in Side : u # s => returned'[u] = returned[u]
  BY <1>1, <1>3
<1> QED
  BY <1>4, <1>5, <1>6 DEF a

\* Sent ends the loop of send().
LEMMA SentInv ==
  ASSUME Inv, NEW p \in Peer, NEW s \in Side, Sent(p, s)
  PROVE  Inv'
<1> USE DEF Inv
<1>1. pc[p] = "sending" /\ draining[p] = s /\ sending[p].row \in Row
  BY RowsOfSides DEF Sent, At, Calls
<1>2. /\ UNCHANGED <<plan, child, draining, channel, closed, eos>>
      /\ sending' = [sending EXCEPT ![p] = NotSending]
      /\ pc' = [pc EXCEPT ![p] = "send"]
      /\ Return(p, s, sending[p].row) \/ UNCHANGED returned
  BY DEF Sent
<1>3. /\ sending'[p] = NotSending /\ \A q \in Peer : q # p => sending'[q] = sending[q]
      /\ pc'[p] = "send" /\ \A q \in Peer : q # p => pc'[q] = pc[q]
  BY <1>2 DEF TypeOK
<1>4. TypeOK'
  <2>1. NotSending \in [row : Row \cup {NoRow}, to : SUBSET Peer, local : BOOLEAN]
    BY DEF NotSending
  <2>2. returned' \in [Side -> [Peer -> Seq(Row)]]
    BY <1>1, <1>2, ReturnAppends DEF TypeOK
  <2> QED
    BY <1>2, <2>1, <2>2 DEF TypeOK, Location
<1>5. Calls'
  <2> SUFFICES ASSUME NEW q \in Peer
               PROVE  /\ pc'[q] # "sending" => sending'[q] = NotSending
                      /\ pc'[q] # "send" => draining[q] \in Side /\ Exchanged(draining[q])
                      /\ pc'[q] = "sending" =>
                           sending'[q].row \in RowsOf(draining[q]) /\ q \notin sending'[q].to
                      /\ pc'[q] = "receive" => q \in closed[draining[q]]
    BY <1>2 DEF Calls, Exchanged
  <2>1. CASE q = p
    BY <1>3, <2>1
  <2>2. CASE q # p
    BY <1>3, <2>2 DEF Calls
  <2> QED
    BY <2>1, <2>2
<1>6. SidesApart'
  BY <1>2 DEF SidesApart, Exchanged
<1>7. EndIsLast'
  <2>1. \A q \in Peer, u \in Side : Sending(q, u)' => Sending(q, u)
    BY <1>2, <1>3 DEF Sending
  <2> QED
    BY <1>2, <2>1 DEF EndIsLast
<1>8. OnePlace'
  <2>1. \A u \in Side, q \in Peer : /\ ToSet(child'[u][q]) \subseteq ToSet(child[u][q])
                                    /\ IsInjective(child'[u][q])
    BY <1>2 DEF OnePlace, Distinct
  <2>2. \A u \in Side, q \in Peer, o \in Peer :
          /\ ToSet(channel'[u][q][o]) \cap Row \subseteq ToSet(channel[u][q][o])
          /\ IsInjective(channel'[u][q][o])
    BY <1>2 DEF OnePlace, Distinct
  <2>3. \A q \in Peer : sending'[q] = sending[q] \/ sending'[q] = NotSending
    BY <1>3
  <2> QED
    BY <2>1, <2>2, <2>3, OnePlaceShrinks
<1> QED
  BY <1>4, <1>5, <1>6, <1>7, <1>8

\* CloseSend puts the end of the stream into each channel that has none.
LEMMA CloseSendInv ==
  ASSUME Inv, NEW p \in Peer, NEW s \in Side, CloseSend(p, s)
  PROVE  Inv'
<1> USE DEF Inv
<1>1. pc[p] = "send" /\ draining[p] = s /\ Exchanged(s) /\ child[s][p] = <<>>
  BY DEF CloseSend, At
<1> DEFINE New(q) == IF q # p /\ p \notin closed[s]
                     THEN Append(channel[s][p][q], EndOfStream) ELSE channel[s][p][q]
<1>2. /\ UNCHANGED <<plan, child, draining, sending, eos, returned>>
      /\ channel' = [channel EXCEPT ![s][p] = [q \in Peer |-> New(q)]]
      /\ closed' = [closed EXCEPT ![s] = closed[s] \cup {p}]
      /\ pc' = [pc EXCEPT ![p] = "receive"]
  BY DEF CloseSend
<1>3. ASSUME NEW q \in Peer
      PROVE  /\ New(q) \in Seq(Message)
             /\ IsInjective(New(q))
             /\ New(q) # channel[s][p][q] =>
                  /\ q # p /\ p \notin closed[s]
                  /\ New(q) = Append(channel[s][p][q], EndOfStream)
                  /\ ToSet(New(q)) = ToSet(channel[s][p][q]) \cup {EndOfStream}
  <2>1. channel[s][p][q] \in Seq(Message) /\ IsInjective(channel[s][p][q])
    BY DEF TypeOK, OnePlace, Distinct
  <2>2. EndOfStream \in Message
    BY DEF Message
  <2>3. p \notin closed[s] => EndOfStream \notin ToSet(channel[s][p][q])
    BY DEF EndIsLast
  <2>4. /\ Append(channel[s][p][q], EndOfStream) \in Seq(Message)
        /\ ToSet(Append(channel[s][p][q], EndOfStream)) = ToSet(channel[s][p][q]) \cup {EndOfStream}
        /\ p \notin closed[s] => IsInjective(Append(channel[s][p][q], EndOfStream))
    BY <2>1, <2>2, <2>3, SetOfAppend
  <2> QED
    BY <2>1, <2>4
<1>4. /\ channel' \in [Side -> [Peer -> [Peer -> Seq(Message)]]]
      /\ \A q \in Peer : channel'[s][p][q] = New(q)
      /\ \A u \in Side, a \in Peer, b \in Peer :
           u # s \/ a # p => channel'[u][a][b] = channel[u][a][b]
  <2>1. channel \in [Side -> [Peer -> [Peer -> Seq(Message)]]]
    BY DEF TypeOK
  <2> DEFINE row == [q \in Peer |-> New(q)]
  <2>2. row \in [Peer -> Seq(Message)] /\ \A q \in Peer : row[q] = New(q)
    BY <1>3
  <2>3. channel' = [channel EXCEPT ![s][p] = row]
    BY <1>2
  <2> HIDE DEF New, row
  <2>4. channel' \in [Side -> [Peer -> [Peer -> Seq(Message)]]]
    BY <2>1, <2>2, <2>3
  <2>5. channel'[s][p] = row
    BY <2>1, <2>3
  <2>6. \A u \in Side, a \in Peer, b \in Peer :
          u # s \/ a # p => channel'[u][a][b] = channel[u][a][b]
    BY <2>1, <2>3
  <2> QED
    BY <2>2, <2>4, <2>5, <2>6
<1> HIDE DEF New
\* A channel is what it was, or it has got the end of its stream.
<1>5. ASSUME NEW u \in Side, NEW a \in Peer, NEW b \in Peer
      PROVE  \/ channel'[u][a][b] = channel[u][a][b]
             \/ /\ u = s /\ a = p /\ b # p /\ p \notin closed[s]
                /\ channel'[u][a][b] = Append(channel[u][a][b], EndOfStream)
                /\ ToSet(channel'[u][a][b]) = ToSet(channel[u][a][b]) \cup {EndOfStream}
  <2>1. CASE u # s \/ a # p
    BY <1>4, <2>1
  <2>2. CASE u = s /\ a = p
    BY <1>3, <1>4, <2>2
  <2> QED
    BY <2>1, <2>2
<1>6. ASSUME NEW u \in Side, NEW a \in Peer, NEW b \in Peer
      PROVE  IsInjective(channel'[u][a][b])
  <2>1. CASE u # s \/ a # p
    BY <1>4, <2>1 DEF OnePlace, Distinct
  <2>2. CASE u = s /\ a = p
    BY <1>3, <1>4, <2>2
  <2> QED
    BY <2>1, <2>2
<1>7. /\ pc'[p] = "receive" /\ \A q \in Peer : q # p => pc'[q] = pc[q]
      /\ closed'[s] = closed[s] \cup {p}
      /\ \A u \in Side : u # s => closed'[u] = closed[u]
      /\ \A u \in Side : closed[u] \subseteq closed'[u]
  BY <1>2 DEF TypeOK
<1>8. TypeOK'
  BY <1>2, <1>4 DEF TypeOK, Location
<1>9. Calls'
  <2> SUFFICES ASSUME NEW q \in Peer
               PROVE  /\ pc'[q] # "sending" => sending[q] = NotSending
                      /\ pc'[q] # "send" => draining[q] \in Side /\ Exchanged(draining[q])
                      /\ pc'[q] = "sending" =>
                           sending[q].row \in RowsOf(draining[q]) /\ q \notin sending[q].to
                      /\ pc'[q] = "receive" => q \in closed'[draining[q]]
    BY <1>2 DEF Calls, Exchanged
  <2>1. CASE q = p
    BY <1>1, <1>7, <2>1 DEF Calls
  <2>2. CASE q # p
    BY <1>7, <2>2 DEF Calls
  <2> QED
    BY <2>1, <2>2
<1>10. SidesApart'
  <2> SUFFICES ASSUME NEW u \in Side, NEW a \in Peer, NEW b \in Peer
               PROVE  /\ ToSet(child[u][a]) \subseteq RowsOf(u)
                      /\ ToSet(channel'[u][a][b]) \subseteq RowsOf(u) \cup {EndOfStream}
                      /\ a = b \/ ~Exchanged(u) => channel'[u][a][b] = <<>>
    BY <1>2 DEF SidesApart, Exchanged
  <2>1. /\ ToSet(child[u][a]) \subseteq RowsOf(u)
        /\ ToSet(channel[u][a][b]) \subseteq RowsOf(u) \cup {EndOfStream}
        /\ a = b \/ ~Exchanged(u) => channel[u][a][b] = <<>>
    BY DEF SidesApart
  <2>2. CASE channel'[u][a][b] = channel[u][a][b]
    BY <2>1, <2>2
  <2>3. CASE channel'[u][a][b] # channel[u][a][b]
    <3>1. /\ u = s /\ a = p /\ b # p
          /\ ToSet(channel'[u][a][b]) = ToSet(channel[u][a][b]) \cup {EndOfStream}
      BY <1>5, <2>3
    <3> QED
      BY <1>1, <2>1, <3>1
  <2> QED
    BY <2>2, <2>3
<1>11. EndIsLast'
  <2> SUFFICES ASSUME NEW u \in Side, NEW a \in Peer, NEW b \in Peer
               PROVE  /\ a \in closed'[u] => child[u][a] = <<>> /\ ~Sending(a, u)'
                      /\ EndOfStream \in ToSet(channel'[u][a][b]) =>
                           /\ a \in closed'[u]
                           /\ a \notin eos[u][b]
                      /\ \A i \in DOMAIN channel'[u][a][b] :
                           channel'[u][a][b][i] = EndOfStream => i = Len(channel'[u][a][b])
                      /\ a \in eos[u][b] => a \in closed'[u] /\ channel'[u][a][b] = <<>>
    BY <1>2 DEF EndIsLast
  <2>1. /\ a \in closed[u] => child[u][a] = <<>> /\ ~Sending(a, u)
        /\ EndOfStream \in ToSet(channel[u][a][b]) => a \in closed[u] /\ a \notin eos[u][b]
        /\ \A i \in DOMAIN channel[u][a][b] :
             channel[u][a][b][i] = EndOfStream => i = Len(channel[u][a][b])
        /\ a \in eos[u][b] => a \in closed[u] /\ channel[u][a][b] = <<>>
    BY DEF EndIsLast
  <2>2. a \in closed'[u] => child[u][a] = <<>> /\ ~Sending(a, u)'
    <3>1. CASE a = p
      BY <1>1, <1>2, <1>7, <2>1, <3>1 DEF Sending
    <3>2. CASE a # p
      BY <1>2, <1>7, <2>1, <3>2 DEF Sending
    <3> QED
      BY <3>1, <3>2
  <2>3. CASE channel'[u][a][b] = channel[u][a][b]
    <3>1. a \in closed[u] => a \in closed'[u]
      BY <1>7
    <3> QED
      BY <2>1, <2>2, <2>3, <3>1
  <2>4. CASE channel'[u][a][b] # channel[u][a][b]
    <3>1. /\ u = s /\ a = p /\ b # p /\ p \notin closed[s]
          /\ channel'[u][a][b] = Append(channel[u][a][b], EndOfStream)
      BY <1>5, <2>4
    <3>2. a \notin eos[u][b] /\ EndOfStream \notin ToSet(channel[u][a][b]) /\ a \in closed'[u]
      BY <1>7, <2>1, <3>1
    <3>3. \A i \in DOMAIN channel'[u][a][b] :
            channel'[u][a][b][i] = EndOfStream => i = Len(channel'[u][a][b])
      <4> DEFINE q == channel[u][a][b]
      <4>1. q \in Seq(Message) /\ EndOfStream \in Message
        <5>1. q \in Seq(Message)
          BY DEF TypeOK
        <5> QED
          BY <5>1 DEF Message
      <4>2. /\ Len(Append(q, EndOfStream)) = Len(q) + 1
            /\ \A i \in 1 .. Len(q) : Append(q, EndOfStream)[i] = q[i]
            /\ Append(q, EndOfStream) \in Seq(Message)
            /\ Len(q) \in Nat
        BY <4>1, AppendProperties
      <4>3. \A i \in 1 .. Len(q) : q[i] # EndOfStream
        BY <3>2, <4>1 DEF ToSet
      <4>4. \A i \in DOMAIN Append(q, EndOfStream) : i \in 1 .. Len(q) \/ i = Len(q) + 1
        BY <4>2
      <4>5. \A i \in DOMAIN Append(q, EndOfStream) :
              Append(q, EndOfStream)[i] = EndOfStream => i = Len(Append(q, EndOfStream))
        BY <4>2, <4>3, <4>4
      <4> QED
        BY <3>1, <4>5
    <3> QED
      BY <2>2, <3>2, <3>3
  <2> QED
    BY <2>3, <2>4
<1>12. OnePlace'
  <2>1. \A u \in Side, q \in Peer : /\ ToSet(child'[u][q]) \subseteq ToSet(child[u][q])
                                    /\ IsInjective(child'[u][q])
    BY <1>2 DEF OnePlace, Distinct
  <2>2. \A u \in Side, q \in Peer, o \in Peer :
          /\ ToSet(channel'[u][q][o]) \cap Row \subseteq ToSet(channel[u][q][o])
          /\ IsInjective(channel'[u][q][o])
    <3> SUFFICES ASSUME NEW u \in Side, NEW q \in Peer, NEW o \in Peer
                 PROVE  /\ ToSet(channel'[u][q][o]) \cap Row \subseteq ToSet(channel[u][q][o])
                        /\ IsInjective(channel'[u][q][o])
      OBVIOUS
    <3>1. CASE channel'[u][q][o] = channel[u][q][o]
      BY <1>6, <3>1
    <3>2. CASE channel'[u][q][o] # channel[u][q][o]
      <4>1. /\ u = s /\ q = p /\ o # p
            /\ ToSet(channel'[u][q][o]) = ToSet(channel[u][q][o]) \cup {EndOfStream}
        BY <1>5, <3>2
      <4>2. EndOfStream \notin Row
        BY RowsOfSides
      <4>3. ToSet(channel'[u][q][o]) \cap Row \subseteq ToSet(channel[u][q][o])
        BY <4>1, <4>2
      <4> QED
        BY <1>6, <4>3
    <3> QED
      BY <3>1, <3>2
  <2>3. \A q \in Peer : sending'[q] = sending[q] \/ sending'[q] = NotSending
    BY <1>2
  <2> QED
    BY <2>1, <2>2, <2>3, OnePlaceShrinks
<1> QED
  BY <1>8, <1>9, <1>10, <1>11, <1>12

\* Receive takes the first message of a channel.
LEMMA HeadOfChannel ==
  ASSUME Inv, NEW s \in Side, NEW q \in Peer, NEW p \in Peer, channel[s][q][p] # <<>>
  PROVE  LET ch == channel[s][q][p] IN
         /\ q # p /\ q \notin eos[s][p]
         /\ Head(ch) \in RowsOf(s) \cup {EndOfStream} /\ Head(ch) \in ToSet(ch)
         /\ Tail(ch) \in Seq(Message) /\ IsInjective(Tail(ch))
         /\ ToSet(ch) = {Head(ch)} \cup ToSet(Tail(ch)) /\ Head(ch) \notin ToSet(Tail(ch))
         /\ Head(ch) = EndOfStream => q \in closed[s] /\ Tail(ch) = <<>>
         /\ \A i \in DOMAIN Tail(ch) : Tail(ch)[i] = EndOfStream => i = Len(Tail(ch))
<1> USE DEF Inv
<1> DEFINE ch == channel[s][q][p]
<1>1. ch \in Seq(Message) /\ ch # <<>> /\ IsInjective(ch)
  BY DEF TypeOK, OnePlace, Distinct
<1>2. q # p /\ q \notin eos[s][p] /\ ToSet(ch) \subseteq RowsOf(s) \cup {EndOfStream}
  BY DEF SidesApart, EndIsLast
<1>3. /\ EndOfStream \in ToSet(ch) => q \in closed[s]
      /\ \A i \in DOMAIN ch : ch[i] = EndOfStream => i = Len(ch)
  BY DEF EndIsLast
<1> HIDE DEF ch
<1>4. /\ Head(ch) \in ToSet(ch) /\ ToSet(ch) = {Head(ch)} \cup ToSet(Tail(ch))
      /\ IsInjective(Tail(ch)) /\ Head(ch) \notin ToSet(Tail(ch))
  BY <1>1, SetOfHeadTail
<1>5. /\ Len(ch) \in Nat \ {0} /\ DOMAIN ch = 1 .. Len(ch) /\ Head(ch) = ch[1]
      /\ Tail(ch) \in Seq(Message) /\ Len(Tail(ch)) = Len(ch) - 1
      /\ \A i \in 1 .. Len(Tail(ch)) : Tail(ch)[i] = ch[i + 1]
  BY <1>1, EmptySeq, HeadTailProperties
<1>6. Head(ch) = EndOfStream => q \in closed[s] /\ Tail(ch) = <<>>
  <2>1. Head(ch) = EndOfStream => q \in closed[s] /\ Len(Tail(ch)) = 0
    BY <1>3, <1>4, <1>5
  <2> QED
    BY <1>5, <2>1, EmptySeq
<1>7. \A i \in DOMAIN Tail(ch) : Tail(ch)[i] = EndOfStream => i = Len(Tail(ch))
  <2>1. \A i \in DOMAIN Tail(ch) : i \in 1 .. Len(Tail(ch)) /\ i + 1 \in DOMAIN ch
    BY <1>5
  <2> QED
    BY <1>3, <1>5, <2>1
<1> QED
  BY <1>2, <1>4, <1>5, <1>6, <1>7 DEF ch

LEMMA ReceiveInv ==
  ASSUME Inv, NEW p \in Peer, NEW s \in Side, Receive(p, s)
  PROVE  Inv'
<1> USE DEF Inv
<1>1. pc[p] = "receive" /\ draining[p] = s /\ Exchanged(s) /\ p \in closed[s]
  BY DEF Receive, At, Calls
<1>2. PICK q \in Peer :
        /\ channel[s][q][p] # <<>>
        /\ channel' = [channel EXCEPT ![s][q][p] = Tail(@)]
        /\ IF Head(channel[s][q][p]) = EndOfStream
           THEN /\ eos' = [eos EXCEPT ![s][p] = @ \cup {q}]
                /\ UNCHANGED <<pc, returned>>
           ELSE /\ Return(p, s, Head(channel[s][q][p]))
                /\ pc' = [pc EXCEPT ![p] = "send"]
                /\ UNCHANGED eos
  BY DEF Receive
<1>3. UNCHANGED <<plan, child, draining, sending, closed>>
  BY DEF Receive
<1> DEFINE h == Head(channel[s][q][p])
           t == Tail(channel[s][q][p])
<1>4. /\ q # p /\ q \notin eos[s][p]
      /\ h \in RowsOf(s) \cup {EndOfStream} /\ h \in ToSet(channel[s][q][p])
      /\ t \in Seq(Message) /\ IsInjective(t)
      /\ ToSet(channel[s][q][p]) = {h} \cup ToSet(t) /\ h \notin ToSet(t)
      /\ h = EndOfStream => q \in closed[s] /\ t = <<>>
      /\ \A i \in DOMAIN t : t[i] = EndOfStream => i = Len(t)
  BY <1>2, HeadOfChannel
<1>5. /\ channel' \in [Side -> [Peer -> [Peer -> Seq(Message)]]]
      /\ channel'[s][q][p] = t
      /\ \A u \in Side, a \in Peer, b \in Peer :
           u # s \/ a # q \/ b # p => channel'[u][a][b] = channel[u][a][b]
  <2>1. channel \in [Side -> [Peer -> [Peer -> Seq(Message)]]]
    BY DEF TypeOK
  <2>2. channel' = [channel EXCEPT ![s][q][p] = t]
    BY <1>2
  <2> HIDE DEF h, t
  <2>3. channel'[s][q][p] = t
    BY <2>1, <2>2
  <2>4. channel' \in [Side -> [Peer -> [Peer -> Seq(Message)]]]
    BY <1>4, <2>1, <2>2
  <2>5. \A u \in Side, a \in Peer, b \in Peer :
           u # s \/ a # q \/ b # p => channel'[u][a][b] = channel[u][a][b]
    BY <2>1, <2>2
  <2> QED
    BY <2>3, <2>4, <2>5
<1>6. /\ h = EndOfStream =>
           eos' = [eos EXCEPT ![s][p] = eos[s][p] \cup {q}] /\ UNCHANGED <<pc, returned>>
      /\ h # EndOfStream =>
           h \in Row /\ Return(p, s, h) /\ pc' = [pc EXCEPT ![p] = "send"] /\ UNCHANGED eos
  BY <1>2, <1>4, RowsOfSides
<1> HIDE DEF h, t
<1>7. /\ eos' \in [Side -> [Peer -> SUBSET Peer]]
      /\ \A u \in Side, a \in Peer, b \in Peer :
           a \in eos'[u][b] => a \in eos[u][b] \/ (u = s /\ a = q /\ b = p /\ h = EndOfStream)
  <2>1. CASE h = EndOfStream
    <3>1. eos \in [Side -> [Peer -> SUBSET Peer]]
      BY DEF TypeOK
    <3>2. eos' = [eos EXCEPT ![s][p] = eos[s][p] \cup {q}]
      BY <1>6, <2>1
    <3>3. eos' \in [Side -> [Peer -> SUBSET Peer]]
      BY <3>1, <3>2
    <3>4. \A u \in Side, b \in Peer :
            eos'[u][b] = IF u = s /\ b = p THEN eos[u][b] \cup {q} ELSE eos[u][b]
      BY <3>1, <3>2
    <3>5. ASSUME NEW u \in Side, NEW a \in Peer, NEW b \in Peer, a \in eos'[u][b]
          PROVE  a \in eos[u][b] \/ (u = s /\ a = q /\ b = p)
      <4>1. CASE u = s /\ b = p
        BY <3>4, <3>5, <4>1
      <4>2. CASE u # s \/ b # p
        BY <3>4, <3>5, <4>2
      <4> QED
        BY <4>1, <4>2
    <3> QED
      BY <2>1, <3>3, <3>5
  <2>2. CASE h # EndOfStream
    BY <1>6, <2>2 DEF TypeOK
  <2> QED
    BY <2>1, <2>2
<1>8. /\ \A a \in Peer : a # p => pc'[a] = pc[a]
      /\ pc'[p] \in {"receive", "send"}
      /\ pc' \in [Peer -> Location]
  BY <1>1, <1>6 DEF TypeOK, Location
<1>9. TypeOK'
  <2>1. returned' \in [Side -> [Peer -> Seq(Row)]]
    <3>1. CASE h = EndOfStream
      BY <1>6, <3>1 DEF TypeOK
    <3>2. CASE h # EndOfStream
      BY <1>6, <3>2, ReturnAppends
    <3> QED
      BY <3>1, <3>2
  <2> QED
    BY <1>3, <1>5, <1>7, <1>8, <2>1 DEF TypeOK
<1>10. Calls'
  <2> SUFFICES ASSUME NEW a \in Peer
               PROVE  /\ pc'[a] # "sending" => sending[a] = NotSending
                      /\ pc'[a] # "send" => draining[a] \in Side /\ Exchanged(draining[a])
                      /\ pc'[a] = "sending" =>
                           sending[a].row \in RowsOf(draining[a]) /\ a \notin sending[a].to
                      /\ pc'[a] = "receive" => a \in closed[draining[a]]
    BY <1>3 DEF Calls, Exchanged
  <2>1. CASE a = p
    BY <1>1, <1>8, <2>1 DEF Calls
  <2>2. CASE a # p
    BY <1>8, <2>2 DEF Calls
  <2> QED
    BY <2>1, <2>2
<1>11. SidesApart'
  <2> SUFFICES ASSUME NEW u \in Side, NEW a \in Peer, NEW b \in Peer
               PROVE  /\ ToSet(child[u][a]) \subseteq RowsOf(u)
                      /\ ToSet(channel'[u][a][b]) \subseteq RowsOf(u) \cup {EndOfStream}
                      /\ a = b \/ ~Exchanged(u) => channel'[u][a][b] = <<>>
    BY <1>3 DEF SidesApart, Exchanged
  <2>1. /\ ToSet(child[u][a]) \subseteq RowsOf(u)
        /\ ToSet(channel[u][a][b]) \subseteq RowsOf(u) \cup {EndOfStream}
        /\ a = b \/ ~Exchanged(u) => channel[u][a][b] = <<>>
    BY DEF SidesApart
  <2>2. CASE u # s \/ a # q \/ b # p
    BY <1>5, <2>1, <2>2
  <2>3. CASE u = s /\ a = q /\ b = p
    BY <1>1, <1>4, <1>5, <2>1, <2>3
  <2> QED
    BY <2>2, <2>3
<1>12. EndIsLast'
  <2> SUFFICES ASSUME NEW u \in Side, NEW a \in Peer, NEW b \in Peer
               PROVE  /\ a \in closed[u] => child[u][a] = <<>> /\ ~Sending(a, u)'
                      /\ EndOfStream \in ToSet(channel'[u][a][b]) =>
                           /\ a \in closed[u]
                           /\ a \notin eos'[u][b]
                      /\ \A i \in DOMAIN channel'[u][a][b] :
                           channel'[u][a][b][i] = EndOfStream => i = Len(channel'[u][a][b])
                      /\ a \in eos'[u][b] => a \in closed[u] /\ channel'[u][a][b] = <<>>
    BY <1>3 DEF EndIsLast
  <2>1. /\ a \in closed[u] => child[u][a] = <<>> /\ ~Sending(a, u)
        /\ EndOfStream \in ToSet(channel[u][a][b]) => a \in closed[u] /\ a \notin eos[u][b]
        /\ \A i \in DOMAIN channel[u][a][b] :
             channel[u][a][b][i] = EndOfStream => i = Len(channel[u][a][b])
        /\ a \in eos[u][b] => a \in closed[u] /\ channel[u][a][b] = <<>>
    BY DEF EndIsLast
  <2>2. a \in closed[u] => child[u][a] = <<>> /\ ~Sending(a, u)'
    BY <1>3, <1>8, <2>1 DEF Sending
  <2>3. CASE u # s \/ a # q \/ b # p
    <3>1. channel'[u][a][b] = channel[u][a][b] /\ (a \in eos'[u][b] => a \in eos[u][b])
      BY <1>5, <1>7, <2>3
    <3> QED
      BY <2>1, <2>2, <3>1
  <2>4. CASE u = s /\ a = q /\ b = p
    <3>1. EndOfStream \in ToSet(t) => a \in closed[u] /\ h # EndOfStream /\ a \notin eos'[u][b]
      BY <1>4, <1>7, <2>1, <2>4
    <3>2. a \in eos'[u][b] => a \in closed[u] /\ t = <<>>
      BY <1>4, <1>7, <2>4
    <3> QED
      BY <1>4, <1>5, <2>2, <2>4, <3>1, <3>2
  <2> QED
    BY <2>3, <2>4
<1>13. OnePlace'
  <2>1. \A u \in Side, a \in Peer : /\ ToSet(child'[u][a]) \subseteq ToSet(child[u][a])
                                    /\ IsInjective(child'[u][a])
    BY <1>3 DEF OnePlace, Distinct
  <2>2. \A u \in Side, a \in Peer, b \in Peer :
          /\ ToSet(channel'[u][a][b]) \cap Row \subseteq ToSet(channel[u][a][b])
          /\ IsInjective(channel'[u][a][b])
    <3> SUFFICES ASSUME NEW u \in Side, NEW a \in Peer, NEW b \in Peer
                 PROVE  /\ ToSet(channel'[u][a][b]) \subseteq ToSet(channel[u][a][b])
                        /\ IsInjective(channel'[u][a][b])
      OBVIOUS
    <3>1. CASE u # s \/ a # q \/ b # p
      <4>1. channel'[u][a][b] = channel[u][a][b]
        BY <1>5, <3>1
      <4> QED
        BY <4>1 DEF OnePlace, Distinct
    <3>2. CASE u = s /\ a = q /\ b = p
      <4>1. channel'[u][a][b] = t /\ ToSet(t) \subseteq ToSet(channel[u][a][b])
        BY <1>4, <1>5, <3>2
      <4> QED
        BY <1>4, <4>1
    <3> QED
      BY <3>1, <3>2
  <2>3. \A a \in Peer : sending'[a] = sending[a] \/ sending'[a] = NotSending
    BY <1>3
  <2> QED
    BY <2>1, <2>2, <2>3, OnePlaceShrinks
<1> QED
  BY <1>9, <1>10, <1>11, <1>12, <1>13

\* The join is told the end of a side.
LEMMA ReturnNoneInv ==
  ASSUME Inv, NEW p \in Peer, NEW s \in Side, ReturnNone(p, s)
  PROVE  Inv'
<1> USE DEF Inv
<1>1. pc[p] = "receive" /\ draining[p] = s
  BY DEF ReturnNone, At
<1>2. /\ UNCHANGED <<plan, child, sending, channel, closed, eos, returned>>
      /\ draining' = [draining EXCEPT ![p] = IF s = "left" THEN "right" ELSE "done"]
      /\ pc' = [pc EXCEPT ![p] = "send"]
  BY DEF ReturnNone, Ended
<1>3. /\ pc'[p] = "send"
      /\ \A q \in Peer : q # p => pc'[q] = pc[q] /\ draining'[q] = draining[q]
  BY <1>2 DEF TypeOK
<1>4. TypeOK'
  BY <1>2 DEF TypeOK, Location, Side
<1>5. Calls'
  <2> SUFFICES ASSUME NEW q \in Peer
               PROVE  /\ pc'[q] # "sending" => sending[q] = NotSending
                      /\ pc'[q] # "send" => draining'[q] \in Side /\ Exchanged(draining'[q])
                      /\ pc'[q] = "sending" =>
                           sending[q].row \in RowsOf(draining'[q]) /\ q \notin sending[q].to
                      /\ pc'[q] = "receive" => q \in closed[draining'[q]]
    BY <1>2 DEF Calls, Exchanged
  <2>1. CASE q = p
    BY <1>1, <1>3, <2>1 DEF Calls
  <2>2. CASE q # p
    BY <1>3, <2>2 DEF Calls
  <2> QED
    BY <2>1, <2>2
<1>6. SidesApart'
  BY <1>2 DEF SidesApart, Exchanged
<1>7. EndIsLast'
  <2>1. \A q \in Peer, u \in Side : Sending(q, u)' => Sending(q, u)
    BY <1>3 DEF Sending
  <2> QED
    BY <1>2, <2>1 DEF EndIsLast
<1>8. OnePlace'
  <2>1. /\ OnePlace /\ UNCHANGED <<child, sending, channel>>
    BY <1>2
  <2> QED
    BY <2>1 DEF OnePlace, Distinct, ChildHolds, OneSender, SenderHolds, Owes, OneChannel
<1> QED
  BY <1>4, <1>5, <1>6, <1>7, <1>8

\* A child that is no exchange gives a row to its own join, or its end.
LEMMA LocalNextInv ==
  ASSUME Inv, NEW p \in Peer, NEW s \in Side, LocalNext(p, s)
  PROVE  Inv'
<1> USE DEF Inv
<1>1. draining[p] = s /\ ~Exchanged(s) /\ pc[p] = "send"
  <2>1. draining[p] = s /\ ~Exchanged(s)
    BY DEF LocalNext
  <2>2. pc[p] # "send" => Exchanged(draining[p])
    BY DEF Calls
  <2> QED
    BY <2>1, <2>2
<1>2. UNCHANGED <<plan, pc, sending, channel, closed, eos>>
  BY DEF LocalNext
<1>3. child[s][p] \in Seq(Row)
  BY DEF TypeOK
<1>4. /\ draining' \in [Peer -> Side \cup {"done"}]
      /\ \A q \in Peer : q # p => draining'[q] = draining[q]
  <2>1. \/ draining' = [draining EXCEPT ![p] = IF s = "left" THEN "right" ELSE "done"]
        \/ draining' = draining
    BY DEF LocalNext, Ended
  <2> QED
    BY <2>1 DEF TypeOK, Side
<1>5. /\ child' \in [Side -> [Peer -> Seq(Row)]]
      /\ returned' \in [Side -> [Peer -> Seq(Row)]]
      /\ \A u \in Side, q \in Peer : /\ ToSet(child'[u][q]) \subseteq ToSet(child[u][q])
                                     /\ IsInjective(child'[u][q])
                                     /\ child[u][q] = <<>> => child'[u][q] = <<>>
  <2>1. CASE child[s][p] = <<>>
    <3>1. UNCHANGED <<child, returned>>
      BY <2>1 DEF LocalNext
    <3> QED
      BY <3>1 DEF TypeOK, OnePlace, Distinct
  <2>2. CASE child[s][p] # <<>>
    <3> DEFINE r == Head(child[s][p])
               t == Tail(child[s][p])
    <3>1. Return(p, s, r) /\ child' = [child EXCEPT ![s][p] = t]
      BY <2>2 DEF LocalNext
    <3>2. /\ r \in Row /\ t \in Seq(Row)
          /\ ToSet(t) \subseteq ToSet(child[s][p]) /\ IsInjective(t)
      <4>1. IsInjective(child[s][p])
        BY DEF OnePlace, Distinct
      <4>2. r \in Row /\ t \in Seq(Row)
        BY <1>3, <2>2, HeadTailProperties, EmptySeq
      <4> QED
        BY <1>3, <2>2, <4>1, <4>2, SetOfHeadTail
    <3> HIDE DEF r, t
    <3>3. child \in [Side -> [Peer -> Seq(Row)]]
      BY DEF TypeOK
    <3>4. /\ child' \in [Side -> [Peer -> Seq(Row)]]
          /\ child'[s][p] = t
          /\ \A u \in Side, q \in Peer : u # s \/ q # p => child'[u][q] = child[u][q]
      BY <3>1, <3>2, <3>3
    <3>5. returned' \in [Side -> [Peer -> Seq(Row)]]
      BY <3>1, <3>2, ReturnAppends
    <3>6. ASSUME NEW u \in Side, NEW q \in Peer
          PROVE  /\ ToSet(child'[u][q]) \subseteq ToSet(child[u][q])
                 /\ IsInjective(child'[u][q])
                 /\ child[u][q] = <<>> => child'[u][q] = <<>>
      <4>1. CASE u = s /\ q = p
        BY <2>2, <3>2, <3>4, <4>1
      <4>2. CASE u # s \/ q # p
        <5>1. child'[u][q] = child[u][q]
          BY <3>4, <4>2
        <5> QED
          BY <5>1 DEF OnePlace, Distinct
      <4> QED
        BY <4>1, <4>2
    <3> QED
      BY <3>4, <3>5, <3>6
  <2> QED
    BY <2>1, <2>2
<1>6. TypeOK'
  BY <1>2, <1>4, <1>5 DEF TypeOK
<1>7. Calls'
  <2> SUFFICES ASSUME NEW q \in Peer
               PROVE  /\ pc[q] # "sending" => sending[q] = NotSending
                      /\ pc[q] # "send" => draining'[q] \in Side /\ Exchanged(draining'[q])
                      /\ pc[q] = "sending" =>
                           sending[q].row \in RowsOf(draining'[q]) /\ q \notin sending[q].to
                      /\ pc[q] = "receive" => q \in closed[draining'[q]]
    BY <1>2 DEF Calls, Exchanged
  <2>1. CASE q = p
    BY <1>1, <2>1 DEF Calls
  <2>2. CASE q # p
    BY <1>4, <2>2 DEF Calls
  <2> QED
    BY <2>1, <2>2
<1>8. SidesApart'
  BY <1>2, <1>5 DEF SidesApart, Exchanged
<1>9. EndIsLast'
  <2>1. \A q \in Peer, u \in Side : Sending(q, u)' => Sending(q, u)
    <3> SUFFICES ASSUME NEW q \in Peer, NEW u \in Side, Sending(q, u)'
                 PROVE  Sending(q, u)
      OBVIOUS
    <3>1. q # p
      BY <1>1, <1>2 DEF Sending
    <3> QED
      BY <1>2, <1>4, <3>1 DEF Sending
  <2>2. \A u \in Side, q \in Peer : child[u][q] = <<>> => child'[u][q] = <<>>
    BY <1>5
  <2> QED
    BY <1>2, <2>1, <2>2 DEF EndIsLast
<1>10. OnePlace'
  <2>1. \A u \in Side, q \in Peer : /\ ToSet(child'[u][q]) \subseteq ToSet(child[u][q])
                                    /\ IsInjective(child'[u][q])
    BY <1>5
  <2>2. \A u \in Side, q \in Peer, o \in Peer :
          /\ ToSet(channel'[u][q][o]) \cap Row \subseteq ToSet(channel[u][q][o])
          /\ IsInjective(channel'[u][q][o])
    BY <1>2 DEF OnePlace, Distinct
  <2>3. \A q \in Peer : sending'[q] = sending[q] \/ sending'[q] = NotSending
    BY <1>2
  <2> QED
    BY <2>1, <2>2, <2>3, OnePlaceShrinks
<1> QED
  BY <1>6, <1>7, <1>8, <1>9, <1>10

LEMMA InvStep == Inv /\ [Next]_vars => Inv'
<1> SUFFICES ASSUME Inv, [Next]_vars PROVE Inv'
  OBVIOUS
<1>1. ASSUME NEW p \in Peer, NEW s \in Side,
             \/ LocalNext(p, s) \/ Pull(p, s) \/ SendTo(p, s) \/ Sent(p, s)
             \/ CloseSend(p, s) \/ Receive(p, s) \/ ReturnNone(p, s)
      PROVE  Inv'
  BY <1>1, LocalNextInv, PullInv, SendToInv, SentInv, CloseSendInv, ReceiveInv, ReturnNoneInv
<1>2. CASE UNCHANGED vars
  BY <1>2 DEF vars, Inv, TypeOK, Calls, SidesApart, EndIsLast, OnePlace, Distinct, ChildHolds,
     OneSender, SenderHolds, OneChannel, Owes, Sending, Exchanged
<1> QED
  BY <1>1, <1>2 DEF Next, Step

LEMMA AlwaysInv == Spec => []Inv
BY InvInit, InvStep, PTL DEF Spec

-----------------------------------------------------------------------------
(***************************************************************************)
(* The redistribution.  A row is owed to a peer in one of three places.    *)
(***************************************************************************)
InChild(s, p, r) == \E q \in Peer : r \in ToSet(child[s][q]) /\ p \in Destinations(s, q, r)
InHand(p, r) == \E q \in Peer : r = sending[q].row /\ Owes(q, p)
InChannel(s, p, r) == \E q \in Peer : r \in ToSet(channel[s][q][p])

LEMMA OwedPlaces ==
  ASSUME NEW s \in Side, NEW p \in Peer, NEW r \in RowsOf(s)
  PROVE  /\ r \in Owed(s, p) <=> InChild(s, p, r) \/ InHand(p, r) \/ InChannel(s, p, r)
         /\ r \in Owed(s, p)' <=> InChild(s, p, r)' \/ InHand(p, r)' \/ InChannel(s, p, r)'
BY DEF Owed, InChild, InHand, InChannel, Owes

LEMMA OwedRows ==
  ASSUME NEW s \in Side, NEW p \in Peer
  PROVE  Owed(s, p) \subseteq RowsOf(s) /\ Owed(s, p)' \subseteq RowsOf(s)
BY DEF Owed

\* What a step of Exchange is, seen as a step of the redistribution of side s.
Delivers(s, p, r) ==
  /\ p \notin PastSide(s)
  /\ r \in Owed(s, p)
  /\ \A o \in Peer : Owed(s, o)' = IF o = p THEN Owed(s, p) \ {r} ELSE Owed(s, o)
  /\ returned'[s] = [returned[s] EXCEPT ![p] = Append(@, r)]
  /\ PastSide(s)' = PastSide(s)

Ends(s, p) ==
  /\ Owed(s, p) = {}
  /\ \A o \in Peer : Owed(s, o)' = Owed(s, o)
  /\ returned'[s] = returned[s]
  /\ PastSide(s)' = PastSide(s) \cup {p}

Stays(s) ==
  /\ \A o \in Peer : Owed(s, o)' = Owed(s, o)
  /\ returned'[s] = returned[s]
  /\ PastSide(s)' = PastSide(s)

Redistributes(s) ==
  (\E p \in Peer : Ends(s, p) \/ \E r \in Row : Delivers(s, p, r)) \/ Stays(s)

\* A row in the loop of send() is a row of the side that its sender drains.
LEMMA HandOfSide ==
  ASSUME Inv, NEW q \in Peer, NEW s \in Side, sending[q].row \in RowsOf(s)
  PROVE  pc[q] = "sending" /\ draining[q] = s /\ Exchanged(s)
<1> USE DEF Inv
<1>1. pc[q] = "sending"
  BY RowsOfSides DEF Calls, NotSending
<1>2. draining[q] \in Side /\ Exchanged(draining[q]) /\ sending[q].row \in RowsOf(draining[q])
  BY <1>1 DEF Calls
<1>3. draining[q] = s
  BY <1>2, RowsOfSides DEF Side
<1> QED
  BY <1>1, <1>2, <1>3

\* What happens on one side leaves the other one alone.
LEMMA OtherSideStays ==
  ASSUME Inv, NEW s \in Side,
         plan' = plan, child'[s] = child[s], channel'[s] = channel[s], returned'[s] = returned[s],
         PastSide(s)' = PastSide(s),
         \A q \in Peer : \/ sending'[q] = sending[q]
                         \/ sending'[q].row \notin RowsOf(s) /\ sending[q].row \notin RowsOf(s)
  PROVE  Stays(s)
<1>1. ASSUME NEW o \in Peer, NEW r \in RowsOf(s)
      PROVE  r \in Owed(s, o)' <=> r \in Owed(s, o)
  <2>1. InChild(s, o, r)' <=> InChild(s, o, r)
    BY DEF InChild, Destinations, Exchanged, Distribution, Hash
  <2>2. InChannel(s, o, r)' <=> InChannel(s, o, r)
    BY DEF InChannel
  <2>3. \A q \in Peer : (r = sending'[q].row /\ Owes(q, o)') <=> (r = sending[q].row /\ Owes(q, o))
    BY DEF Owes
  <2>4. InHand(o, r)' <=> InHand(o, r)
    BY <2>3 DEF InHand
  <2> QED
    BY <2>1, <2>2, <2>4, OwedPlaces
<1>2. \A o \in Peer : Owed(s, o)' = Owed(s, o)
  BY <1>1, OwedRows
<1> QED
  BY <1>2 DEF Stays

\* The end of one side is not the end of the other one.
LEMMA PastOfOtherSide ==
  ASSUME Inv, NEW p \in Peer, NEW s \in Side, NEW u \in Side, u # s, draining[p] = s,
         UNCHANGED draining \/ Ended(p, s)
  PROVE  PastSide(u)' = PastSide(u)
<1>1. CASE UNCHANGED draining
  BY <1>1 DEF PastSide
<1>2. CASE Ended(p, s)
  <2>1. /\ draining'[p] = IF s = "left" THEN "right" ELSE "done"
        /\ \A q \in Peer : q # p => draining'[q] = draining[q]
    BY <1>2 DEF Ended, Inv, TypeOK
  <2> QED
    BY <2>1 DEF PastSide, Side
<1> QED
  BY <1>1, <1>2

LEMMA PastAfterEnd ==
  ASSUME Inv, NEW p \in Peer, NEW s \in Side, draining[p] = s, Ended(p, s)
  PROVE  PastSide(s)' = PastSide(s) \cup {p}
<1>1. /\ draining'[p] = IF s = "left" THEN "right" ELSE "done"
      /\ \A q \in Peer : q # p => draining'[q] = draining[q]
  BY DEF Ended, Inv, TypeOK
<1> QED
  BY <1>1 DEF PastSide, Side

(***************************************************************************)
(* Pull: the row goes from the child to the hands of its sender, which     *)
(* owe it to the same peers.                                               *)
(***************************************************************************)
LEMMA PullStays ==
  ASSUME Inv, NEW p \in Peer, NEW s \in Side, Pull(p, s), NEW u \in Side
  PROVE  Stays(u)
<1>1. /\ pc[p] = "send" /\ draining[p] = s /\ Exchanged(s)
      /\ child[s][p] # <<>> /\ child[s][p] \in Seq(Row) /\ IsInjective(child[s][p])
      /\ sending[p] = NotSending
  BY DEF Pull, At, Inv, TypeOK, Calls, OnePlace, Distinct
<1>2. PICK r \in Row : r = Head(child[s][p]) /\ r \in RowsOf(s) /\ r \in ToSet(child[s][p])
  BY <1>1, SetOfHeadTail, RowsOfSides DEF Inv, SidesApart
<1> DEFINE hand == [row |-> r, to |-> Distribution(s, r) \ {p}, local |-> p \in Distribution(s, r)]
<1>3. /\ child' = [child EXCEPT ![s][p] = Tail(child[s][p])]
      /\ sending' = [sending EXCEPT ![p] = hand]
      /\ UNCHANGED <<plan, draining, channel, returned>>
  BY <1>2 DEF Pull
<1>4. /\ sending'[p].row = r
      /\ sending'[p].to = Distribution(s, r) \ {p}
      /\ sending'[p].local = (p \in Distribution(s, r))
      /\ \A q \in Peer : q # p => sending'[q] = sending[q]
  BY <1>3 DEF Inv, TypeOK
<1>5. PastSide(u)' = PastSide(u)
  BY <1>3 DEF PastSide
<1>6. CASE u # s
  <2>1. child'[u] = child[u] /\ channel'[u] = channel[u] /\ returned'[u] = returned[u]
    BY <1>3, <1>6 DEF Inv, TypeOK
  <2>2. r \notin RowsOf(u) /\ NoRow \notin RowsOf(u)
    BY <1>2, <1>6, RowsOfSides DEF Side
  <2>3. \A q \in Peer : \/ sending'[q] = sending[q]
                        \/ sending'[q].row \notin RowsOf(u) /\ sending[q].row \notin RowsOf(u)
    BY <1>1, <1>4, <2>2 DEF NotSending
  <2> QED
    BY <1>3, <1>5, <2>1, <2>3, OtherSideStays
<1>7. CASE u = s
  <2>1. /\ child'[s][p] = Tail(child[s][p])
        /\ \A q \in Peer : q # p => child'[s][q] = child[s][q]
    BY <1>3 DEF Inv, TypeOK
  <2>2. ToSet(child[s][p]) = {r} \cup ToSet(child'[s][p])
    BY <1>1, <1>2, <2>1, SetOfHeadTail
  <2>3. \A o \in Peer, x \in RowsOf(s) : InChannel(s, o, x)' <=> InChannel(s, o, x)
    BY <1>3 DEF InChannel
  <2>4. \A q \in Peer, x \in RowsOf(s) : Destinations(s, q, x)' = Destinations(s, q, x)
    BY <1>3 DEF Destinations, Exchanged, Distribution, Hash
  <2>5. ASSUME NEW o \in Peer, NEW x \in RowsOf(s), x # r
        PROVE  x \in Owed(s, o)' <=> x \in Owed(s, o)
    <3>1. \A q \in Peer : x \in ToSet(child'[s][q]) <=> x \in ToSet(child[s][q])
      BY <2>1, <2>2, <2>5
    <3>2. InChild(s, o, x)' <=> InChild(s, o, x)
      BY <2>4, <3>1 DEF InChild
    <3>3. x # NoRow
      BY RowsOfSides
    <3>4. \A q \in Peer : (x = sending'[q].row /\ Owes(q, o)') <=> (x = sending[q].row /\ Owes(q, o))
      <4>1. sending'[p].row # x /\ sending[p].row # x
        BY <1>1, <1>4, <2>5, <3>3 DEF NotSending
      <4>2. \A q \in Peer : q # p => sending'[q] = sending[q]
        BY <1>4
      <4> QED
        BY <4>1, <4>2 DEF Owes
    <3>5. InHand(o, x)' <=> InHand(o, x)
      BY <3>4 DEF InHand
    <3> QED
      BY <2>3, <3>2, <3>5, OwedPlaces
  <2>6. ASSUME NEW o \in Peer
        PROVE  r \in Owed(s, o)' <=> r \in Owed(s, o)
    <3>1. InChild(s, o, r) <=> o \in Distribution(s, r)
      <4>1. \A q \in Peer : r \in ToSet(child[s][q]) <=> q = p
        BY <1>2 DEF Inv, OnePlace, ChildHolds
      <4> QED
        BY <1>1, <4>1 DEF InChild, Destinations
    <3>2. ~InHand(o, r) /\ ~InChannel(s, o, r)
      <4>1. \A q \in Peer : sending[q].row # r
        BY <1>2 DEF Inv, OnePlace, ChildHolds
      <4>2. \A q \in Peer : r \notin ToSet(channel[s][q][o])
        BY <1>2 DEF Inv, OnePlace, ChildHolds
      <4> QED
        BY <4>1, <4>2 DEF InHand, InChannel
    <3>3. ~InChild(s, o, r)'
      <4>1. r \notin ToSet(child'[s][p])
        BY <1>1, <1>2, <2>1, SetOfHeadTail
      <4>2. \A q \in Peer : q # p => r \notin ToSet(child'[s][q])
        BY <1>2, <2>1 DEF Inv, OnePlace, ChildHolds
      <4> QED
        BY <4>1, <4>2 DEF InChild
    <3>4. InHand(o, r)' <=> o \in Distribution(s, r)
      <4>1. \A q \in Peer : sending[q].row # r
        BY <1>2 DEF Inv, OnePlace, ChildHolds
      <4>2. InHand(o, r)' <=> Owes(p, o)'
        BY <1>4, <4>1 DEF InHand
      <4>3. Owes(p, o)' <=> o \in Distribution(s, r)
        BY <1>4 DEF Owes
      <4> QED
        BY <4>2, <4>3
    <3> QED
      BY <1>2, <2>3, <3>1, <3>2, <3>3, <3>4, OwedPlaces
  <2>7. \A o \in Peer : Owed(s, o)' = Owed(s, o)
    BY <2>5, <2>6, OwedRows
  <2> QED
    BY <1>3, <1>5, <1>7, <2>7 DEF Stays
<1> QED
  BY <1>6, <1>7

\* SendTo: the row goes from the hands of its sender to a channel.
LEMMA SendToStays ==
  ASSUME Inv, NEW p \in Peer, NEW s \in Side, SendTo(p, s), NEW u \in Side
  PROVE  Stays(u)
<1>1. pc[p] = "sending" /\ draining[p] = s
  BY DEF SendTo, At
<1>2. PICK q \in Peer :
        /\ q \in sending[p].to
        /\ channel' = [channel EXCEPT ![s][p][q] = Append(@, sending[p].row)]
        /\ sending' = [sending EXCEPT ![p].to = @ \ {q}]
  BY DEF SendTo, Inv, TypeOK
<1>3. PICK r \in RowsOf(s) : r = sending[p].row
  BY <1>1 DEF Inv, Calls
<1>4. /\ q # p /\ Owes(p, q)
      /\ UNCHANGED <<plan, child, draining, returned>>
  BY <1>1, <1>2 DEF SendTo, Inv, Calls, Owes
<1>5. /\ sending'[p].row = r /\ sending'[p].to = sending[p].to \ {q}
      /\ sending'[p].local = sending[p].local
      /\ \A o \in Peer : o # p => sending'[o] = sending[o]
  <2>1. sending[p] \in [row : Row \cup {NoRow}, to : SUBSET Peer, local : BOOLEAN]
    BY DEF Inv, TypeOK
  <2> QED
    BY <1>2, <1>3, <2>1 DEF Inv, TypeOK
<1>6. /\ channel'[s][p][q] = Append(channel[s][p][q], r)
      /\ \A v \in Side, a \in Peer, b \in Peer :
           v # s \/ a # p \/ b # q => channel'[v][a][b] = channel[v][a][b]
      /\ \A v \in Side : v # s => channel'[v] = channel[v]
  <2>1. channel \in [Side -> [Peer -> [Peer -> Seq(Message)]]]
    BY DEF Inv, TypeOK
  <2>2. channel' = [channel EXCEPT ![s][p][q] = Append(channel[s][p][q], r)]
    BY <1>2, <1>3
  <2>3. channel'[s][p][q] = Append(channel[s][p][q], r)
    BY <2>1, <2>2
  <2>4. \A v \in Side, a \in Peer, b \in Peer :
           v # s \/ a # p \/ b # q => channel'[v][a][b] = channel[v][a][b]
    BY <2>1, <2>2
  <2>5. \A v \in Side : v # s => channel'[v] = channel[v]
    BY <2>1, <2>2
  <2> QED
    BY <2>3, <2>4, <2>5
<1>7. PastSide(u)' = PastSide(u)
  BY <1>4 DEF PastSide
<1>8. CASE u # s
  <2>1. r \notin RowsOf(u)
    BY <1>8, RowsOfSides DEF Side
  <2>2. \A o \in Peer : \/ sending'[o] = sending[o]
                        \/ sending'[o].row \notin RowsOf(u) /\ sending[o].row \notin RowsOf(u)
    BY <1>3, <1>5, <2>1
  <2> QED
    BY <1>4, <1>6, <1>7, <1>8, <2>2, OtherSideStays
<1>9. CASE u = s
  <2>1. ToSet(channel'[s][p][q]) = ToSet(channel[s][p][q]) \cup {r}
    <3>1. channel[s][p][q] \in Seq(Message)
      BY DEF Inv, TypeOK
    <3>2. r \in Message
      BY RowsOfSides DEF Message
    <3> QED
      BY <1>6, <3>1, <3>2, SetOfAppend
  <2>2. \A o \in Peer, x \in RowsOf(s) : InChild(s, o, x)' <=> InChild(s, o, x)
    BY <1>4 DEF InChild, Destinations, Exchanged, Distribution, Hash
  <2>3. ASSUME NEW o \in Peer, NEW x \in RowsOf(s), x # r \/ o # q
        PROVE  x \in Owed(s, o)' <=> x \in Owed(s, o)
    <3>1. \A a \in Peer : x \in ToSet(channel'[s][a][o]) <=> x \in ToSet(channel[s][a][o])
      <4> SUFFICES ASSUME NEW a \in Peer
                   PROVE  x \in ToSet(channel'[s][a][o]) <=> x \in ToSet(channel[s][a][o])
        OBVIOUS
      <4>1. CASE a # p \/ o # q
        BY <1>6, <4>1
      <4>2. CASE a = p /\ o = q
        BY <2>1, <2>3, <4>2
      <4> QED
        BY <4>1, <4>2
    <3>2. InChannel(s, o, x)' <=> InChannel(s, o, x)
      BY <3>1 DEF InChannel
    <3>3. (x = sending'[p].row /\ Owes(p, o)') <=> (x = sending[p].row /\ Owes(p, o))
      BY <1>3, <1>5, <2>3 DEF Owes
    <3>4. \A a \in Peer : (x = sending'[a].row /\ Owes(a, o)') <=> (x = sending[a].row /\ Owes(a, o))
      <4>1. \A a \in Peer : a # p => (Owes(a, o)' <=> Owes(a, o)) /\ sending'[a].row = sending[a].row
        BY <1>5 DEF Owes
      <4> QED
        BY <3>3, <4>1
    <3>5. InHand(o, x)' <=> InHand(o, x)
      BY <3>4 DEF InHand
    <3> QED
      BY <2>2, <3>2, <3>5, OwedPlaces
  <2>4. r \in Owed(s, q)' /\ r \in Owed(s, q)
    <3>1. InHand(q, r)
      BY <1>3, <1>4 DEF InHand
    <3>2. InChannel(s, q, r)'
      BY <2>1 DEF InChannel
    <3> QED
      BY <3>1, <3>2, OwedPlaces
  <2>5. \A o \in Peer : Owed(s, o)' = Owed(s, o)
    BY <2>3, <2>4, OwedRows
  <2> QED
    BY <1>4, <1>7, <1>9, <2>5 DEF Stays
<1> QED
  BY <1>8, <1>9

(***************************************************************************)
(* Sent: a row of the sender's own reaches its join, and is in no other    *)
(* place on its way to it.                                                 *)
(***************************************************************************)
LEMMA SentRedistributes ==
  ASSUME Inv, NEW p \in Peer, NEW s \in Side, Sent(p, s), NEW u \in Side
  PROVE  Redistributes(u)
<1>1. pc[p] = "sending" /\ draining[p] = s /\ sending[p].to = {}
  BY DEF Sent, At
<1>2. PICK r \in RowsOf(s) : r = sending[p].row
  BY <1>1 DEF Inv, Calls
<1>3. r \in Row
  BY RowsOfSides
<1>4. /\ UNCHANGED <<plan, child, draining, channel>>
      /\ sending[p].local => Return(p, s, r)
      /\ ~sending[p].local => UNCHANGED returned
  BY <1>2 DEF Sent
<1>5. /\ sending'[p].row = NoRow /\ sending'[p].to = {} /\ sending'[p].local = FALSE
      /\ \A q \in Peer : q # p => sending'[q] = sending[q]
  BY DEF Sent, Inv, TypeOK, NotSending
<1>6. PastSide(u)' = PastSide(u) /\ p \notin PastSide(s)
  BY <1>1, <1>4 DEF PastSide, Side
<1>7. CASE u # s
  <2>1. r \notin RowsOf(u) /\ NoRow \notin RowsOf(u)
    BY <1>7, RowsOfSides DEF Side
  <2>2. \A q \in Peer : \/ sending'[q] = sending[q]
                        \/ sending'[q].row \notin RowsOf(u) /\ sending[q].row \notin RowsOf(u)
    BY <1>2, <1>5, <2>1
  <2>3. returned'[u] = returned[u]
    <3>1. CASE sending[p].local
      BY <1>3, <1>4, <1>7, <3>1, ReturnAppends DEF Inv
    <3>2. CASE ~sending[p].local
      BY <1>4, <3>2
    <3> QED
      BY <3>1, <3>2
  <2>4. Stays(u)
    BY <1>4, <1>6, <2>2, <2>3, OtherSideStays
  <2> QED
    BY <2>4 DEF Redistributes
<1>8. CASE u = s
  <2>1. \A o \in Peer, x \in RowsOf(s) : /\ InChild(s, o, x)' <=> InChild(s, o, x)
                                         /\ InChannel(s, o, x)' <=> InChannel(s, o, x)
    BY <1>4 DEF InChild, InChannel, Destinations, Exchanged, Distribution, Hash
  <2>2. ASSUME NEW o \in Peer, NEW x \in RowsOf(s),
               x # r \/ o # p \/ ~sending[p].local
        PROVE  x \in Owed(s, o)' <=> x \in Owed(s, o)
    <3>1. x # NoRow
      BY RowsOfSides
    <3>2. ~(x = sending'[p].row /\ Owes(p, o)') /\ ~(x = sending[p].row /\ Owes(p, o))
      BY <1>1, <1>2, <1>5, <2>2, <3>1 DEF Owes
    <3>3. \A a \in Peer : (x = sending'[a].row /\ Owes(a, o)') <=> (x = sending[a].row /\ Owes(a, o))
      <4>1. \A a \in Peer : a # p => (Owes(a, o)' <=> Owes(a, o)) /\ sending'[a].row = sending[a].row
        BY <1>5 DEF Owes
      <4> QED
        BY <3>2, <4>1
    <3>4. InHand(o, x)' <=> InHand(o, x)
      BY <3>3 DEF InHand
    <3> QED
      BY <2>1, <3>4, OwedPlaces
  <2>3. CASE ~sending[p].local
    <3>1. \A o \in Peer : Owed(s, o)' = Owed(s, o)
      BY <2>2, <2>3, OwedRows
    <3>2. Stays(u)
      BY <1>4, <1>6, <1>8, <2>3, <3>1 DEF Stays
    <3> QED
      BY <3>2 DEF Redistributes
  <2>4. CASE sending[p].local
    <3>1. r \in Owed(s, p)
      <4>1. InHand(p, r)
        BY <1>2, <2>4 DEF InHand, Owes
      <4> QED
        BY <4>1, OwedPlaces
    <3>2. r \notin Owed(s, p)'
      <4>1. ~InChild(s, p, r)
        BY <1>2 DEF InChild, Inv, OnePlace, ChildHolds
      <4>2. ~InChannel(s, p, r)
        <5>1. Owes(p, p)
          BY <2>4 DEF Owes
        <5> QED
          BY <1>2, <5>1 DEF InChannel, Inv, OnePlace, SenderHolds
      <4>3. \A q \in Peer : sending'[q].row # r
        BY <1>2, <1>3, <1>5, RowsOfSides DEF Inv, OnePlace, OneSender
      <4>4. ~InHand(p, r)'
        BY <4>3 DEF InHand
      <4> QED
        BY <2>1, <4>1, <4>2, <4>4, OwedPlaces
    <3>3. \A o \in Peer : Owed(s, o)' = IF o = p THEN Owed(s, p) \ {r} ELSE Owed(s, o)
      <4>1. Owed(s, p)' = Owed(s, p) \ {r}
        BY <2>2, <3>1, <3>2, OwedRows
      <4>2. \A o \in Peer : o # p => Owed(s, o)' = Owed(s, o)
        BY <2>2, OwedRows
      <4> QED
        BY <4>1, <4>2
    <3>4. returned'[s] = [returned[s] EXCEPT ![p] = Append(@, r)]
      BY <1>3, <1>4, <2>4, ReturnAppends DEF Inv
    <3>5. Delivers(s, p, r)
      BY <1>6, <1>8, <3>1, <3>3, <3>4 DEF Delivers
    <3> QED
      BY <1>3, <1>8, <3>5 DEF Redistributes
  <2> QED
    BY <2>3, <2>4
<1> QED
  BY <1>7, <1>8

\* CloseSend: the end of a stream is no row.
LEMMA CloseSendStays ==
  ASSUME Inv, NEW p \in Peer, NEW s \in Side, CloseSend(p, s), NEW u \in Side
  PROVE  Stays(u)
<1>1. UNCHANGED <<plan, child, draining, sending, returned>>
  BY DEF CloseSend
<1> DEFINE New(q) == IF q # p /\ p \notin closed[s]
                     THEN Append(channel[s][p][q], EndOfStream) ELSE channel[s][p][q]
<1>2. /\ \A q \in Peer : channel'[s][p][q] = New(q)
      /\ \A v \in Side, a \in Peer, b \in Peer :
           v # s \/ a # p => channel'[v][a][b] = channel[v][a][b]
  <2> DEFINE row == [q \in Peer |-> New(q)]
  <2>1. channel' = [channel EXCEPT ![s][p] = row]
    BY DEF CloseSend
  <2>2. \A q \in Peer : row[q] = New(q)
    OBVIOUS
  <2>3. channel \in [Side -> [Peer -> [Peer -> Seq(Message)]]]
    BY DEF Inv, TypeOK
  <2> HIDE DEF New, row
  <2>4. channel'[s][p] = row
    BY <2>1, <2>3
  <2>5. \A v \in Side, a \in Peer, b \in Peer :
          v # s \/ a # p => channel'[v][a][b] = channel[v][a][b]
    BY <2>1, <2>3
  <2> QED
    BY <2>2, <2>4, <2>5
<1>3. \A q \in Peer : New(q) = channel[s][p][q]
                      \/ ToSet(New(q)) = ToSet(channel[s][p][q]) \cup {EndOfStream}
  <2>1. ASSUME NEW q \in Peer
        PROVE  ToSet(Append(channel[s][p][q], EndOfStream)) = ToSet(channel[s][p][q]) \cup {EndOfStream}
    <3>1. channel[s][p][q] \in Seq(Message)
      BY DEF Inv, TypeOK
    <3>2. EndOfStream \in Message
      BY DEF Message
    <3> QED
      BY <3>1, <3>2, SetOfAppend
  <2> QED
    BY <2>1
<1> HIDE DEF New
<1>4. ASSUME NEW a \in Peer, NEW b \in Peer, NEW x \in RowsOf(u)
      PROVE  x \in ToSet(channel'[u][a][b]) <=> x \in ToSet(channel[u][a][b])
  <2>1. CASE u # s \/ a # p
    BY <1>2, <2>1
  <2>2. CASE u = s /\ a = p
    <3>1. x # EndOfStream
      BY RowsOfSides
    <3>2. channel'[u][a][b] = New(b)
      BY <1>2, <2>2
    <3>3. \/ New(b) = channel[u][a][b]
          \/ ToSet(New(b)) = ToSet(channel[u][a][b]) \cup {EndOfStream}
      BY <1>3, <2>2
    <3> QED
      BY <3>1, <3>2, <3>3
  <2> QED
    BY <2>1, <2>2
<1>5. ASSUME NEW o \in Peer, NEW x \in RowsOf(u)
      PROVE  x \in Owed(u, o)' <=> x \in Owed(u, o)
  <2>1. InChild(u, o, x)' <=> InChild(u, o, x)
    BY <1>1 DEF InChild, Destinations, Exchanged, Distribution, Hash
  <2>2. InHand(o, x)' <=> InHand(o, x)
    BY <1>1 DEF InHand, Owes
  <2>3. InChannel(u, o, x)' <=> InChannel(u, o, x)
    BY <1>4 DEF InChannel
  <2> QED
    BY <2>1, <2>2, <2>3, OwedPlaces
<1>6. \A o \in Peer : Owed(u, o)' = Owed(u, o)
  BY <1>5, OwedRows
<1> QED
  BY <1>1, <1>6 DEF Stays, PastSide

(***************************************************************************)
(* Receive: a row leaves the only channel it is in and reaches the join;   *)
(* the end of a stream reaches nobody.                                     *)
(***************************************************************************)
LEMMA ReceiveRedistributes ==
  ASSUME Inv, NEW p \in Peer, NEW s \in Side, Receive(p, s), NEW u \in Side
  PROVE  Redistributes(u)
<1>1. draining[p] = s
  BY DEF Receive, At
<1>2. PICK q \in Peer :
        /\ channel[s][q][p] # <<>>
        /\ channel' = [channel EXCEPT ![s][q][p] = Tail(@)]
        /\ IF Head(channel[s][q][p]) = EndOfStream
           THEN UNCHANGED <<pc, returned>>
           ELSE Return(p, s, Head(channel[s][q][p]))
  BY DEF Receive
<1>3. UNCHANGED <<plan, child, draining, sending>>
  BY DEF Receive
<1> DEFINE h == Head(channel[s][q][p])
           t == Tail(channel[s][q][p])
<1>4. /\ q # p /\ q \notin eos[s][p]
      /\ h \in RowsOf(s) \cup {EndOfStream} /\ h \in ToSet(channel[s][q][p])
      /\ t \in Seq(Message) /\ IsInjective(t)
      /\ ToSet(channel[s][q][p]) = {h} \cup ToSet(t) /\ h \notin ToSet(t)
      /\ h = EndOfStream => q \in closed[s] /\ t = <<>>
      /\ \A i \in DOMAIN t : t[i] = EndOfStream => i = Len(t)
  BY <1>2, HeadOfChannel
<1>5. /\ channel'[s][q][p] = t
      /\ \A v \in Side, a \in Peer, b \in Peer :
           v # s \/ a # q \/ b # p => channel'[v][a][b] = channel[v][a][b]
  <2>1. channel \in [Side -> [Peer -> [Peer -> Seq(Message)]]]
    BY DEF Inv, TypeOK
  <2>2. channel' = [channel EXCEPT ![s][q][p] = t]
    BY <1>2
  <2> HIDE DEF h, t
  <2>3. channel'[s][q][p] = t
    BY <2>1, <2>2
  <2>4. \A v \in Side, a \in Peer, b \in Peer :
           v # s \/ a # q \/ b # p => channel'[v][a][b] = channel[v][a][b]
    BY <2>1, <2>2
  <2> QED
    BY <2>3, <2>4
<1>6. /\ h = EndOfStream => returned' = returned
      /\ h # EndOfStream => Return(p, s, h) /\ h \in RowsOf(s) /\ h \in Row
  BY <1>2, <1>4, RowsOfSides
<1> HIDE DEF h, t
<1>7. PastSide(u)' = PastSide(u) /\ p \notin PastSide(s)
  BY <1>1, <1>3 DEF PastSide, Side
<1>8. ASSUME NEW o \in Peer, NEW x \in RowsOf(u)
      PROVE  /\ InChild(u, o, x)' <=> InChild(u, o, x)
             /\ InHand(o, x)' <=> InHand(o, x)
  <2>1. InChild(u, o, x)' <=> InChild(u, o, x)
    BY <1>3 DEF InChild, Destinations, Exchanged, Distribution, Hash
  <2>2. InHand(o, x)' <=> InHand(o, x)
    BY <1>3 DEF InHand, Owes
  <2> QED
    BY <2>1, <2>2
<1>9. ASSUME NEW a \in Peer, NEW o \in Peer, NEW x \in RowsOf(u), u # s \/ a # q \/ o # p \/ x # h
      PROVE  x \in ToSet(channel'[u][a][o]) <=> x \in ToSet(channel[u][a][o])
  <2>1. CASE u # s \/ a # q \/ o # p
    BY <1>5, <2>1
  <2>2. CASE u = s /\ a = q /\ o = p
    BY <1>4, <1>5, <1>9, <2>2
  <2> QED
    BY <2>1, <2>2
<1>10. ASSUME NEW o \in Peer, NEW x \in RowsOf(u), u # s \/ o # p \/ x # h
       PROVE  x \in Owed(u, o)' <=> x \in Owed(u, o)
  <2>1. InChannel(u, o, x)' <=> InChannel(u, o, x)
    BY <1>9, <1>10 DEF InChannel
  <2> QED
    BY <1>8, <2>1, OwedPlaces
<1>11. CASE u # s \/ h = EndOfStream
  <2>1. ASSUME NEW o \in Peer, NEW x \in RowsOf(u)
        PROVE  x \in Owed(u, o)' <=> x \in Owed(u, o)
    <3>1. x # EndOfStream
      BY RowsOfSides
    <3> QED
      BY <1>10, <1>11, <3>1
  <2>2. \A o \in Peer : Owed(u, o)' = Owed(u, o)
    BY <2>1, OwedRows
  <2>3. returned'[u] = returned[u]
    <3>1. CASE h = EndOfStream
      BY <1>6, <3>1
    <3>2. CASE h # EndOfStream
      BY <1>6, <1>11, <3>2, ReturnAppends DEF Inv
    <3> QED
      BY <3>1, <3>2
  <2> QED
    BY <1>7, <2>2, <2>3 DEF Redistributes, Stays
<1>12. CASE u = s /\ h # EndOfStream
  <2>1. PICK r \in Row : r = h /\ r \in RowsOf(s) /\ r \in ToSet(channel[s][q][p])
    BY <1>4, <1>6, <1>12
  <2>2. r \in Owed(s, p)
    <3>1. InChannel(s, p, r)
      BY <2>1 DEF InChannel
    <3> QED
      BY <2>1, <3>1, OwedPlaces
  <2>3. r \notin Owed(s, p)'
    <3>1. ~InChild(s, p, r)
      BY <2>1 DEF InChild, Inv, OnePlace, ChildHolds
    <3>2. ~InHand(p, r)
      BY <2>1 DEF InHand, Inv, OnePlace, SenderHolds
    <3>3. ~InChannel(s, p, r)'
      <4>1. \A a \in Peer : a # q => r \notin ToSet(channel[s][a][p])
        BY <2>1 DEF Inv, OnePlace, OneChannel
      <4>2. \A a \in Peer : a # q => channel'[s][a][p] = channel[s][a][p]
        BY <1>5
      <4>3. r \notin ToSet(channel'[s][q][p])
        BY <1>4, <1>5, <2>1
      <4>4. \A a \in Peer : r \notin ToSet(channel'[s][a][p])
        <5> SUFFICES ASSUME NEW a \in Peer PROVE r \notin ToSet(channel'[s][a][p])
          OBVIOUS
        <5> QED
          BY <4>1, <4>2, <4>3
      <4> QED
        BY <4>4 DEF InChannel
    <3>4. ~InChild(s, p, r)' /\ ~InHand(p, r)'
      <4>1. r \in RowsOf(u)
        BY <1>12, <2>1
      <4> QED
        BY <1>8, <1>12, <3>1, <3>2, <4>1
    <3> QED
      BY <2>1, <3>3, <3>4, OwedPlaces
  <2>4. \A o \in Peer : Owed(s, o)' = IF o = p THEN Owed(s, p) \ {r} ELSE Owed(s, o)
    <3>1. Owed(s, p)' = Owed(s, p) \ {r}
      BY <1>10, <1>12, <2>1, <2>2, <2>3, OwedRows
    <3>2. \A o \in Peer : o # p => Owed(s, o)' = Owed(s, o)
      BY <1>10, <1>12, <2>1, OwedRows
    <3> QED
      BY <3>1, <3>2
  <2>5. returned'[s] = [returned[s] EXCEPT ![p] = Append(@, r)]
    BY <1>6, <1>12, <2>1, ReturnAppends DEF Inv
  <2>6. Delivers(s, p, r)
    BY <1>7, <1>12, <2>2, <2>4, <2>5 DEF Delivers
  <2> QED
    BY <1>12, <2>1, <2>6 DEF Redistributes
<1> QED
  BY <1>11, <1>12

(***************************************************************************)
(* ReturnNone: every peer has closed the side, so its rows are in no child *)
(* and no hands, and this peer has emptied all channels to it.             *)
(***************************************************************************)
LEMMA ReturnNoneRedistributes ==
  ASSUME Inv, NEW p \in Peer, NEW s \in Side, ReturnNone(p, s), NEW u \in Side
  PROVE  Redistributes(u)
<1>1. /\ pc[p] = "receive" /\ draining[p] = s /\ Exchanged(s)
      /\ eos[s][p] = Peer \ {p} /\ Ended(p, s)
      /\ UNCHANGED <<plan, child, sending, channel, returned>>
  BY DEF ReturnNone, At, AllClosed
<1>2. \A o \in Peer : Owed(u, o)' = Owed(u, o)
  <2>1. ASSUME NEW o \in Peer, NEW r \in RowsOf(u)
        PROVE  r \in Owed(u, o)' <=> r \in Owed(u, o)
    <3>1. InChild(u, o, r)' <=> InChild(u, o, r)
      BY <1>1 DEF InChild, Destinations, Exchanged, Distribution, Hash
    <3>2. InHand(o, r)' <=> InHand(o, r)
      BY <1>1 DEF InHand, Owes
    <3>3. InChannel(u, o, r)' <=> InChannel(u, o, r)
      BY <1>1 DEF InChannel
    <3> QED
      BY <3>1, <3>2, <3>3, OwedPlaces
  <2> QED
    BY <2>1, OwedRows
<1>3. CASE u # s
  BY <1>1, <1>2, <1>3, PastOfOtherSide DEF Redistributes, Stays
<1>4. CASE u = s
  <2>1. \A q \in Peer : q \in closed[s]
    BY <1>1 DEF Inv, Calls, EndIsLast
  <2>2. \A q \in Peer : child[s][q] = <<>> /\ ~Sending(q, s)
    BY <2>1 DEF Inv, EndIsLast
  <2>3. \A q \in Peer : channel[s][q][p] = <<>>
    BY <1>1 DEF Inv, EndIsLast, SidesApart
  <2>4. Owed(s, p) = {}
    <3> SUFFICES ASSUME NEW r \in RowsOf(s) PROVE r \notin Owed(s, p)
      BY OwedRows
    <3>1. ~InChild(s, p, r) /\ ~InChannel(s, p, r)
      BY <2>2, <2>3, SetOfEmpty DEF InChild, InChannel
    <3>2. ~InHand(p, r)
      BY <2>2, HandOfSide DEF InHand, Sending
    <3> QED
      BY <3>1, <3>2, OwedPlaces
  <2>5. PastSide(s)' = PastSide(s) \cup {p}
    BY <1>1, PastAfterEnd
  <2>6. Ends(s, p)
    BY <1>1, <1>2, <1>4, <2>4, <2>5 DEF Ends
  <2> QED
    BY <1>4, <2>6 DEF Redistributes
<1> QED
  BY <1>3, <1>4

\* LocalNext: what is owed to a peer is what its own child has left.
LEMMA LocalNextRedistributes ==
  ASSUME Inv, NEW p \in Peer, NEW s \in Side, LocalNext(p, s), NEW u \in Side
  PROVE  Redistributes(u)
<1>1. draining[p] = s /\ ~Exchanged(s) /\ UNCHANGED <<plan, sending, channel>>
  BY DEF LocalNext
<1>2. ASSUME NEW o \in Peer, NEW r \in RowsOf(s)
      PROVE  /\ r \in Owed(s, o) <=> r \in ToSet(child[s][o])
             /\ r \in Owed(s, o)' <=> r \in ToSet(child'[s][o])
  <2>1. /\ InChild(s, o, r) <=> r \in ToSet(child[s][o])
        /\ InChild(s, o, r)' <=> r \in ToSet(child'[s][o])
    BY <1>1 DEF InChild, Destinations, Exchanged
  <2>2. ~InHand(o, r) /\ ~InHand(o, r)'
    <3>1. \A q \in Peer : sending[q].row # r
      BY <1>1, HandOfSide
    <3> QED
      BY <1>1, <3>1 DEF InHand
  <2>3. ~InChannel(s, o, r) /\ ~InChannel(s, o, r)'
    <3>1. \A q \in Peer : channel[s][q][o] = <<>>
      BY <1>1 DEF Inv, SidesApart
    <3> QED
      BY <1>1, <3>1, SetOfEmpty DEF InChannel
  <2> QED
    BY <2>1, <2>2, <2>3, OwedPlaces
<1>3. CASE child[s][p] = <<>>
  <2>1. Ended(p, s) /\ UNCHANGED <<child, returned>>
    BY <1>3 DEF LocalNext
  <2>2. CASE u # s
    <3>1. PastSide(u)' = PastSide(u)
      BY <1>1, <2>1, <2>2, PastOfOtherSide
    <3>2. Stays(u)
      BY <1>1, <2>1, <3>1, OtherSideStays
    <3> QED
      BY <3>2 DEF Redistributes
  <2>3. CASE u = s
    <3>1. \A o \in Peer : Owed(s, o)' = Owed(s, o)
      BY <1>2, <2>1, OwedRows
    <3>2. Owed(s, p) = {}
      BY <1>2, <1>3, OwedRows, SetOfEmpty
    <3>3. PastSide(s)' = PastSide(s) \cup {p}
      BY <1>1, <2>1, PastAfterEnd
    <3>4. Ends(s, p)
      BY <2>1, <3>1, <3>2, <3>3 DEF Ends
    <3> QED
      BY <2>3, <3>4 DEF Redistributes
  <2> QED
    BY <2>2, <2>3
<1>4. CASE child[s][p] # <<>>
  <2>1. PICK r \in Row : /\ r = Head(child[s][p]) /\ r \in ToSet(child[s][p])
                         /\ r \in RowsOf(s)
    <3>1. child[s][p] \in Seq(Row) /\ ToSet(child[s][p]) \subseteq RowsOf(s)
      BY DEF Inv, TypeOK, SidesApart
    <3>2. Head(child[s][p]) \in ToSet(child[s][p])
      BY <1>4, <3>1, SetOfHeadTail
    <3> QED
      BY <3>1, <3>2, RowsOfSides
  <2>2. /\ Return(p, s, r) /\ UNCHANGED draining
        /\ child' = [child EXCEPT ![s][p] = Tail(child[s][p])]
    BY <1>4, <2>1 DEF LocalNext
  <2>3. /\ child'[s][p] = Tail(child[s][p])
        /\ \A o \in Peer : o # p => child'[s][o] = child[s][o]
        /\ \A v \in Side : v # s => child'[v] = child[v]
    BY <2>2 DEF Inv, TypeOK
  <2>4. PastSide(u)' = PastSide(u) /\ p \notin PastSide(s)
    BY <1>1, <2>2 DEF PastSide, Side
  <2>5. CASE u # s
    <3>1. returned'[u] = returned[u]
      BY <2>2, <2>5, ReturnAppends DEF Inv
    <3>2. Stays(u)
      BY <1>1, <2>3, <2>4, <2>5, <3>1, OtherSideStays
    <3> QED
      BY <3>2 DEF Redistributes
  <2>6. CASE u = s
    <3>1. child[s][p] \in Seq(Row) /\ IsInjective(child[s][p])
      BY DEF Inv, TypeOK, OnePlace, Distinct
    <3>2. ToSet(child[s][p]) = {r} \cup ToSet(child'[s][p]) /\ r \notin ToSet(child'[s][p])
      BY <1>4, <2>1, <2>3, <3>1, SetOfHeadTail
    <3>3. r \in Owed(s, p)
      BY <1>2, <2>1
    <3>4. \A x \in RowsOf(s) : x \in Owed(s, p)' <=> x \in Owed(s, p) /\ x # r
      BY <1>2, <3>2
    <3>5. \A o \in Peer : Owed(s, o)' = IF o = p THEN Owed(s, p) \ {r} ELSE Owed(s, o)
      <4>1. Owed(s, p)' = Owed(s, p) \ {r}
        BY <3>4, OwedRows
      <4>2. ASSUME NEW o \in Peer, o # p PROVE Owed(s, o)' = Owed(s, o)
        <5>1. \A x \in RowsOf(s) : x \in Owed(s, o)' <=> x \in Owed(s, o)
          BY <1>2, <2>3, <4>2
        <5> QED
          BY <5>1, OwedRows
      <4> QED
        BY <4>1, <4>2
    <3>6. returned'[s] = [returned[s] EXCEPT ![p] = Append(@, r)]
      BY <2>2, ReturnAppends DEF Inv
    <3>7. Delivers(s, p, r)
      BY <2>4, <2>6, <3>3, <3>5, <3>6 DEF Delivers
    <3> QED
      BY <2>1, <2>6, <3>7 DEF Redistributes
  <2> QED
    BY <2>5, <2>6
<1> QED
  BY <1>3, <1>4

LEMMA StepRedistributes ==
  ASSUME Inv, [Next]_vars, NEW u \in Side
  PROVE  Redistributes(u)
<1>1. ASSUME NEW p \in Peer, NEW s \in Side, Pull(p, s) \/ SendTo(p, s) \/ CloseSend(p, s)
      PROVE  Redistributes(u)
  BY <1>1, PullStays, SendToStays, CloseSendStays DEF Redistributes
<1>2. ASSUME NEW p \in Peer, NEW s \in Side,
             LocalNext(p, s) \/ Sent(p, s) \/ Receive(p, s) \/ ReturnNone(p, s)
      PROVE  Redistributes(u)
  BY <1>2, LocalNextRedistributes, SentRedistributes, ReceiveRedistributes,
     ReturnNoneRedistributes
<1>3. CASE UNCHANGED vars
  <2>1. \A o \in Peer : Owed(u, o)' = Owed(u, o)
    BY <1>3 DEF vars, Owed, Destinations, Exchanged, Distribution, Hash
  <2> QED
    BY <1>3, <2>1 DEF Redistributes, Stays, PastSide, vars
<1> QED
  BY <1>1, <1>2, <1>3 DEF Next, Step

LEMMA InitRedistributes ==
  ASSUME Init
  PROVE  Left!Init /\ Right!Init
<1>1. ASSUME NEW s \in Side
      PROVE  /\ [p \in Peer |-> Owed(s, p)] \in [Peer -> SUBSET Row]
             /\ returned[s] = [p \in Peer |-> <<>>]
             /\ PastSide(s) = {}
  <2>1. \A p \in Peer : Owed(s, p) \in SUBSET Row
    BY OwedRows, RowsOfSides
  <2>2. returned[s] = [p \in Peer |-> <<>>] /\ PastSide(s) = {}
    BY DEF Init, PastSide
  <2> QED
    BY <2>1, <2>2
<1> QED
  BY <1>1 DEF Left!Init, Right!Init, Side

LEMMA StepLeft ==
  ASSUME Redistributes("left")
  PROVE  [Left!Next]_Left!vars
<1> DEFINE owed == [p \in Peer |-> Owed("left", p)]
<1>1. ASSUME NEW p \in Peer, Ends("left", p) PROVE Left!Next
  <2>1. owed[p] = {} /\ UNCHANGED owed
    BY <1>1 DEF Ends
  <2>2. Left!End(p)
    BY <1>1, <2>1 DEF Left!End, Ends
  <2> QED
    BY <2>2 DEF Left!Next
<1>2. ASSUME NEW p \in Peer, NEW r \in Row, Delivers("left", p, r) PROVE Left!Next
  <2>1. r \in owed[p] /\ owed' = [owed EXCEPT ![p] = @ \ {r}]
    BY <1>2 DEF Delivers
  <2>2. Left!Deliver(p, r)
    BY <1>2, <2>1 DEF Left!Deliver, Delivers
  <2> QED
    BY <2>2 DEF Left!Next
<1>3. CASE Stays("left")
  <2>1. UNCHANGED owed
    BY <1>3 DEF Stays
  <2> QED
    BY <1>3, <2>1 DEF Left!vars, Stays
<1> QED
  BY <1>1, <1>2, <1>3 DEF Redistributes

LEMMA StepRight ==
  ASSUME Redistributes("right")
  PROVE  [Right!Next]_Right!vars
<1> DEFINE owed == [p \in Peer |-> Owed("right", p)]
<1>1. ASSUME NEW p \in Peer, Ends("right", p) PROVE Right!Next
  <2>1. owed[p] = {} /\ UNCHANGED owed
    BY <1>1 DEF Ends
  <2>2. Right!End(p)
    BY <1>1, <2>1 DEF Right!End, Ends
  <2> QED
    BY <2>2 DEF Right!Next
<1>2. ASSUME NEW p \in Peer, NEW r \in Row, Delivers("right", p, r) PROVE Right!Next
  <2>1. r \in owed[p] /\ owed' = [owed EXCEPT ![p] = @ \ {r}]
    BY <1>2 DEF Delivers
  <2>2. Right!Deliver(p, r)
    BY <1>2, <2>1 DEF Right!Deliver, Delivers
  <2> QED
    BY <2>2 DEF Right!Next
<1>3. CASE Stays("right")
  <2>1. UNCHANGED owed
    BY <1>3 DEF Stays
  <2> QED
    BY <1>3, <2>1 DEF Right!vars, Stays
<1> QED
  BY <1>1, <1>2, <1>3 DEF Redistributes

(***************************************************************************)
(* The exchange keeps its promise on both sides of every plan, for any     *)
(* number of peers, any tables, keys and partitions: each row reaches the  *)
(* peers its distribution names exactly once, and next() returns None at a *)
(* peer only when nothing is on its way to it.                             *)
(***************************************************************************)
THEOREM RedistributionImplemented == Spec => Implements
<1>1. Init => Left!Init /\ Right!Init
  BY InitRedistributes
<1>2. Inv /\ [Next]_vars => [Left!Next]_Left!vars /\ [Right!Next]_Right!vars
  <2> SUFFICES ASSUME Inv, [Next]_vars
               PROVE  [Left!Next]_Left!vars /\ [Right!Next]_Right!vars
    OBVIOUS
  <2>1. Redistributes("left") /\ Redistributes("right")
    BY StepRedistributes DEF Side
  <2> QED
    BY <2>1, StepLeft, StepRight
<1> QED
  BY <1>1, <1>2, AlwaysInv, PTL DEF Spec, Implements, Left!Spec, Right!Spec

-----------------------------------------------------------------------------
(***************************************************************************)
(* Where rows meet.  What has reached a peer and what is owed to it never  *)
(* changes, so that a finished join was given the rows that were destined  *)
(* for it at the beginning.                                                *)
(***************************************************************************)
Destined(s, p) == Owed(s, p) \cup ToSet(returned[s][p])

Meetings ==
  /\ \A r \in RightRow : \A p \in Peer : r \in Destined("right", p) <=> p \in Distribution("right", r)
  /\ \A l \in LeftRow : \E p \in Peer :
       /\ \A q \in Peer : l \in Destined("left", q) <=> q = p
       /\ plan # "replication" => p = Hash(l)
  /\ \A s \in Side : \A p \in PastSide(s) : Owed(s, p) = {}

LEMMA MeetingsInit == Init => Meetings
<1> SUFFICES ASSUME Init PROVE Meetings
  OBVIOUS
<1>1. Inv
  BY InvInit
<1>2. PICK place \in [Row -> Peer] :
        /\ plan \in {"asymmetric", "semi"} => \A r \in LeftRow : place[r] = Hash(r)
        /\ child = [s \in Side |-> [p \in Peer |-> Partition(place, s, p)]]
  BY DEF Init
<1>3. ASSUME NEW s \in Side, NEW q \in Peer
      PROVE  ToSet(child[s][q]) = {r \in RowsOf(s) : place[r] = q}
  <2> DEFINE S == {r \in RowsOf(s) : place[r] = q}
  <2>1. IsFiniteSet(S)
    <3>1. IsFiniteSet(RowsOf(s)) /\ S \in SUBSET RowsOf(s)
      BY RowAssumption DEF RowsOf
    <3> QED
      BY <3>1, FS_Subset
  <2>2. child[s][q] = SetToSeq(S)
    BY <1>2 DEF Partition
  <2> QED
    BY <2>1, <2>2, SetOfSetToSeq
<1>4. ASSUME NEW s \in Side, NEW p \in Peer, NEW r \in RowsOf(s)
      PROVE  r \in Destined(s, p) <=> p \in Destinations(s, place[r], r)
  <2>1. place[r] \in Peer
    BY RowsOfSides
  <2>2. InChild(s, p, r) <=> p \in Destinations(s, place[r], r)
    BY <1>3, <2>1 DEF InChild
  <2>3. ~InHand(p, r) /\ ~InChannel(s, p, r) /\ ToSet(returned[s][p]) = {}
    BY RowsOfSides, SetOfEmpty DEF Init, InHand, Owes, NotSending, InChannel
  <2> QED
    BY <2>2, <2>3, OwedPlaces DEF Destined
<1>5. ASSUME NEW r \in RightRow, NEW p \in Peer
      PROVE  r \in Destined("right", p) <=> p \in Distribution("right", r)
  <2>1. r \in RowsOf("right") /\ "right" \in Side
    BY DEF RowsOf, Side
  <2>2. Destinations("right", place[r], r) = Distribution("right", r)
    BY DEF Destinations, Exchanged
  <2> QED
    BY <1>4, <2>1, <2>2
<1>6. ASSUME NEW l \in LeftRow
      PROVE  \E p \in Peer : /\ \A q \in Peer : l \in Destined("left", q) <=> q = p
                             /\ plan # "replication" => p = Hash(l)
  <2>1. l \in RowsOf("left") /\ "left" \in Side /\ l \in Row
    BY DEF RowsOf, Side, Row
  <2>2. \A q \in Peer : l \in Destined("left", q) <=> q \in Destinations("left", place[l], l)
    BY <1>4, <2>1
  <2>3. Hash(l) \in Peer /\ place[l] \in Peer
    BY <2>1, HashIsPeer
  <2>4. CASE plan = "symmetric"
    <3>1. Destinations("left", place[l], l) = {Hash(l)}
      BY <2>4 DEF Destinations, Exchanged, Distribution
    <3> QED
      BY <2>2, <2>3, <3>1
  <2>5. CASE plan # "symmetric"
    <3>1. Destinations("left", place[l], l) = {place[l]}
      BY <2>5 DEF Destinations, Exchanged
    <3>2. plan # "replication" => place[l] = Hash(l)
      BY <1>2, <2>5 DEF Init, Plan
    <3> QED
      BY <2>2, <2>3, <3>1, <3>2
  <2> QED
    BY <2>4, <2>5
<1>7. \A s \in Side : PastSide(s) = {}
  BY DEF Init, PastSide
<1> QED
  BY <1>5, <1>6, <1>7 DEF Meetings

LEMMA DestinedIsConstant ==
  ASSUME Inv, NEW s \in Side, Redistributes(s), NEW o \in Peer
  PROVE  Destined(s, o)' = Destined(s, o)
<1>1. CASE Stays(s) \/ \E p \in Peer : Ends(s, p)
  BY <1>1 DEF Stays, Ends, Destined
<1>2. ASSUME NEW p \in Peer, NEW r \in Row, Delivers(s, p, r)
      PROVE  Destined(s, o)' = Destined(s, o)
  <2>1. /\ r \in Owed(s, p)
        /\ Owed(s, o)' = IF o = p THEN Owed(s, p) \ {r} ELSE Owed(s, o)
        /\ returned'[s] = [returned[s] EXCEPT ![p] = Append(@, r)]
    BY <1>2 DEF Delivers
  <2>2. returned[s] \in [Peer -> Seq(Row)]
    BY DEF Inv, TypeOK
  <2>3. CASE o = p
    <3>1. returned'[s][p] = Append(returned[s][p], r) /\ returned[s][p] \in Seq(Row)
      BY <2>1, <2>2
    <3>2. ToSet(returned'[s][p]) = ToSet(returned[s][p]) \cup {r}
      BY <3>1, SetOfAppend
    <3> QED
      BY <2>1, <2>3, <3>2 DEF Destined
  <2>4. CASE o # p
    <3>1. returned'[s][o] = returned[s][o]
      BY <2>1, <2>2, <2>4
    <3> QED
      BY <2>1, <2>4, <3>1 DEF Destined
  <2> QED
    BY <2>3, <2>4
<1> QED
  BY <1>1, <1>2 DEF Redistributes

LEMMA MeetingsStep == Inv /\ Meetings /\ [Next]_vars => Meetings'
<1> SUFFICES ASSUME Inv, Meetings, [Next]_vars PROVE Meetings'
  OBVIOUS
<1>1. \A s \in Side : Redistributes(s)
  BY StepRedistributes
<1>2. \A s \in Side, p \in Peer : Destined(s, p)' = Destined(s, p)
  BY <1>1, DestinedIsConstant
<1>3. plan' = plan
  <2>1. ASSUME NEW p \in Peer, NEW s \in Side,
               LocalNext(p, s) \/ Pull(p, s) \/ SendTo(p, s) \/ Sent(p, s)
        PROVE  plan' = plan
    BY <2>1 DEF LocalNext, Pull, SendTo, Sent
  <2>2. ASSUME NEW p \in Peer, NEW s \in Side,
               CloseSend(p, s) \/ Receive(p, s) \/ ReturnNone(p, s)
        PROVE  plan' = plan
    BY <2>2 DEF CloseSend, Receive, ReturnNone
  <2> QED
    BY <2>1, <2>2 DEF Next, Step, vars
<1>4. ASSUME NEW s \in Side, NEW p \in Peer, p \in PastSide(s)'
      PROVE  Owed(s, p)' = {}
  <2>1. \A q \in PastSide(s) : Owed(s, q) = {}
    BY DEF Meetings
  <2>2. CASE Stays(s)
    BY <1>4, <2>1, <2>2 DEF Stays
  <2>3. ASSUME NEW q \in Peer, Ends(s, q) PROVE Owed(s, p)' = {}
    BY <1>4, <2>1, <2>3 DEF Ends
  <2>4. ASSUME NEW q \in Peer, NEW r \in Row, Delivers(s, q, r) PROVE Owed(s, p)' = {}
    BY <1>4, <2>1, <2>4 DEF Delivers
  <2> QED
    BY <1>1, <2>2, <2>3, <2>4 DEF Redistributes
<1>5. \A s \in Side : \A p \in PastSide(s)' : Owed(s, p)' = {}
  <2>1. \A s \in Side : PastSide(s)' \subseteq Peer
    BY DEF PastSide
  <2> QED
    BY <1>4, <2>1
<1>6. "left" \in Side /\ "right" \in Side
  BY DEF Side
<1>7. \A r \in RightRow : \A p \in Peer :
        r \in Destined("right", p)' <=> p \in Distribution("right", r)'
  BY <1>2, <1>3, <1>6 DEF Meetings, Distribution, Hash
<1>8. \A l \in LeftRow : \E p \in Peer :
        /\ \A q \in Peer : l \in Destined("left", q)' <=> q = p
        /\ plan' # "replication" => p = Hash(l)
  <2> SUFFICES ASSUME NEW l \in LeftRow
               PROVE  \E p \in Peer : /\ \A q \in Peer : l \in Destined("left", q)' <=> q = p
                                      /\ plan' # "replication" => p = Hash(l)
    OBVIOUS
  <2>1. PICK p \in Peer : /\ \A q \in Peer : l \in Destined("left", q) <=> q = p
                          /\ plan # "replication" => p = Hash(l)
    BY DEF Meetings
  <2> QED
    BY <1>2, <1>3, <1>6, <2>1
<1> QED
  BY <1>5, <1>7, <1>8 DEF Meetings, Hash

(***************************************************************************)
(* Two rows with the same key meet at exactly one peer, in every plan, for *)
(* any number of peers, any keys, negative ones included, and any          *)
(* partitions the plan accepts.                                            *)
(***************************************************************************)
THEOREM MatchesMeet == Spec => []MatchesMeetOnce
<1>1. Inv /\ Meetings => MatchesMeetOnce
  <2> SUFFICES ASSUME Inv, Meetings, \A p \in Peer : draining[p] = "done",
                      NEW l \in LeftRow, NEW r \in RightRow, Key[l] = Key[r]
               PROVE  Cardinality({p \in Peer : Meet(p, l, r)}) = 1
    BY DEF MatchesMeetOnce
  <2>1. \A s \in Side : \A p \in Peer : Owed(s, p) = {}
    BY DEF Meetings, PastSide
  <2>2. \A p \in Peer : /\ ToSet(returned["left"][p]) = Destined("left", p)
                        /\ ToSet(returned["right"][p]) = Destined("right", p)
    BY <2>1 DEF Destined, Side
  <2>3. PICK p \in Peer : /\ \A q \in Peer : l \in Destined("left", q) <=> q = p
                          /\ plan # "replication" => p = Hash(l)
    BY DEF Meetings
  <2>4. r \in Destined("right", p)
    <3>1. p \in Distribution("right", r)
      BY <2>3 DEF Distribution, Hash
    <3> QED
      BY <3>1 DEF Meetings
  <2>5. {q \in Peer : Meet(q, l, r)} = {p}
    BY <2>2, <2>3, <2>4 DEF Meet
  <2> QED
    BY <2>5, FS_Singleton
<1> QED
  BY <1>1, MeetingsInit, MeetingsStep, AlwaysInv, PTL DEF Spec

=============================================================================
