------------------------------- MODULE RadixJoin -------------------------------
(***************************************************************************)
(* The parallel radix join of radix-join/src/RadixJoin.cpp.  Both          *)
(* relations are partitioned by the low bits of their keys, R on a thread  *)
(* of its own while the caller partitions S; each partitioning counts with *)
(* T threads, computes where every thread writes every bucket, and         *)
(* scatters with T threads again.  Then T threads draw buckets from a      *)
(* shared counter and join them with a hash table each, and T threads copy *)
(* their results into the result relation.                                 *)
(*                                                                         *)
(* The steps of a thread that touch nothing another one writes are taken   *)
(* together: counting a slice, joining a bucket.  A row identifier is the  *)
(* position of the tuple.  Indices start at 0, as in the code.             *)
(***************************************************************************)
EXTENDS Naturals, Sequences, FiniteSets, FiniteSetsExt, SequencesExt

CONSTANTS
  T,        \* Config::NUM_CORES
  Share,    \* bytes of the cache a thread has, L3_CACHE_SIZE / NUM_CORES
  Sentinel, \* UINT64_MAX, the largest key and the mark of an empty slot
  Hash,     \* a key multiplied and shifted, before the mask is applied
  Input,    \* the relations that are joined: pairs of sequences of keys
  NoTuple   \* what data holds before it is written

Relation == {"R", "S"}
Thread == 0 .. T - 1
Key == 0 .. Sentinel

ASSUME ThreadAssumption == T \in Nat \ {0}
ASSUME ShareAssumption == Share \in Nat
ASSUME KeyAssumption == Sentinel \in Nat /\ Hash \in [Key -> Nat]
ASSUME InputAssumption == Input \subseteq [Relation -> Seq(Key)]

VARIABLES
  input,         \* the relations, functions from their indices to tuples
  bits,          \* the B of join(), fixed by the size of R
  phase,         \* per relation, how far its partitioning is
  counts,        \* per relation, thread and bucket: the histogram `buckets`
  pos,           \* per relation and thread, the next tuple of its slice
  write_offsets, \* per relation, thread and bucket
  data,          \* per relation, its PartitionedRelation
  offsets,
  next_bucket,
  pc,            \* per thread, where it is in join_buckets
  drawn,         \* per thread, the bucket it draws last
  thread_results,
  result         \* the pairs of the result relation

partitioning == <<phase, counts, pos, write_offsets, data, offsets>>
joining == <<next_bucket, pc, drawn, thread_results, result>>
vars == <<input, bits, partitioning, joining>>

Size(rel) == Cardinality(DOMAIN input[rel])

\* The n-th of a set of numbers, the least one first.
Nth(S, n) == CHOOSE i \in S : Cardinality({j \in S : j < i}) = n - 1

\* Least n from 0 to top with P(n), or top.
LeastUpTo(top, P(_)) == Min({n \in 0 .. top : P(n)} \cup {top})

\* 1 << n.
PowerOfTwo[n \in Nat] == IF n = 0 THEN 1 ELSE 2 * PowerOfTwo[n - 1]

\* A tuple of R takes 65 bytes, its share of the hash table included.
RadixBits == LeastUpTo(16, LAMBDA B : (Size("R") * 65) \div PowerOfTwo[B] <= Share)

Buckets == PowerOfTwo[bits]
Bucket == 0 .. Buckets - 1
BucketOf(tuple) == tuple.key % Buckets

Start(rel, t) == (Size(rel) * t) \div T
End(rel, t) == Start(rel, t + 1)
Slice(rel, t) == Start(rel, t) .. End(rel, t) - 1

SumCounts(rel, S) ==
  SumFunctionOnSet([tb \in Thread \X Bucket |-> counts[rel][tb[1]][tb[2]]], S)

\* Tuples in buckets before b.
BucketStart(rel, b) == SumCounts(rel, Thread \X (0 .. b - 1))

\* Fault: the tuples that earlier threads have in the same bucket are forgotten.
WriteStart_OneThread(rel, t, b) == BucketStart(rel, b)

WriteStart(rel, t, b) == BucketStart(rel, b) + SumCounts(rel, (0 .. t - 1) \X {b})

-----------------------------------------------------------------------------

Tuples(keys) == [i \in 0 .. Len(keys) - 1 |-> [key |-> keys[i + 1], rid |-> i]]

Init ==
  /\ \E in \in Input : input = [rel \in Relation |-> Tuples(in[rel])]
  /\ bits = RadixBits
  /\ phase = [rel \in Relation |-> "count"]
  /\ counts = [rel \in Relation |-> [t \in Thread |-> [b \in Bucket |-> 0]]]
  /\ pos = [rel \in Relation |-> [t \in Thread |-> Start(rel, t)]]
  /\ write_offsets = counts
  /\ data = [rel \in Relation |-> [i \in DOMAIN input[rel] |-> NoTuple]]
  /\ offsets = [rel \in Relation |-> <<>>]
  /\ next_bucket = 0
  /\ pc = [t \in Thread |-> "draw"]
  /\ drawn = [t \in Thread |-> 0]
  /\ thread_results = [t \in Thread |-> <<>>]
  /\ result = <<>>

\* No bits: the relation is copied as it is.
CopyWhole(rel) ==
  /\ phase[rel] = "count" /\ bits = 0
  /\ phase' = [phase EXCEPT ![rel] = "copied"]
  /\ data' = [data EXCEPT ![rel] = input[rel]]
  /\ offsets' = [offsets EXCEPT ![rel] = [b \in 0 .. 1 |-> b * Size(rel)]]
  /\ UNCHANGED <<input, bits, counts, pos, write_offsets, joining>>

\* pos moves to the end of the slice and is set back for the scattering.
Count(rel, t) ==
  /\ phase[rel] = "count" /\ bits # 0
  /\ pos[rel][t] # End(rel, t)
  /\ pos' = [pos EXCEPT ![rel][t] = End(rel, t)]
  /\ counts' = [counts EXCEPT ![rel][t] = [b \in Bucket |->
       Cardinality({i \in Slice(rel, t) : BucketOf(input[rel][i]) = b})]]
  /\ UNCHANGED <<input, bits, phase, write_offsets, data, offsets, joining>>

SlicesDone(rel) == \A t \in Thread : pos[rel][t] = End(rel, t)

\* The counting threads are joined.
PrefixSums(rel) ==
  /\ phase[rel] = "count" /\ bits # 0
  /\ SlicesDone(rel)
  /\ phase' = [phase EXCEPT ![rel] = "scatter"]
  /\ pos' = [pos EXCEPT ![rel] = [t \in Thread |-> Start(rel, t)]]
  /\ offsets' = [offsets EXCEPT ![rel] = [b \in 0 .. Buckets |-> BucketStart(rel, b)]]
  /\ write_offsets' = [write_offsets EXCEPT ![rel] =
       [t \in Thread |-> [b \in Bucket |-> WriteStart(rel, t, b)]]]
  /\ UNCHANGED <<input, bits, counts, data, joining>>

Scatter(rel, t) ==
  /\ phase[rel] = "scatter"
  /\ pos[rel][t] # End(rel, t)
  /\ LET tuple == input[rel][pos[rel][t]]
         b     == BucketOf(tuple)
     IN  /\ data' = [data EXCEPT ![rel][write_offsets[rel][t][b]] = tuple]
         /\ write_offsets' = [write_offsets EXCEPT ![rel][t][b] = @ + 1]
  /\ pos' = [pos EXCEPT ![rel][t] = @ + 1]
  /\ UNCHANGED <<input, bits, phase, counts, offsets, joining>>

Partitioned(rel) == phase[rel] = "copied" \/ (phase[rel] = "scatter" /\ SlicesDone(rel))

-----------------------------------------------------------------------------
(***************************************************************************)
(* The join of a bucket: a hash table with linear probing, at most a       *)
(* quarter full.                                                           *)
(***************************************************************************)
BucketTuples(rel, b) ==
  [i \in 1 .. offsets[rel][b + 1] - offsets[rel][b] |-> data[rel][offsets[rel][b] + i - 1]]

\* Fault: the table is as large as the bucket.
TableSize_Tight(n) == PowerOfTwo[LeastUpTo(n, LAMBDA e : PowerOfTwo[e] >= n)]

TableSize(n) == PowerOfTwo[LeastUpTo(4 * n, LAMBDA e : PowerOfTwo[e] >= 4 * n)]

Empty == [key |-> Sentinel, rid |-> 0]
Slot(table, key, k) == (Hash[key] + k) % Cardinality(DOMAIN table)

\* The steps of a probe for the key at which it may stop: at an empty slot, or at a key of S.
Stops(table, key, S) ==
  {k \in DOMAIN table : table[Slot(table, key, k)].key \in S \cup {Sentinel}}

Insert(table, tuple) ==
  [table EXCEPT ![Slot(table, tuple.key, Min(Stops(table, tuple.key, {})))] = tuple]

\* The one table that the tuples build, in a set.
Build(tuples) ==
  LET built[n \in 0 .. Len(tuples)] ==
        IF n = 0 THEN {[slot \in 0 .. TableSize(Len(tuples)) - 1 |-> Empty]}
        ELSE {Insert(table, tuples[n]) : table \in built[n - 1]}
  IN  built[Len(tuples)]

\* Fault: only the slot of the hash is looked at.
Probe_OneSlot(table, key) == table[Slot(table, key, 0)]

Probe(table, key) == table[Slot(table, key, Min(Stops(table, key, {key})))]

ProbeEnds(table, tuples) ==
  \A i \in DOMAIN tuples : Stops(table, tuples[i].key, {tuples[i].key}) # {}

\* The empty slot is recognised before the keys are compared.
Hit(table, s) == Probe(table, s.key).key # Sentinel /\ Probe(table, s.key).key = s.key

Hits(table, tuples) == {i \in DOMAIN tuples : Hit(table, tuples[i])}

\* The pairs that these tuples find, one after the other.
Matches(table, tuples, hits) ==
  LET match(s) == <<Probe(table, s.key).rid, s.rid>>
  IN  [n \in 1 .. Cardinality(hits) |-> match(tuples[Nth(hits, n)])]

\* fetch_add.
Draw(t) ==
  /\ \A rel \in Relation : Partitioned(rel)
  /\ pc[t] = "draw"
  /\ pc' = [pc EXCEPT ![t] = IF next_bucket \in Bucket THEN "join" ELSE "over"]
  /\ drawn' = [drawn EXCEPT ![t] = next_bucket]
  /\ next_bucket' = next_bucket + 1
  /\ UNCHANGED <<input, bits, partitioning, thread_results, result>>

JoinBucket(t) ==
  /\ pc[t] = "join"
  /\ pc' = [pc EXCEPT ![t] = "draw"]
  /\ LET r == BucketTuples("R", drawn[t])
         s == BucketTuples("S", drawn[t])
     IN  IF r = <<>> \/ s = <<>>
         THEN UNCHANGED thread_results
         ELSE \E table \in Build(r) :
                /\ ProbeEnds(table, s)
                /\ \E hits \in {Hits(table, s)} :
                     thread_results' =
                       [thread_results EXCEPT ![t] = @ \o Matches(table, s, hits)]
  /\ UNCHANGED <<input, bits, partitioning, next_bucket, drawn, result>>

ResultStart(t) == SumFunctionOnSet([u \in Thread |-> Len(thread_results[u])], 0 .. t - 1)

Resize ==
  /\ \A t \in Thread : pc[t] = "over"
  /\ pc' = [t \in Thread |-> "copy"]
  /\ result' = [i \in 1 .. ResultStart(T) |-> NoTuple]
  /\ UNCHANGED <<input, bits, partitioning, next_bucket, drawn, thread_results>>

CopyResults(t) ==
  /\ pc[t] = "copy"
  /\ pc' = [pc EXCEPT ![t] = "done"]
  /\ LET start == ResultStart(t)
         mine  == thread_results[t]
     IN  result' = [i \in DOMAIN result |->
           IF i - start \in DOMAIN mine THEN mine[i - start] ELSE result[i]]
  /\ UNCHANGED <<input, bits, partitioning, next_bucket, drawn, thread_results>>

Next ==
  \/ \E rel \in Relation : CopyWhole(rel) \/ PrefixSums(rel)
  \/ \E rel \in Relation, t \in Thread : Count(rel, t) \/ Scatter(rel, t)
  \/ \E t \in Thread : Draw(t) \/ JoinBucket(t) \/ CopyResults(t)
  \/ Resize

\* Every thread runs on by itself; none of them ever waits for a lock.
Fairness ==
  /\ WF_vars(Resize)
  /\ \A rel \in Relation : WF_vars(CopyWhole(rel) \/ PrefixSums(rel))
  /\ \A rel \in Relation, t \in Thread : WF_vars(Count(rel, t) \/ Scatter(rel, t))
  /\ \A t \in Thread : WF_vars(Draw(t) \/ JoinBucket(t) \/ CopyResults(t))

Spec == Init /\ [][Next]_vars /\ Fairness

-----------------------------------------------------------------------------

\* The indices of the tuples of a bucket.
Members(rel, b) == {i \in DOMAIN input[rel] : BucketOf(input[rel][i]) = b}

(***************************************************************************)
(* However the threads that scatter a relation interleave, a partitioned   *)
(* relation holds in every bucket exactly the tuples of that bucket, in    *)
(* the order they had: no two threads write the same slot, and none stays  *)
(* unwritten.                                                              *)
(***************************************************************************)
BucketsExact ==
  \A rel \in Relation : Partitioned(rel) =>
    /\ offsets[rel][Buckets] = Size(rel)
    /\ \A b \in Bucket :
         BucketTuples(rel, b) = [n \in 1 .. Cardinality(Members(rel, b)) |->
                                   input[rel][Nth(Members(rel, b), n)]]

\* The first tuple of R with this key.
Partner(s) ==
  {r \in {input["R"][i] : i \in DOMAIN input["R"]} :
     /\ r.key = s.key /\ r.key # Sentinel
     /\ \A i \in 0 .. r.rid - 1 : input["R"][i].key # r.key}

Expected ==
  UNION {{<<r.rid, input["S"][i].rid>> : r \in Partner(input["S"][i])} : i \in DOMAIN input["S"]}

Done == \A t \in Thread : pc[t] = "done"

(***************************************************************************)
(* When the join is over, its result pairs every tuple of S whose key      *)
(* occurs in R with the first such tuple of R, once, whichever threads     *)
(* joined which buckets; UINT64_MAX, the mark of an empty slot, has no     *)
(* partner.  That is the equi-join of README.md:3 only when the keys of R  *)
(* are distinct and none is UINT64_MAX.                                    *)
(***************************************************************************)
JoinExact ==
  Done => /\ ToSet(result) = Expected
          /\ Len(result) = Cardinality(Expected)

(***************************************************************************)
(* The join comes to an end: no probe circles in a full table, and the     *)
(* counter stops every thread.                                             *)
(***************************************************************************)
JoinEnds == <>Done

=============================================================================
