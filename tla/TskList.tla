------------------------------ MODULE TskList ------------------------------
(***************************************************************************)
(* TSK_LIST (sleuthkit/tsk/base/tsk_list.c): a set of addresses that is    *)
(* kept as a list of buckets with falling keys.  A bucket with key k and   *)
(* len n stands for the n addresses that end in k.  The list of a file     *)
(* system holds the deleted files that have a name; nothing else tells     *)
(* which deleted files are orphans.                                        *)
(***************************************************************************)
EXTENDS Integers, Sequences

CONSTANT
  MaxKey      \* UINT64_MAX: where key - len goes when a bucket reaches 0

ASSUME MaxKeyAssumption == MaxKey \in Nat

Buckets == [key : 0..MaxKey, len : 1..MaxKey + 1]

\* The pointer to no list is the empty list.
Empty == << >>
Bucket(k) == [key |-> k, len |-> 1]
Covered(b) == b.key + 1 - b.len .. b.key
Elements(list) == UNION {Covered(list[i]) : i \in DOMAIN list}

-----------------------------------------------------------------------------
(* tsk_list_add *)

\* key - len in 64 bits: the first address under the bucket.
Under(b) == IF b.len > b.key THEN MaxKey ELSE b.key - b.len

Grown(list, i, up) ==
  [list EXCEPT ![i].key = @ + (IF up THEN 1 ELSE 0), ![i].len = @ + 1]
InsertedAfter(list, i, k) ==
  SubSeq(list, 1, i) \o <<Bucket(k)>> \o SubSeq(list, i + 1, Len(list))

\* The bucket at which the loop ends: k belongs in it, right under it, or
\* between it and the next one.
EndsLoop(list, k, i) ==
  \/ k >= Under(list[i])
  \/ i = Len(list)
  \/ k >= list[i + 1].key
Place(list, k) ==
  CHOOSE i \in DOMAIN list :
    EndsLoop(list, k, i) /\ \A j \in 1..i - 1 : ~EndsLoop(list, k, j)

AddBelow(list, k) ==
  LET i == Place(list, k) IN
  IF k > Under(list[i]) THEN list
  ELSE IF k = Under(list[i])
    THEN IF i < Len(list) /\ list[i + 1].key = k THEN list ELSE Grown(list, i, FALSE)
  ELSE IF i = Len(list) THEN InsertedAfter(list, i, k)
  ELSE IF k = list[i + 1].key + 1 THEN Grown(list, i + 1, TRUE)
  ELSE IF k > list[i + 1].key THEN InsertedAfter(list, i, k)
  ELSE list

\* Mutant: a key that is not above the head is taken for a known one.
AddAtHeadOnly(list, k) ==
  IF list = Empty THEN <<Bucket(k)>>
  ELSE IF k = list[1].key + 1 THEN Grown(list, 1, TRUE)
  ELSE IF k > list[1].key THEN InsertedAfter(list, 0, k)
  ELSE list

Add(list, k) ==
  IF list = Empty THEN <<Bucket(k)>>
  ELSE IF k = list[1].key + 1 THEN Grown(list, 1, TRUE)
  ELSE IF k > list[1].key THEN InsertedAfter(list, 0, k)
  ELSE IF k = list[1].key THEN list
  ELSE AddBelow(list, k)

-----------------------------------------------------------------------------
(* tsk_list_find *)

\* The search gives up at the first bucket whose key is smaller.
Find(list, k) ==
  \E i \in DOMAIN list :
    /\ k \in Covered(list[i])
    /\ \A j \in 1..i - 1 : k <= list[j].key
=============================================================================
