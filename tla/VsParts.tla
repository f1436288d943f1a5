------------------------------ MODULE VsParts ------------------------------
(***************************************************************************)
(* The partition list of a volume system (sleuthkit/tsk/vs/mm_part.c): in  *)
(* the order of the starts, each part with its place in the list as its    *)
(* address.  Parts of meta data (tables, extended partitions) lie over     *)
(* the others.                                                             *)
(***************************************************************************)
EXTENDS Integers, Sequences

\* TSK_VS_PART_FLAG_UNALLOC is "free" of an entry of the table and "unalloc" of
\* what tsk_vs_part_unused adds, which has no slot; TSK_VS_PART_FLAG_ALLOC is
\* "safety" of a part that is described as GPT Safety, and "alloc" of others.
PartFlags == {"meta", "alloc", "safety", "free", "unalloc"}
Parts == [start : Nat, len : Nat, flag : PartFlags, addr : Nat]

Part(start, len, flag) == [start |-> start, len |-> len, flag |-> flag, addr |-> 0]
EndOf(p) == p.start + p.len
IsMeta(p) == p.flag = "meta"

-----------------------------------------------------------------------------
(* tsk_vs_part_add *)

\* The first place with a larger start behind it.
Place(list, p) ==
  CHOOSE i \in 1..Len(list) + 1 :
    /\ i <= Len(list) => list[i].start > p.start
    /\ \A j \in 1..i - 1 : list[j].start <= p.start

AddrAt(list, i) ==
  IF i > 1 THEN list[i - 1].addr + 1
  ELSE IF list = << >> THEN 0 ELSE list[1].addr

Shifted(p) == [p EXCEPT !.addr = @ + 1]

PartAdd(list, p) ==
  LET i == Place(list, p) IN
  [k \in 1..Len(list) + 1 |->
     IF k < i THEN list[k]
     ELSE IF k = i THEN [p EXCEPT !.addr = AddrAt(list, i)]
     ELSE Shifted(list[k - 1])]

-----------------------------------------------------------------------------
(* What the list promises *)

IsInOrder(list) ==
  \A i, j \in 1..Len(list) : i <= j => list[i].start <= list[j].start
IsNumbered(list) == \A i \in 1..Len(list) : list[i].addr = i - 1
=============================================================================
