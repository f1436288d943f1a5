----------------------------- MODULE MCAttrRead -----------------------------
(* Small instances of AttrRead: up to three runs of one or two blocks, in an *)
(* order on the disk that is not that of the file.                           *)
EXTENDS AttrRead

DiskOrder == <<3, 5, 1>>

\* The runs of the given lengths and kinds, placed one after the other in the
\* file, and in DiskOrder on the disk.
Layout(lens, kinds) ==
  LET before[i \in 1..Len(lens)] == IF i = 1 THEN 0 ELSE before[i - 1] + lens[i - 1]
  IN [i \in 1..Len(lens) |->
        [offset |-> before[i], len |-> lens[i], kind |-> kinds[i], addr |-> DiskOrder[i]]]

MCRunLists ==
  UNION {{Layout(l, k) : l \in [1..n -> 1..2], k \in [1..n -> RunKinds]} : n \in 0..3}

Blocks(runs) == IF runs = << >> THEN 0 ELSE runs[Len(runs)].offset + runs[Len(runs)].len

\* Attributes that end in the last block or past it, initialised in part.
\* tsk_fs_attr_set_run refuses an allocated size below the size.
MCAttributes ==
  UNION {LET all == Blocks(runs) * BlockSize IN
         {[resident |-> FALSE, size |-> s, allocSize |-> IF s > all THEN all + 2 ELSE all,
           initSize |-> i, skip |-> 0, runs |-> runs] :
            s \in {n \in {all - 1, all + 1} : n > 0}, i \in {0, 1, 3}} :
         runs \in MCRunLists}
  \cup {[resident |-> TRUE, size |-> s, allocSize |-> s, initSize |-> s, skip |-> 0, runs |-> << >>] :
          s \in 0..3}

MCOffsets == 0..7
MCLengths == {1, 2, 4, 7}
=============================================================================
