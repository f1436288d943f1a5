------------------------------ MODULE AttrWalk ------------------------------
(***************************************************************************)
(* tsk_fs_attr_walk (sleuthkit/tsk/fs/fs_attr.cpp): the other reader of an *)
(* attribute, which hands it to a callback block after block; File.WalkFile*)
(* of the wrapper ends here.  It goes through the same runs as             *)
(* tsk_fs_attr_read and shares its variables, but counts its way through   *)
(* the attribute by itself.                                                *)
(***************************************************************************)
EXTENDS AttrRead

CONSTANT
  LastBlock   \* TSK_FS_INFO.last_block

ASSUME LastBlockAssumption == LastBlock \in Nat

VARIABLES
  noSparse,   \* TSK_FS_FILE_WALK_FLAG_NOSPARSE is given
  idx,        \* len_idx: block in the current run
  at,         \* off: offset in the attribute
  skipRemain, \* skip_remain
  chunks      \* what the callback was given, in order

walk == <<noSparse, idx, at, skipRemain, chunks>>
reading == <<byteOff, want, remain, buf>>
Walking == pc = "walk"

Chunk(bytes) == [off |-> at, bytes |-> bytes]

\* The callback takes a chunk and lets the walk go on, stops it, or fails.
Answers == {"continue", "stop", "error"}
Ends(answer, n) ==
  /\ pc' = IF answer # "continue" \/ at + n >= End THEN "walked" ELSE pc
  /\ result' = IF answer = "error" THEN 1 ELSE 0

BeginWalk ==
  /\ pc = "open"
  /\ pc' = "walk" /\ run' = 1
  /\ slack' \in BOOLEAN /\ noSparse' \in BOOLEAN
  /\ idx' = 0 /\ at' = 0 /\ chunks' = << >>
  /\ skipRemain' = attr.skip
  /\ UNCHANGED <<attr, off, len, reading, result>>

-----------------------------------------------------------------------------
(* tsk_fs_attr_walk_res: chunks of at most a block *)

WalkResident ==
  /\ Walking /\ attr.resident /\ at < attr.size
  /\ LET n == Least(BlockSize, attr.size - at) IN
     /\ chunks' = Append(chunks, Chunk([k \in 1..n |-> at + k - 1]))
     /\ at' = at + n
     /\ \E a \in Answers : Ends(a, n)
  /\ UNCHANGED <<call, reading, run, noSparse, idx, skipRemain>>

-----------------------------------------------------------------------------
(* tsk_fs_attr_walk_nonres *)

InBlocks == Walking /\ ~attr.resident /\ run <= Len(attr.runs)
BlockAddr == Cur.addr + idx

\* The block is not read: the callback gets zeros for it.
BlockIsZeros == Cur.kind # "data" \/ (at >= attr.initSize /\ ~slack)

\* Mutant: what lies behind the initialised size is left in the buffer.
BlockByteUncut(k) == IF BlockIsZeros THEN Zero ELSE BlockAddr * BlockSize + k

\* Byte k of the buffer: zero from the initialised size on.
BlockByte(k) ==
  IF BlockIsZeros \/ (~slack /\ at + k >= attr.initSize) THEN Zero
  ELSE BlockAddr * BlockSize + k

CalledSparse == Cur.kind # "data" \/ at > attr.initSize

\* An address out of range, or a block that cannot be read in full.
WalkBlockFails ==
  /\ InBlocks
  /\ \/ BlockAddr > LastBlock
     \/ ~BlockIsZeros /\ \E k \in FsRead(BlockAddr * BlockSize, BlockSize) : k # BlockSize
  /\ pc' = "walked" /\ result' = 1
  /\ UNCHANGED <<call, reading, run, walk>>

\* The next block of the run, or the first of the next run.
NextBlock ==
  IF idx + 1 < Cur.len THEN idx' = idx + 1 /\ run' = run
  ELSE idx' = 0 /\ run' = run + 1

BlockIsRead ==
  /\ BlockAddr <= LastBlock
  /\ BlockIsZeros \/ BlockSize \in FsRead(BlockAddr * BlockSize, BlockSize)

\* All of the block lies in the bytes to skip.
SkipBlock ==
  /\ InBlocks /\ BlockIsRead /\ skipRemain >= BlockSize
  /\ skipRemain' = skipRemain - BlockSize
  /\ NextBlock
  /\ UNCHANGED <<call, reading, pc, result, noSparse, at, chunks>>

GiveBlock ==
  /\ InBlocks /\ BlockIsRead /\ skipRemain < BlockSize
  /\ LET n == Least(BlockSize - skipRemain, End - at) IN
     /\ at' = at + n
     /\ \/ /\ CalledSparse /\ noSparse
           /\ Ends("continue", n)
           /\ UNCHANGED chunks
        \/ /\ ~(CalledSparse /\ noSparse)
           /\ chunks' = Append(chunks, Chunk([k \in 1..n |-> BlockByte(skipRemain + k - 1)]))
           /\ \E a \in Answers : Ends(a, n)
  /\ skipRemain' = 0
  /\ NextBlock
  /\ UNCHANGED <<call, reading, noSparse>>

\* No run, or no byte of a resident attribute, is left.
WalkEnds ==
  /\ Walking
  /\ IF attr.resident THEN at >= attr.size ELSE run > Len(attr.runs)
  /\ pc' = "walked" /\ result' = 0
  /\ UNCHANGED <<call, reading, run, walk>>

WalkNext ==
  BeginWalk \/ WalkResident \/ WalkBlockFails \/ SkipBlock \/ GiveBlock \/ WalkEnds

WalkInit ==
  noSparse = FALSE /\ idx = 0 /\ at = 0 /\ skipRemain = 0 /\ chunks = << >>
=============================================================================
