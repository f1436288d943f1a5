------------------------------ MODULE AttrRead ------------------------------
(***************************************************************************)
(* tsk_fs_attr_read (sleuthkit/tsk/fs/fs_attr.cpp): reading part of a      *)
(* resident or a non-resident attribute of a file, run after run.  Every   *)
(* File.ReadBytes of the wrapper ends here; compressed attributes and      *)
(* logical files have readers of their own, which are not modelled.        *)
(*                                                                         *)
(* A byte of the file system is named by its address, a byte of a resident *)
(* attribute by its offset.                                                *)
(***************************************************************************)
EXTENDS Integers, Sequences

CONSTANTS
  BlockSize,   \* TSK_FS_INFO.block_size
  FsBytes,     \* bytes of the file system that the image holds
  Attributes,  \* attributes that are read
  Offsets,     \* a_offset
  Lengths      \* a_len

RunKinds == {"data", "sparse", "filler"}
Runs == [offset : Nat, len : Nat \ {0}, addr : Nat, kind : RunKinds]

\* The runs follow each other from block 0: see RunList for when they do.
Contiguous(runs) ==
  \A i \in 1..Len(runs) :
    runs[i].offset = IF i = 1 THEN 0 ELSE runs[i - 1].offset + runs[i - 1].len

ASSUME AttributesAssumption ==
  \A a \in Attributes :
    /\ a.resident \in BOOLEAN
    /\ a.size \in Nat /\ a.allocSize \in Nat /\ a.initSize \in Nat /\ a.skip \in Nat
    /\ a.size <= a.allocSize   \* refused by tsk_fs_attr_set_run
    /\ a.runs \in Seq(Runs) /\ Contiguous(a.runs)
ASSUME ReadAssumption ==
  /\ BlockSize \in Nat \ {0} /\ FsBytes \in Nat
  /\ Offsets \subseteq Nat /\ Lengths \subseteq Nat

VARIABLES
  attr,     \* the attribute
  off,      \* a_offset
  len,      \* a_len
  slack,    \* TSK_FS_FILE_READ_FLAG_SLACK is given
  pc,       \* where the call is
  run,      \* position of data_run_cur in the runs
  byteOff,  \* byteoffset_toread
  want,     \* len_toread
  remain,   \* len_remain
  buf,      \* a_buf
  result    \* what is returned

vars == <<attr, off, len, slack, pc, run, byteOff, want, remain, buf, result>>
call == <<attr, off, len, slack>>

Zero == -1    \* a byte that was set to 0
Stale == -2   \* a byte of a_buf that was not written

Least(a, b) == IF a <= b THEN a ELSE b

\* The end of what may be read.
End == IF slack /\ ~attr.resident THEN attr.allocSize ELSE attr.size

\* a_buf with n bytes from position at on set to Byte(0), Byte(1), ...
Filled(at, n, Byte(_)) ==
  [p \in 1..len |-> IF at < p /\ p <= at + n THEN Byte(p - at - 1) ELSE buf[p]]

-----------------------------------------------------------------------------
(* tsk_fs_read_decrypt on an unencrypted file system without pre- and post-  *)
(* bytes in its blocks                                                       *)

\* What reading n bytes at address a may return: an error, or some of them.
FsRead(a, n) == IF a >= FsBytes THEN {-1} ELSE -1..Least(n, FsBytes - a)

-----------------------------------------------------------------------------
(* tsk_fs_attr_read *)

RefuseOffset ==
  /\ pc = "start" /\ off >= End
  /\ result' = -1
  /\ pc' = "done"
  /\ UNCHANGED <<call, run, byteOff, want, remain, buf>>

ReadResident ==
  /\ pc = "start" /\ off < End /\ attr.resident
  /\ LET n == Least(len, End - off) IN
     /\ buf' = [p \in 1..len |-> IF p <= n THEN off + p - 1 ELSE Zero]
     /\ result' = n
  /\ pc' = "done"
  /\ UNCHANGED <<call, run, byteOff, want, remain>>

\* The part of the buffer that will not be read into is wiped first.
StartRuns ==
  /\ pc = "start" /\ off < End /\ ~attr.resident
  /\ want' = Least(len, End - off)
  /\ remain' = want'
  /\ byteOff' = off % BlockSize
  /\ buf' = [p \in 1..len |-> IF p > want' THEN Zero ELSE buf[p]]
  /\ run' = 1
  /\ pc' = "runs"
  /\ UNCHANGED <<call, result>>

Block == off \div BlockSize   \* blkoffset_toread
Cur == attr.runs[run]
InRuns == pc = "runs" /\ remain > 0 /\ run <= Len(attr.runs)

Before(r) == r.offset + r.len <= Block

\* Mutant: every run is read from its start.
BlockInRunFromStart(r) == 0

\* blkoffset_inrun
BlockInRun(r) == IF r.offset < Block THEN Block - r.offset ELSE 0

\* Mutant: the run is read to its end, whatever remains.
LenInRunToItsEnd(r) == (r.len - BlockInRun(r)) * BlockSize - byteOff

\* len_inrun
LenInRun(r) == Least((r.len - BlockInRun(r)) * BlockSize - byteOff, remain)

\* The offset in the attribute of the first byte to read from the run.
FileOffset(r) == (r.offset + BlockInRun(r)) * BlockSize + byteOff

ReturnsZeros(r) ==
  r.kind # "data" \/ (FileOffset(r) >= attr.initSize /\ ~slack)

SkipRun ==
  /\ InRuns /\ Before(Cur)
  /\ run' = run + 1
  /\ UNCHANGED <<call, pc, byteOff, want, remain, buf, result>>

\* Mutant: the offset in the first block is used in every run.
NextRunKeepsByteOff ==
  /\ remain' = remain - LenInRun(Cur)
  /\ run' = run + 1
  /\ UNCHANGED byteOff

NextRun ==
  /\ remain' = remain - LenInRun(Cur)
  /\ run' = run + 1
  /\ byteOff' = 0

ZeroRun ==
  /\ InRuns /\ ~Before(Cur) /\ ReturnsZeros(Cur)
  /\ buf' = Filled(want - remain, LenInRun(Cur), LAMBDA k : Zero)
  /\ NextRun
  /\ UNCHANGED <<call, pc, want, result>>

\* fs_offset_b
Address(r) == (r.addr + BlockInRun(r)) * BlockSize + byteOff

\* Byte k of those read from the run, set to 0 past the initialised size.
ByteOfRun(r, k) ==
  IF FileOffset(r) + k >= attr.initSize /\ ~slack THEN Zero ELSE Address(r) + k

ReadRun ==
  /\ InRuns /\ ~Before(Cur) /\ ~ReturnsZeros(Cur)
  /\ LenInRun(Cur) \in FsRead(Address(Cur), LenInRun(Cur))
  /\ buf' = Filled(want - remain, LenInRun(Cur), LAMBDA k : ByteOfRun(Cur, k))
  /\ NextRun
  /\ UNCHANGED <<call, pc, want, result>>

\* An error or a short read ends the call with the count of this one read.
ReadRunFails ==
  /\ InRuns /\ ~Before(Cur) /\ ~ReturnsZeros(Cur)
  /\ \E k \in FsRead(Address(Cur), LenInRun(Cur)) \ {LenInRun(Cur)} :
       /\ buf' = Filled(want - remain, k, LAMBDA j : Address(Cur) + j)
       /\ result' = k
  /\ pc' = "done"
  /\ UNCHANGED <<call, run, byteOff, want, remain>>

EndOfRuns ==
  /\ pc = "runs" /\ ~InRuns
  /\ result' = want - remain
  /\ pc' = "done"
  /\ UNCHANGED <<call, run, byteOff, want, remain, buf>>

-----------------------------------------------------------------------------
Init ==
  /\ attr \in Attributes /\ off \in Offsets /\ len \in Lengths /\ slack \in BOOLEAN
  /\ pc = "start"
  /\ run = 1 /\ byteOff = 0 /\ want = 0 /\ remain = 0
  /\ buf = [p \in 1..len |-> Stale]
  /\ result = 0

ReadNext ==
  \/ RefuseOffset \/ ReadResident \/ StartRuns
  \/ SkipRun \/ ZeroRun \/ ReadRun \/ ReadRunFails \/ EndOfRuns

Spec == Init /\ [][ReadNext]_vars

-----------------------------------------------------------------------------
(* Properties *)

ReadTypeOK ==
  /\ run \in Nat \ {0} /\ byteOff \in 0..(BlockSize - 1)
  /\ want \in 0..len /\ remain \in 0..want
  /\ buf \in [1..len -> Int]

\* What the function's comment says it returns: "The number of bytes read or
\* -1 on error".
ReturnsNumberOfBytesRead ==
  pc = "done" /\ result >= 0 =>
    \A p \in 1..len : buf[p] >= 0 => p <= result
=============================================================================
