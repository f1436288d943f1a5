------------------------------ MODULE ReadPath ------------------------------
(***************************************************************************)
(* From the runs that a file system parser meets to the bytes that a caller*)
(* gets: an attribute is built by tsk_fs_attr_set_run and                  *)
(* tsk_fs_attr_add_run (RunList), then read by tsk_fs_attr_read (AttrRead) *)
(* or walked by tsk_fs_attr_walk (AttrWalk).                               *)
(***************************************************************************)
EXTENDS AttrWalk

CONSTANTS
  Chains,   \* chains of consecutive runs that the parser meets, in any order
  Modulus,  \* 2^64, of the block counts
  Headers   \* sizes that the parser may find in the attribute's header

ASSUME HeadersAssumption ==
  \A h \in Headers :
    /\ h.size \in Nat /\ h.initSize \in Nat /\ h.skip \in Nat
    /\ h.allocSize \in Nat /\ h.size <= h.allocSize

VARIABLES set, runs, end, failed, given, misplaced   \* those of RunList

list == <<set, runs, end, failed, given, misplaced>>
pathVars == <<vars, walk, list>>

List == INSTANCE RunList

ASSUME ChainsAssumption == List!ChainsAreRuns /\ List!ModulusIsPositive

\* The attributes that tsk_fs_attr_set_run has no part in are resident.
ASSUME ResidentAssumption == \A a \in Attributes : a.resident

NoAttr ==
  [resident |-> FALSE, size |-> 0, allocSize |-> 0, initSize |-> 0, skip |-> 0, runs |-> << >>]

\* The parser meets the next chain; it gives the file up when one is refused.
Parse ==
  /\ pc = "parse" /\ ~failed
  /\ List!Next
  /\ UNCHANGED <<vars, walk>>

\* A file with that attribute is opened.
Open(a) ==
  /\ pc = "parse" /\ ~failed
  /\ attr' = a
  /\ pc' = "open"
  /\ UNCHANGED <<off, len, slack, run, byteOff, want, remain, buf, result, walk, list>>

\* No run ends where a block count begins from 0 again.
NoneWraps == \A i \in 1..Len(runs) : List!EndOf(runs[i]) < Modulus

\* A file of which a run wraps is not read any further: AttrRead's counts are
\* those of the numbers.
OpenAny ==
  \/ \E a \in Attributes : ~set /\ Open(a)
  \/ \E h \in Headers :
       /\ set /\ NoneWraps
       /\ Open([resident |-> FALSE, size |-> h.size, allocSize |-> h.allocSize,
                initSize |-> h.initSize, skip |-> h.skip, runs |-> runs])

\* The caller asks for some of its bytes.
Ask ==
  /\ pc = "open"
  /\ off' \in Offsets /\ len' \in Lengths /\ slack' \in BOOLEAN
  /\ buf' = [p \in 1..len' |-> Stale]
  /\ pc' = "start"
  /\ UNCHANGED <<attr, run, byteOff, want, remain, result, walk, list>>

Read == ReadNext /\ UNCHANGED <<walk, list>>

Walk == WalkNext /\ UNCHANGED list

PathInit ==
  /\ List!Init /\ WalkInit
  /\ attr = NoAttr /\ off = 0 /\ len = 0 /\ slack = FALSE
  /\ pc = "parse"
  /\ run = 1 /\ byteOff = 0 /\ want = 0 /\ remain = 0
  /\ buf = << >> /\ result = 0

PathNext == Parse \/ OpenAny \/ Ask \/ Read \/ Walk

PathSpec == PathInit /\ [][PathNext]_pathVars

-----------------------------------------------------------------------------
(* What the file holds, as the parser was told *)

PastInitSize(p) == ~attr.resident /\ ~slack /\ p >= attr.initSize

\* Byte p of the runs: zero in a sparse run and where no run was met.
IsDiskByte(p, b) ==
  LET here == {g \in UNION {List!Places(c) : c \in given} : g.block = p \div BlockSize} IN
  IF here = {} THEN b = Zero
  ELSE \E g \in here :
         b = IF g.addr = List!Sparse THEN Zero ELSE g.addr * BlockSize + (p % BlockSize)

\* Byte p of the attribute.
IsByte(p, b) ==
  IF attr.resident THEN b = p
  ELSE IF PastInitSize(p) THEN b = Zero
  ELSE IsDiskByte(p, b)

\* The bytes that the runs hold.
Covered == IF runs = << >> THEN 0 ELSE List!EndOf(runs[Len(runs)]) * BlockSize

\* A read ended in a run that could not be read in full.
ReadFailed == pc = "done" /\ remain > 0 /\ run <= Len(attr.runs)

-----------------------------------------------------------------------------
(* Properties *)

\* No entry claimed a block that another one did, and no rest of a filler was
\* left behind a chain of several runs, the case of RunList_chains.
Ordinary == List!Apart(given) /\ ~misplaced

TypeOK ==
  /\ List!TypeOK /\ ReadTypeOK
  /\ pc \in {"parse", "open", "start", "runs", "done", "walk", "walked"}
  /\ result \in IF pc = "walked" THEN {0, 1} ELSE -1..len
  /\ noSparse \in BOOLEAN
  /\ idx \in Nat /\ at \in 0..End /\ skipRemain \in 0..attr.skip

\* The list of an ordinary file covers it from block 0 on without gap or overlap,
\* whatever the order in which its runs were added: what the loops of
\* tsk_fs_attr_read and tsk_fs_attr_walk take for granted.
ListIsContiguous == Ordinary => List!ListIsContiguous

\* Nothing that was added is lost, moved or invented, and only what is in the
\* list already is refused.
ListHoldsWhatWasGiven == Ordinary => List!ListHoldsWhatWasGiven

\* The bytes that a read counts are those of the file at the offset asked for:
\* from where its runs are on the disk, in whatever order they were met, with
\* zeros for those that were not met and behind the initialised size, also when
\* a later run could not be read.  Only what was read of that run may be the
\* disk's bytes past the initialised size, although a comment in the loop says
\* "we return 0s for reads past the initsize".
ReadsWhatWasGiven ==
  Ordinary /\ pc = "done" =>
    \A p \in 1..result :
      /\ off + p - 1 < End
      /\ IsByte(off + p - 1, buf[p]) \/ (ReadFailed /\ IsDiskByte(off + p - 1, buf[p]))

\* A read that meets no error returns all that was asked for, up to the end of
\* the attribute or of its runs.
ReadsAreFull ==
  Ordinary /\ pc = "done" /\ ~ReadFailed /\ off < End =>
    result = IF attr.resident \/ off + Least(len, End - off) <= Covered
             THEN Least(len, End - off)
             ELSE IF off < Covered THEN Covered - off ELSE 0

\* A walk gives the callback the same file as a read, whole and in order: each
\* chunk begins where the one before it ended, unless zeros are left out, and
\* holds the bytes of the file behind those to skip.  Where bytes are skipped,
\* the wiping behind the initialised size begins that much too early, since it
\* counts from the start of the block.
WalkGivesTheFile ==
  Ordinary => \A i \in 1..Len(chunks) :
    LET c == chunks[i]
        before == IF i = 1 THEN 0 ELSE chunks[i - 1].off + Len(chunks[i - 1].bytes)
    IN /\ c.off = before \/ (noSparse /\ c.off > before)
       /\ \A k \in 1..Len(c.bytes) :
            LET p == c.off + k - 1 IN
            /\ p < End
            /\ \/ IF attr.resident \/ PastInitSize(p) THEN IsByte(p, c.bytes[k])
                  ELSE IsDiskByte(p + attr.skip, c.bytes[k])
               \/ attr.skip > 0 /\ PastInitSize(p + attr.skip) /\ c.bytes[k] = Zero
=============================================================================
