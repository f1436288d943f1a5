------------------------------ MODULE RawImage ------------------------------
(***************************************************************************)
(* The read callback of raw and split images (sleuthkit/tsk/img/raw.cpp):  *)
(* raw_read walks over the segments of the image, raw_read_segment keeps a *)
(* few of their files open and a copy of each file position.               *)
(*                                                                         *)
(* Threads come here in two ways: tsk_img_read on the image itself holds   *)
(* the cache_lock of the image; a read of an APFS pool volume              *)
(* (apfs_img_read in pool/apfs_pool_compat.cpp) calls the callback while   *)
(* it holds the cache_lock of the pool's own image information only.       *)
(***************************************************************************)
EXTENDS Integers, Sequences

CONSTANTS
  Threads,   \* threads that read
  Infos,     \* image informations, each with a cache_lock
  Through,   \* thread -> the one whose lock it takes
  Base,      \* the raw image itself
  NoThread,  \* owner of a free lock
  SegSize,   \* sizes of the segment files
  SlotNum,   \* SPLIT_CACHE
  Lengths,   \* lengths that are asked for
  Flaky      \* segments whose file may fail to open, to seek or to be read

Segments == 1..Len(SegSize)
Slots == 0..(SlotNum - 1)
Closed == 0   \* an fd of no file, and cptr's -1

ASSUME ImageAssumption ==
  /\ SegSize \in Seq(Nat) /\ Len(SegSize) > 0
  /\ SlotNum \in Nat \ {0} /\ Lengths \subseteq Nat \ {0}
  /\ Base \in Infos /\ Through \in [Threads -> Infos]
  /\ NoThread \notin Threads /\ Flaky \subseteq Segments

VARIABLES
  lock,      \* image information -> owner of its cache_lock
  cptr,      \* segment -> slot it is open in, plus one, or Closed
  fd,        \* slot -> segment whose file is open there, or Closed
  image,     \* slot -> the segment that the slot was opened for
  seekPos,   \* slot -> seek_pos
  filePos,   \* slot -> the position that the operating system keeps
  nextSlot,  \* next_slot
  call       \* thread -> its call of raw_read

vars == <<lock, cptr, fd, image, seekPos, filePos, nextSlot, call>>
slots == <<cptr, fd, image, seekPos, filePos, nextSlot>>

-----------------------------------------------------------------------------
(* The table of segments that raw_open fills *)

MaxOff[i \in 0..Len(SegSize)] == IF i = 0 THEN 0 ELSE MaxOff[i - 1] + SegSize[i]
Size == MaxOff[Len(SegSize)]
Offsets == 0..Size

Least(a, b) == IF a <= b THEN a ELSE b

\* A call: where it is, what is left to do in which segment, what it got so
\* far, and whether those bytes are the ones asked for.
Calls == [pc : {"idle", "lock", "open", "seek", "read", "done"},
          off : Offsets, asked : Nat, left : Nat, seg : Segments, rel : Nat,
          want : Nat, slot : Slots, got : Int, right : BOOLEAN]

NoCall == [pc |-> "idle", off |-> 0, asked |-> 0, left |-> 0, seg |-> 1, rel |-> 0,
           want |-> 0, slot |-> 0, got |-> 0, right |-> TRUE]

At(t, p) == call[t].pc = p
Goto(t, p) == call' = [call EXCEPT ![t].pc = p]
Fail(t) == call' = [call EXCEPT ![t].pc = "done", ![t].got = -1]

-----------------------------------------------------------------------------
(* Taking the lock of the image information that the thread reads *)

Begin(t) ==
  /\ At(t, "idle")
  /\ \E o \in 0..(Size - 1), n \in Lengths :   \* tsk_img_read refuses the rest
       call' = [call EXCEPT ![t] =
                  [NoCall EXCEPT !.pc = "lock", !.off = o, !.asked = n, !.left = n]]
  /\ UNCHANGED <<lock, slots>>

\* Mutant: the offset where a segment ends is taken to be inside it.
EndBelongsToSegment(o, i) == o <= MaxOff[i]

InOrBefore(o, i) == o < MaxOff[i]

\* The segment where the data starts, the first that ends after it.
StartsIn(o, i) == InOrBefore(o, i) /\ \A j \in 1..(i - 1) : ~InOrBefore(o, j)

TakeLock(t) ==
  /\ At(t, "lock")
  /\ lock[Through[t]] = NoThread
  /\ lock' = [lock EXCEPT ![Through[t]] = t]
  /\ LET c == call[t] IN
     \E i \in Segments :
       /\ StartsIn(c.off, i)
       /\ call' = [call EXCEPT ![t] =
            [c EXCEPT !.pc = "open", !.seg = i, !.rel = c.off - MaxOff[i - 1],
                      !.want = Least(MaxOff[i] - c.off, c.left)]]
  /\ UNCHANGED slots

-----------------------------------------------------------------------------
(* raw_read_segment *)

AlreadyOpen(t) ==
  /\ At(t, "open")
  /\ cptr[call[t].seg] # Closed
  /\ call' = [call EXCEPT ![t].pc = "seek", ![t].slot = cptr[call[t].seg] - 1]
  /\ UNCHANGED <<lock, slots>>

\* Mutant: the segment whose file is closed still points to the slot.
AfterClosingUnnoticed(s) == cptr

\* cptr after the file in slot s has been closed to make room.
AfterClosing(s) ==
  IF fd[s] = Closed THEN cptr ELSE [cptr EXCEPT ![image[s]] = Closed]

\* Mutant: the round robin never starts again.
SlotAfterUnwrapped(s) == s + 1

SlotAfter(s) == IF s + 1 = SlotNum THEN 0 ELSE s + 1

\* Mutant: the slot keeps the position of the file it held before.
RewindFileOnly(s) ==
  /\ filePos' = [filePos EXCEPT ![s] = 0]
  /\ UNCHANGED seekPos

Rewind(s) ==
  /\ filePos' = [filePos EXCEPT ![s] = 0]
  /\ seekPos' = [seekPos EXCEPT ![s] = 0]

\* The next slot in turn is closed, if it is in use, and opened again.
OpenSegment(t) ==
  /\ At(t, "open")
  /\ LET i == call[t].seg
         s == nextSlot
     IN /\ cptr[i] = Closed
        /\ cptr' = [AfterClosing(s) EXCEPT ![i] = s + 1]
        /\ fd' = [fd EXCEPT ![s] = i]
        /\ image' = [image EXCEPT ![s] = i]
        /\ Rewind(s)
        /\ nextSlot' = SlotAfter(s)
        /\ call' = [call EXCEPT ![t].pc = "seek", ![t].slot = s]
  /\ UNCHANGED lock

\* The file does not open; the slot was closed all the same.
OpenFails(t) ==
  /\ At(t, "open")
  /\ call[t].seg \in Flaky
  /\ cptr[call[t].seg] = Closed
  /\ cptr' = AfterClosing(nextSlot)
  /\ fd' = [fd EXCEPT ![nextSlot] = Closed]
  /\ Fail(t)
  /\ UNCHANGED <<lock, image, seekPos, filePos, nextSlot>>

\* lseek only when the recorded position is not the one that is needed.
SeekSegment(t) ==
  /\ At(t, "seek")
  /\ LET s == call[t].slot
         rel == call[t].rel
     IN IF seekPos[s] = rel THEN UNCHANGED <<seekPos, filePos>>
        ELSE /\ fd[s] # Closed
             /\ filePos' = [filePos EXCEPT ![s] = rel]
             /\ seekPos' = [seekPos EXCEPT ![s] = rel]
  /\ Goto(t, "read")
  /\ UNCHANGED <<lock, cptr, fd, image, nextSlot>>

SeekFails(t) ==
  /\ At(t, "seek")
  /\ seekPos[call[t].slot] # call[t].rel
  /\ call[t].seg \in Flaky \/ fd[call[t].slot] = Closed
  /\ Fail(t)
  /\ UNCHANGED <<lock, slots>>

ReadFails(t) ==
  /\ At(t, "read")
  /\ call[t].seg \in Flaky \/ fd[call[t].slot] = Closed
  /\ Fail(t)
  /\ UNCHANGED <<lock, slots>>

\* What read(fd, buf, n) may return: it stops at the end of the file.
ReadCounts(s, n) ==
  LET most == IF filePos[s] >= SegSize[fd[s]] THEN 0
              ELSE Least(n, SegSize[fd[s]] - filePos[s])
  IN IF fd[s] \in Flaky THEN 0..most ELSE {most}

\* Mutant: the next segment is read from where the first one was.
ContinueAtSameOffset(c) ==
  [c EXCEPT !.pc = "open", !.seg = c.seg + 1,
            !.want = Least(SegSize[c.seg + 1], c.left)]

\* On to the start of the next segment.
Continue(c) ==
  [c EXCEPT !.pc = "open", !.seg = c.seg + 1, !.rel = 0,
            !.want = Least(SegSize[c.seg + 1], c.left)]

\* The bytes that the next read of the file in slot s returns are those that
\* call c needs next.
AtTheRightPlace(s, c) == MaxOff[fd[s] - 1] + filePos[s] = c.off + c.got

\* The end of raw_read_segment, and raw_read up to its next call of it.
ReadSegment(t) ==
  /\ At(t, "read")
  /\ LET c == call[t]
         s == c.slot
     IN /\ fd[s] # Closed
        /\ \E n \in ReadCounts(s, c.want) :
             /\ filePos' = [filePos EXCEPT ![s] = @ + n]
             /\ seekPos' = [seekPos EXCEPT ![s] = @ + n]
             /\ LET d == [c EXCEPT !.got = @ + n, !.left = @ - n,
                            !.right = @ /\ (n = 0 \/ AtTheRightPlace(s, c))]
                IN call' = [call EXCEPT ![t] =
                     IF n # c.want \/ d.left = 0 \/ c.seg = Len(SegSize)
                     THEN [d EXCEPT !.pc = "done"]
                     ELSE Continue(d)]
  /\ UNCHANGED <<lock, cptr, fd, image, nextSlot>>

Return(t) ==
  /\ At(t, "done")
  /\ lock' = [lock EXCEPT ![Through[t]] = NoThread]
  /\ call' = [call EXCEPT ![t] = NoCall]
  /\ UNCHANGED slots

-----------------------------------------------------------------------------
Init ==
  /\ lock = [i \in Infos |-> NoThread]
  /\ cptr = [i \in Segments |-> Closed]
  /\ fd = [s \in Slots |-> Closed]
  /\ image = [s \in Slots |-> 1]
  /\ seekPos = [s \in Slots |-> 0]
  /\ filePos = [s \in Slots |-> 0]
  /\ nextSlot = 0
  /\ call = [t \in Threads |-> NoCall]

Next ==
  \E t \in Threads :
    \/ Begin(t) \/ TakeLock(t) \/ Return(t)
    \/ AlreadyOpen(t) \/ OpenSegment(t) \/ OpenFails(t)
    \/ SeekSegment(t) \/ SeekFails(t)
    \/ ReadSegment(t) \/ ReadFails(t)

Spec == Init /\ [][Next]_vars

-----------------------------------------------------------------------------
(* Properties *)

InCallback(t) == call[t].pc \in {"open", "seek", "read"}

TypeOK ==
  /\ lock \in [Infos -> Threads \cup {NoThread}]
  /\ cptr \in [Segments -> 0..SlotNum]
  /\ fd \in [Slots -> 0..Len(SegSize)]
  /\ image \in [Slots -> Segments]
  /\ seekPos \in [Slots -> Nat] /\ filePos \in [Slots -> Nat]
  /\ nextSlot \in Slots
  /\ call \in [Threads -> Calls]

\* A segment is open in at most one slot, the slot and the table of segments
\* agree on which, and an fd is never given up while cptr still points to it,
\* however opens fail and slots are recycled.
SlotsAgree ==
  /\ \A i \in Segments : cptr[i] # Closed =>
       fd[cptr[i] - 1] = i /\ image[cptr[i] - 1] = i
  /\ \A s \in Slots : fd[s] # Closed => cptr[fd[s]] = s + 1

\* The copy of the file position is right, so leaving out the lseek is too.
SeekPosIsFilePos ==
  \A s \in Slots : fd[s] # Closed => seekPos[s] = filePos[s]

\* The bytes that a call returns are those of the image from the offset that
\* was asked for on: across segments, files that were closed and opened again
\* in another slot, reads that ended early, and opens and seeks that failed.
BytesAreRight == \A t \in Threads : call[t].got > 0 => call[t].right

\* The segments that call c has to read.
Needs(c) == {i \in Segments : MaxOff[i - 1] < c.off + c.asked /\ c.off < MaxOff[i]}

\* Failures of one file do no harm to the others: a call on sound files stops
\* short only at the end of the image, also after opens, seeks and reads of
\* other files have failed in the slot that it uses.
SoundReadsAreFull ==
  \A t \in Threads : At(t, "done") /\ Needs(call[t]) \cap Flaky = {} =>
    call[t].got = Least(call[t].asked, Size - call[t].off)

\* raw.cpp, on raw_read: "The routine -assumes- we are under a lock on
\* &(img_info->cache_lock)".
RawReadIsUnderLock == \A t \in Threads : InCallback(t) => lock[Base] = t
=============================================================================
