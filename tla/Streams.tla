------------------------------ MODULE Streams ------------------------------
(***************************************************************************)
(* The .NET streams of the wrapper (Streams.cs): FileStream over           *)
(* File.ReadBytes, DiskImageStream over DiskImage.ReadBytes, and           *)
(* Stream.CopyTo of the base class library, with which FileSystem.GetBitmap*)
(* copies the $Bitmap file.                                                *)
(***************************************************************************)
EXTENDS Integers, Sequences

CONSTANTS
  Length,    \* the size of the file or of the image
  Counts,    \* counts that Read is asked for
  Targets,   \* offsets that Seek is asked for
  MaxSeek    \* bound: no seek leads further than this, no read starts further before

ASSUME StreamAssumption ==
  Length \in Nat /\ Counts \subseteq Nat \ {0} /\ Targets \subseteq Int /\ MaxSeek \in Nat

VARIABLES
  kind,      \* "file" or "disk": the class of the stream
  position,  \* position
  answer,    \* what the last Read or Seek returned
  threw,     \* the last call threw an exception
  copying,   \* a CopyTo is going on
  start,     \* history: where it began
  copied     \* history: the offsets of the bytes that it has written

vars == <<kind, position, answer, threw, copying, start, copied>>

Least(a, b) == IF a <= b THEN a ELSE b
Interval(from, n) == [i \in 1..n |-> from + i - 1]

-----------------------------------------------------------------------------
(* The native reads: what they may return for n bytes at offset p.  Both     *)
(* report errors as -1; the error number tells the end of a file apart.      *)

EndOfFile == -1
ReadError == -2   \* -1 with any other error number

\* tsk_fs_file_read.  A read that fails in a later run of the file returns a
\* short count, which may be 0: see AttrRead.
NativeFileRead(p, n) ==
  IF p >= Length THEN {EndOfFile}
  ELSE {ReadError} \cup 0..(IF p < 0 THEN n ELSE Least(n, Length - p))

\* tsk_img_read: -1 outside of the image and for errors.
NativeDiskRead(p, n) ==
  IF p < 0 \/ p >= Length THEN {-1} ELSE -1..Least(n, Length - p)

-----------------------------------------------------------------------------
(* Read *)

\* Mutant: the error number is not compared with that of the end of the file.
FileReadBytesNoEof(p, n) == NativeFileRead(p, n) \ {ReadError}

\* File.ReadBytes: the end of the file is 0 bytes; other errors are exceptions.
FileReadBytes(p, n) ==
  {IF r = EndOfFile THEN 0 ELSE r : r \in NativeFileRead(p, n) \ {ReadError}}

\* What the call of ReadBytes in Read may return.
ReadBytes(p, n) == IF kind = "file" THEN FileReadBytes(p, n) ELSE NativeDiskRead(p, n)

\* A caller that wants the bytes at an offset of its buffer gets them with
\* Buffer.BlockCopy, which throws for a negative count.
CopiedOut(br, direct) == direct \/ br >= 0

ReadMayThrow(p, n, direct) ==
  \/ kind = "file" /\ ReadError \in NativeFileRead(p, n)
  \/ \E br \in ReadBytes(p, n) : ~CopiedOut(br, direct)

\* Mutant: the position advances by what was asked for.
AdvanceByCount(n, br) == position + n

Advance(n, br) == position + br

Read ==
  /\ ~copying /\ position > -MaxSeek
  /\ \E n \in Counts, direct \in BOOLEAN :
       \/ \E br \in ReadBytes(position, n) :
            /\ CopiedOut(br, direct)
            /\ answer' = br /\ threw' = FALSE
            /\ position' = Advance(n, br)
       \/ /\ ReadMayThrow(position, n, direct)
          /\ threw' = TRUE
          /\ UNCHANGED <<answer, position>>
  /\ UNCHANGED <<kind, copying, start, copied>>

-----------------------------------------------------------------------------
(* Seek, and the setter of Position *)

\* The position is assigned before it is looked at.
Seek ==
  /\ ~copying
  /\ \E o \in Targets, origin \in {0, position, Length} :
       /\ o + origin \in -MaxSeek..MaxSeek
       /\ position' = o + origin
       /\ threw' = (position' < 0)
       /\ answer' = IF position' < 0 THEN answer ELSE position'
  /\ UNCHANGED <<kind, copying, start, copied>>

-----------------------------------------------------------------------------
(* CopyTo (external): Read into the start of a buffer until it returns 0.    *)
(* Writing a negative count to the destination throws.                       *)

BeginCopy ==
  /\ ~copying /\ position > -MaxSeek
  /\ copying' = TRUE /\ start' = position /\ copied' = << >>
  /\ threw' = FALSE
  /\ UNCHANGED <<kind, position, answer>>

\* Read returned data: it is written, and there is another round.
CopyRound(br) ==
  /\ br > 0
  /\ copied' = copied \o Interval(position, br)
  /\ UNCHANGED <<copying, threw>>

\* Read returned 0, or less.
CopyStops(br) ==
  /\ br <= 0
  /\ copying' = FALSE
  /\ threw' = (br < 0)
  /\ copied' = << >>

Copy ==
  /\ copying
  /\ \E n \in Counts :
       \/ \E br \in ReadBytes(position, n) :
            /\ CopyRound(br) \/ CopyStops(br)
            /\ position' = Advance(n, br)
       \/ /\ ReadMayThrow(position, n, TRUE)
          /\ copying' = FALSE /\ threw' = TRUE /\ copied' = << >>
          /\ UNCHANGED position
  /\ UNCHANGED <<kind, answer, start>>

-----------------------------------------------------------------------------
Init ==
  /\ kind \in {"file", "disk"}
  /\ position = 0
  /\ answer = 0 /\ threw = FALSE
  /\ copying = FALSE /\ start = 0 /\ copied = << >>

StreamNext == Read \/ Seek \/ BeginCopy \/ Copy

Spec == Init /\ [][StreamNext]_vars

-----------------------------------------------------------------------------
(* Properties *)

StreamTypeOK ==
  /\ position \in Int
  /\ answer \in (IF kind = "file" THEN Nat ELSE Int) /\ threw \in BOOLEAN
  /\ copying \in BOOLEAN /\ start \in Int /\ copied \in Seq(Int)

\* What CopyTo has written of a stream is what lies between the position where
\* it began and the position now, each byte once and in order, however short
\* the reads were; so a copy that stops at the end holds the rest of the file
\* (GetBitmap, FileSystem.cs, takes it for the whole of $Bitmap).
CopyIsInOrder ==
  copying => copied = Interval(start, position - start)
=============================================================================
