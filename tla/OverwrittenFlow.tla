--------------------------- MODULE OverwrittenFlow ---------------------------
(***************************************************************************)
(* FileSystem.GetFileAllocationFlags for deleted files of an NTFS volume,  *)
(* call after call (FileSystem.cs): the first call copies $Bitmap with     *)
(* CopyTo (Streams), keeps the copy for the life of the file system, and   *)
(* every call looks the clusters of its file up in it (NtfsBitmap).        *)
(* Another thread may load it at the same time; nothing is locked.         *)
(***************************************************************************)
EXTENDS Streams

CONSTANTS
  ByteBits, IntBits, Half,  \* those of NtfsBitmap
  RunLists,                 \* runs of the files that are asked about
  Contents                  \* allocated clusters that $Bitmap may have on the disk

VARIABLES
  phase,     \* "streams" (a caller uses its own stream), "idle", or in a call:
             \* "bitmap", "copy", "check"
  content,   \* the allocated clusters in $Bitmap on the disk
  bitmap,    \* _bitmap: offsets of its bytes in $Bitmap, or Null
  used,      \* the copy that this call looks at
  other,     \* another thread is in GetBitmap
  runs, pc, r, i, index, bit, verdict   \* those of NtfsBitmap

flowVars == <<vars, phase, content, bitmap, used, other, runs, pc, r, i, index, bit, verdict>>
stream == vars
check == <<pc, r, i, index, bit>>

Null == <<-1>>

\* The clusters that the copy marks: byte k of it is the byte used[k + 1] of the file.
MarkedIn(copy) ==
  {c \in 0..(Len(copy) * ByteBits - 1) :
     copy[(c \div ByteBits) + 1] * ByteBits + (c % ByteBits) \in content}

Check == INSTANCE NtfsBitmap WITH
           bytes <- Len(used), taken <- MarkedIn(used), MaxBytes <- Length

ASSUME FlowAssumption == Check!WidthsAreRight /\ Check!RunListsAreRight

-----------------------------------------------------------------------------
\* A caller reads, seeks in, or copies a stream of its own.
UseStream ==
  /\ phase = "streams"
  /\ StreamNext
  /\ UNCHANGED <<phase, content, bitmap, used, other, runs, check, verdict>>

\* GetFileAllocationFlags is called for a deleted file.
Ask ==
  /\ phase \in {"streams", "idle"} /\ ~copying
  /\ phase' = "bitmap"
  /\ runs' \in RunLists
  /\ verdict' = "free"
  /\ kind' = "file" /\ position' = 0 /\ answer' = 0 /\ threw' = FALSE
  /\ copying' = FALSE /\ start' = 0 /\ copied' = << >>
  /\ UNCHANGED <<content, bitmap, used, other, check>>

Look(copy) ==
  /\ used' = copy
  /\ phase' = "check"
  /\ pc' = "runs" /\ r' = 1 /\ i' = 0 /\ index' = 0 /\ bit' = 0

UseBitmap ==
  /\ phase = "bitmap" /\ bitmap # Null
  /\ Look(bitmap)
  /\ UNCHANGED <<stream, content, bitmap, other, runs, verdict>>

\* GetBitmap opens entry 6 and copies it.
OpenBitmap ==
  /\ phase = "bitmap" /\ bitmap = Null
  /\ BeginCopy
  /\ phase' = "copy"
  /\ UNCHANGED <<content, bitmap, used, other, runs, check, verdict>>

Fail ==
  /\ phase' = "idle" /\ verdict' = "threw"
  /\ UNCHANGED <<used, check>>

\* Entry 6 does not open: FileStream is given null, which throws.
OpenBitmapFails ==
  /\ phase = "bitmap" /\ bitmap = Null
  /\ Fail
  /\ UNCHANGED <<stream, content, bitmap, other, runs>>

CopyBitmap ==
  /\ phase = "copy"
  /\ Copy
  /\ \/ copying' /\ UNCHANGED <<phase, bitmap, used, check, verdict>>
     \/ /\ ~copying'
        /\ IF threw' THEN Fail /\ UNCHANGED bitmap
           ELSE bitmap' = copied /\ Look(copied) /\ UNCHANGED verdict
  /\ UNCHANGED <<content, other, runs>>

\* IsOverwrittenNTFS and IsFree.
CheckRuns ==
  /\ phase = "check" /\ UNCHANGED <<stream, phase, content, bitmap, used, other>>
  /\ Check!Next

Return ==
  /\ phase = "check" /\ pc = "done"
  /\ phase' = "idle"
  /\ runs' = << >> /\ used' = << >>
  /\ r' = 1 /\ i' = 0 /\ index' = 0 /\ bit' = 0
  /\ UNCHANGED <<stream, content, bitmap, other, pc, verdict>>

\* Another thread finds _bitmap null, and later assigns its own copy.
OtherBegins ==
  /\ phase # "streams" /\ ~other /\ bitmap = Null
  /\ other' = TRUE
  /\ UNCHANGED <<stream, phase, content, bitmap, used, runs, check, verdict>>

OtherStores ==
  /\ other
  /\ \E n \in 0..Length : bitmap' = Interval(0, n)
  /\ other' = FALSE
  /\ UNCHANGED <<stream, phase, content, used, runs, check, verdict>>

-----------------------------------------------------------------------------
FlowInit ==
  /\ Init
  /\ phase = "streams"
  /\ content \in Contents /\ bitmap = Null /\ used = << >> /\ other = FALSE
  /\ runs = << >> /\ pc = "done" /\ r = 1 /\ i = 0 /\ index = 0 /\ bit = 0
  /\ verdict = "free"

FlowNext ==
  \/ UseStream \/ Ask
  \/ UseBitmap \/ OpenBitmap \/ OpenBitmapFails \/ CopyBitmap
  \/ CheckRuns \/ Return
  \/ OtherBegins \/ OtherStores

FlowSpec == FlowInit /\ [][FlowNext]_flowVars

-----------------------------------------------------------------------------
(* Properties *)

TypeOK ==
  /\ StreamTypeOK
  /\ phase \in {"streams", "idle", "bitmap", "copy", "check"}
  /\ bitmap = Null \/ bitmap \in Seq(0..(Length - 1))
  /\ used \in Seq(0..(Length - 1))
  /\ Check!TypeOK

Plain == {k \in 1..Len(runs) : runs[k].plain}
Clusters(k) == runs[k].addr..(runs[k].addr + runs[k].len - 1)

\* A call has ended in a look at some bytes of $Bitmap.
Answered == phase = "check" /\ pc = "done" /\ used # << >>

\* The answer is about this file's clusters on the disk, whichever copy of
\* $Bitmap it comes from, cut short or made by another thread: "overwritten"
\* when one of them is allocated, "free" when none is.  Not so when the copy is
\* empty: then all files are called free, and are from then on.
VerdictIsRight ==
  Answered /\ (\A k \in Plain : Check!FitsInt(k)) =>
    /\ verdict = "overwritten" => \E k \in Plain : Clusters(k) \cap content # {}
    /\ verdict = "free" => \A k \in Plain : Clusters(k) \cap content = {}

\* The check throws only for a run that leaves the copy, which may be shorter
\* than $Bitmap, or for a cluster number past int.
ThrowsOnlyOutside == Answered => Check!ThrowsOnlyOutside
=============================================================================
