----------------------------- MODULE NtfsBitmap -----------------------------
(***************************************************************************)
(* FileSystem.IsOverwrittenNTFS and IsFree (FileSystem.cs): is a deleted    *)
(* file overwritten, that is, does the $Bitmap file mark one of the         *)
(* clusters of its data as allocated?  The runs are looked at one after     *)
(* the other, bit after bit, with a byte index and a mask that are computed *)
(* once per run, in 32-bit integers.                                        *)
(*                                                                          *)
(* $Bitmap is the set of its allocated clusters and its length in bytes; a  *)
(* mask with one bit is the number of that bit.                             *)
(***************************************************************************)
EXTENDS Integers, Sequences

CONSTANTS
  ByteBits,   \* 8
  IntBits,    \* 32, the width of int
  Half,       \* 2^31, the first number that int cannot hold
  MaxBytes,   \* lengths of $Bitmap: 0..MaxBytes
  RunLists    \* the runs of a file's attributes, in order

\* What is assumed of the constants.
WidthsAreRight ==
  /\ ByteBits \in Nat \ {0} /\ IntBits \in Nat
  /\ IntBits >= 2 * ByteBits   \* 1 << -1 is 1 << 31, beyond the bits of a byte
  /\ Half \in Nat \ {0} /\ Half % ByteBits = 0
  /\ MaxBytes \in Nat

\* A run, and whether it belongs to the unnamed non-resident $DATA attribute and
\* has no flags; the others are passed over.
Runs == [addr : Nat, len : Nat, plain : BOOLEAN]

RunListsAreRight == RunLists \subseteq Seq(Runs)

VARIABLES
  bytes,    \* Bitmap.Length
  taken,    \* the clusters that $Bitmap marks as allocated
  runs,     \* the runs of the file
  pc,       \* "runs", "bits" (in IsFree), or "done"
  r,        \* the run that is looked at
  i,        \* how many of its clusters were looked at
  index,    \* index
  bit,      \* the number of the bit in bitmask
  verdict   \* "overwritten", "free", or "threw"

vars == <<bytes, taken, runs, pc, r, i, index, bit, verdict>>
file == <<bytes, taken, runs>>

Run == runs[r]

-----------------------------------------------------------------------------
(* The arithmetic of IsFree *)

\* (int)x for an unsigned x, unchecked.
ToInt(x) == ((x + Half) % (2 * Half)) - Half

\* C# division and remainder round towards zero.
Quotient(x)  == IF x >= 0 THEN x \div ByteBits ELSE -((-x) \div ByteBits)
Remainder(x) == IF x >= 0 THEN x % ByteBits ELSE -((-x) % ByteBits)

\* The bit of 1 << n: a negative n counts from the top.
ShiftedBit(n) == IF n >= 0 THEN n ELSE IntBits + n

-----------------------------------------------------------------------------
(* IsOverwrittenNTFS and IsFree *)

Decide(v) == verdict' = v /\ pc' = "done"

NoBitmap ==
  /\ pc = "runs" /\ bytes = 0
  /\ Decide("free")
  /\ UNCHANGED <<file, r, i, index, bit>>

InRuns == pc = "runs" /\ bytes > 0

\* Mutant: sparse runs and other attributes are looked at as well.
LooksAtAll(x) == TRUE

LooksAt(x) == x.plain

PassOver ==
  /\ InRuns /\ r <= Len(runs) /\ ~LooksAt(Run)
  /\ r' = r + 1
  /\ UNCHANGED <<file, pc, i, index, bit, verdict>>

EnterIsFree ==
  /\ InRuns /\ r <= Len(runs) /\ LooksAt(Run)
  /\ i' = 0
  /\ index' = Quotient(ToInt(Run.addr))
  /\ bit' = ShiftedBit(Remainder(ToInt(Run.addr)))
  /\ pc' = "bits"
  /\ UNCHANGED <<file, r, verdict>>

NoneTaken ==
  /\ InRuns /\ r > Len(runs)
  /\ Decide("free")
  /\ UNCHANGED <<file, r, i, index, bit>>

More == pc = "bits" /\ i < Run.len

OutOfRange ==
  /\ More /\ index \notin 0..(bytes - 1)
  /\ Decide("threw")
  /\ UNCHANGED <<file, r, i, index, bit>>

\* (bitmap[index] & bitmask) != 0
BitIsSet == bit < ByteBits /\ index * ByteBits + bit \in taken

FoundTaken ==
  /\ More /\ index \in 0..(bytes - 1) /\ BitIsSet
  /\ Decide("overwritten")
  /\ UNCHANGED <<file, r, i, index, bit>>

\* Mutant: the mask is wrapped one bit too late.
NextBitLate ==
  IF bit = ByteBits THEN index' = index + 1 /\ bit' = 0
  ELSE bit' = bit + 1 /\ UNCHANGED index

\* The mask moves on by one bit; past the top of an int it stays 0.
NextBit ==
  IF bit + 1 = ByteBits THEN index' = index + 1 /\ bit' = 0
  ELSE /\ bit' = IF bit = IntBits THEN bit ELSE bit + 1
       /\ UNCHANGED index

FoundFree ==
  /\ More /\ index \in 0..(bytes - 1) /\ ~BitIsSet
  /\ NextBit
  /\ i' = i + 1
  /\ UNCHANGED <<file, pc, r, verdict>>

RunIsFree ==
  /\ pc = "bits" /\ ~More
  /\ r' = r + 1
  /\ pc' = "runs"
  /\ UNCHANGED <<file, i, index, bit, verdict>>

-----------------------------------------------------------------------------
Init ==
  /\ bytes \in 0..MaxBytes
  /\ taken \in SUBSET (0..(bytes * ByteBits - 1))
  /\ runs \in RunLists
  /\ pc = "runs" /\ r = 1 /\ i = 0 /\ index = 0 /\ bit = 0 /\ verdict = "free"

Next ==
  \/ NoBitmap \/ PassOver \/ EnterIsFree \/ NoneTaken
  \/ OutOfRange \/ FoundTaken \/ FoundFree \/ RunIsFree

Spec == Init /\ [][Next]_vars

-----------------------------------------------------------------------------
(* Properties *)

TypeOK ==
  /\ pc \in {"runs", "bits", "done"}
  /\ r \in 1..(Len(runs) + 1) /\ (pc = "bits" => r <= Len(runs))
  /\ i \in Nat /\ index \in Int /\ bit \in 0..IntBits
  /\ verdict \in {"overwritten", "free", "threw"}

Plain == {k \in 1..Len(runs) : runs[k].plain}
Clusters(k) == runs[k].addr..(runs[k].addr + runs[k].len - 1)
InBitmap(c) == c < bytes * ByteBits

\* The cluster number fits in an int.
FitsInt(k) == runs[k].addr < Half

\* An exception means a run that leaves $Bitmap, or a cluster number past int.
ThrowsOnlyOutside ==
  verdict = "threw" =>
    \E k \in Plain : ~FitsInt(k) \/ \E c \in Clusters(k) : ~InBitmap(c)
=============================================================================
