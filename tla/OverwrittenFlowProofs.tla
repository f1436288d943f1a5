----------------------- MODULE OverwrittenFlowProofs -----------------------
(***************************************************************************)
(* What a copy of a stream holds, and what the verdict over the copied     *)
(* $Bitmap means, for any length, read sizes, contents, widths and runs.   *)
(***************************************************************************)
EXTENDS OverwrittenFlow, SequenceTheorems, TLAPS

\* The type of runs, and what is assumed of the constants.
LEMMA Assumptions ==
  /\ ByteBits \in Nat \ {0} /\ IntBits \in Nat /\ IntBits >= 2 * ByteBits
  /\ Half \in Nat \ {0} /\ Half % ByteBits = 0
  /\ Length \in Nat
  /\ RunLists \subseteq Seq(Check!Runs)
  /\ Counts \subseteq Nat \ {0} /\ Targets \subseteq Int /\ MaxSeek \in Nat
  BY FlowAssumption, StreamAssumption DEF Check!WidthsAreRight, Check!RunListsAreRight

-----------------------------------------------------------------------------
(* Arithmetic *)

\* A cluster number is its byte and the bit in the byte.
LEMMA ByteAndBit ==
  ASSUME NEW x \in Nat
  PROVE  /\ x \div ByteBits \in Nat /\ x % ByteBits \in 0..(ByteBits - 1)
         /\ (x \div ByteBits) * ByteBits + (x % ByteBits) = x
  BY Assumptions

\* The byte of a cluster of n bytes is one of them.
LEMMA ByteIsInside ==
  ASSUME NEW n \in Nat, NEW x \in 0..(n * ByteBits - 1)
  PROVE  x \div ByteBits \in 0..(n - 1)
  BY Assumptions

LEMMA BytesInOrder ==
  ASSUME NEW m \in Nat, NEW n \in Nat, m <= n
  PROVE  m * ByteBits <= n * ByteBits
  BY Assumptions

\* What int can hold, (int) leaves alone.
LEMMA SmallIsKept ==
  ASSUME NEW x \in Nat, x < Half
  PROVE  Check!ToInt(x) = x
<1>1. x + Half \in 0..(2 * Half - 1) /\ 2 * Half \in Nat \ {0}
  BY Assumptions
<1>2. \A b \in Nat \ {0} : \A a \in 0..(b - 1) : a % b = a
  OBVIOUS
<1>3. (x + Half) % (2 * Half) = x + Half
  BY <1>1, <1>2
<1> QED BY <1>3, Assumptions DEF Check!ToInt

\* (int) of anything is an integer, and its bit is a bit of an int.
LEMMA BitsOfInts ==
  ASSUME NEW x \in Nat
  PROVE  /\ Check!Quotient(Check!ToInt(x)) \in Int
         /\ Check!ShiftedBit(Check!Remainder(Check!ToInt(x))) \in 0..IntBits
<1>1. Check!ToInt(x) \in Int
  <2>1. 2 * Half \in Nat \ {0} /\ x + Half \in Nat
    BY Assumptions
  <2>2. \A b \in Nat \ {0} : \A a \in Nat : a % b \in 0..(b - 1)
    OBVIOUS
  <2>3. (x + Half) % (2 * Half) \in Int
    BY <2>1, <2>2
  <2> QED BY <2>3, Assumptions DEF Check!ToInt
<1> DEFINE y == Check!ToInt(x)
<1> HIDE DEF y
<1>2. ASSUME y >= 0
      PROVE  /\ Check!Quotient(y) \in Int
             /\ Check!Remainder(y) \in 0..(ByteBits - 1)
  <2>1. y \in Nat
    BY <1>1, <1>2 DEF y
  <2> QED BY <2>1, <1>2, ByteAndBit DEF Check!Quotient, Check!Remainder
<1>3. ASSUME ~(y >= 0)
      PROVE  /\ Check!Quotient(y) \in Int
             /\ Check!Remainder(y) \in -(ByteBits - 1)..0
  <2>1. -y \in Nat
    BY <1>1, <1>3 DEF y
  <2>2. (-y) \div ByteBits \in Nat /\ (-y) % ByteBits \in 0..(ByteBits - 1)
    BY <2>1, ByteAndBit
  <2> QED BY <2>2, <1>3, Assumptions DEF Check!Quotient, Check!Remainder
<1>4. Check!Quotient(y) \in Int /\ Check!Remainder(y) \in -(ByteBits - 1)..(ByteBits - 1)
  BY <1>2, <1>3, Assumptions
<1>5. Check!ShiftedBit(Check!Remainder(y)) \in 0..IntBits
  BY <1>4, Assumptions DEF Check!ShiftedBit
<1> QED BY <1>4, <1>5 DEF y

-----------------------------------------------------------------------------
(* Intervals of offsets *)

LEMMA Intervals ==
  ASSUME NEW a \in Int, NEW n \in Nat
  PROVE  /\ Interval(a, n) \in Seq(Int) /\ Len(Interval(a, n)) = n
         /\ \A k \in 1..n : Interval(a, n)[k] = a + k - 1
<1>1. Interval(a, n) \in [1..n -> Int]
  BY DEF Interval
<1>2. Interval(a, n) \in Seq(Int)
  BY <1>1
<1>3. Len(Interval(a, n)) = n
  BY <1>1, <1>2, LenProperties
<1> QED BY <1>2, <1>3 DEF Interval

LEMMA NoInterval == ASSUME NEW a \in Int PROVE Interval(a, 0) = << >>
<1>1. Interval(a, 0) \in Seq(Int) /\ Len(Interval(a, 0)) = 0
  BY Intervals
<1> QED BY <1>1, EmptySeq

LEMMA IntervalsJoin ==
  ASSUME NEW a \in Int, NEW n \in Nat, NEW m \in Nat
  PROVE  Interval(a, n) \o Interval(a + n, m) = Interval(a, n + m)
<1> DEFINE s == Interval(a, n)   u == Interval(a + n, m)   w == Interval(a, n + m)
<1>1. /\ s \in Seq(Int) /\ Len(s) = n /\ \A k \in 1..n : s[k] = a + k - 1
      /\ u \in Seq(Int) /\ Len(u) = m /\ \A k \in 1..m : u[k] = a + n + k - 1
      /\ w \in Seq(Int) /\ Len(w) = n + m /\ \A k \in 1..(n + m) : w[k] = a + k - 1
  BY Intervals
<1> HIDE DEF s, u, w
<1>2. /\ s \o u \in Seq(Int) /\ Len(s \o u) = n + m
      /\ \A k \in 1..(n + m) : (s \o u)[k] = IF k <= n THEN s[k] ELSE u[k - n]
  <2>1. s \in Seq(Int) /\ u \in Seq(Int) /\ Len(s) = n /\ Len(u) = m
    BY <1>1
  <2> QED BY <2>1, ConcatProperties
<1>3. ASSUME NEW k \in 1..(n + m)
      PROVE  (s \o u)[k] = w[k]
  <2>1. CASE k <= n
    BY <1>1, <1>2, <2>1
  <2>2. CASE ~(k <= n)
    <3>1. k - n \in 1..m
      BY <2>2
    <3>2. u[k - n] = a + n + (k - n) - 1
      BY <1>1, <3>1, Zenon
    <3>3. (s \o u)[k] = u[k - n] /\ w[k] = a + k - 1
      BY <1>1, <1>2, <2>2, Zenon
    <3>4. a + n + (k - n) - 1 = a + k - 1
      OBVIOUS
    <3> QED BY <3>2, <3>3, <3>4
  <2> QED BY <2>1, <2>2
<1>4. Len(s \o u) = Len(w)
  BY <1>1, <1>2
<1>5. s \o u = w
  <2> DEFINE v == s \o u
  <2>1. v \in Seq(Int) /\ Len(v) = Len(w) /\ \A k \in 1..Len(v) : v[k] = w[k]
    BY <1>2, <1>3, <1>4
  <2> HIDE DEF v
  <2>2. v = w
    BY <1>1, <2>1, SeqEqual, Zenon
  <2> QED BY <2>2 DEF v
<1> QED BY <1>5 DEF s, u, w

\* Copies of $Bitmap: the file from its start to somewhere.
IsCopy(copy) == \E n \in 0..Length : copy = Interval(0, n)

LEMMA CopiesAreTyped ==
  ASSUME NEW copy, IsCopy(copy)
  PROVE  copy \in Seq(0..(Length - 1)) /\ Len(copy) \in Nat
<1>1. PICK n \in 0..Length : copy = Interval(0, n)
  BY DEF IsCopy
<1>2. copy \in [1..n -> 0..(Length - 1)]
  BY <1>1, Assumptions DEF Interval
<1>3. copy \in Seq(0..(Length - 1))
  BY <1>2, Assumptions
<1> QED BY <1>3, LenProperties

\* A copy marks the clusters that $Bitmap marks, as far as it goes.
LEMMA CopiesMark ==
  ASSUME NEW copy, IsCopy(copy)
  PROVE  MarkedIn(copy) = content \cap 0..(Len(copy) * ByteBits - 1)
<1>1. PICK n \in 0..Length : copy = Interval(0, n)
  BY DEF IsCopy
<1>2. n \in Nat /\ Len(copy) = n /\ \A k \in 1..n : copy[k] = k - 1
  <2>1. n \in Nat
    BY <1>1, Assumptions
  <2>2. 0 \in Int
    OBVIOUS
  <2>3. Len(copy) = n /\ \A k \in 1..n : copy[k] = 0 + k - 1
    BY <1>1, <2>1, <2>2, Intervals, Zenon
  <2> QED BY <2>1, <2>3
<1>3. ASSUME NEW c \in 0..(n * ByteBits - 1)
      PROVE  copy[(c \div ByteBits) + 1] * ByteBits + (c % ByteBits) = c
  <2>1. c \in Nat
    BY <1>2, Assumptions
  <2>2. c \div ByteBits \in 0..(n - 1)
    BY <1>2, ByteIsInside
  <2>3. copy[(c \div ByteBits) + 1] = c \div ByteBits
    BY <1>2, <2>2
  <2> QED BY <2>1, <2>3, ByteAndBit
<1> QED BY <1>2, <1>3 DEF MarkedIn
-----------------------------------------------------------------------------
(* Streams *)

\* While a copy goes on, it holds what lies behind it.
StreamInv ==
  /\ StreamTypeOK
  /\ kind \in {"file", "disk"}
  /\ copying => start <= position /\ copied = Interval(start, position - start)

\* Reads of a file stay in it, and reads of a disk that give something begin in it.
LEMMA ReadsAreInside ==
  ASSUME kind \in {"file", "disk"}, position \in Int, NEW n \in Counts,
         NEW br \in ReadBytes(position, n)
  PROVE  /\ br \in Int
         /\ kind = "file" => br \in Nat /\ (position \in 0..Length => position + br <= Length)
         /\ kind = "disk" /\ br >= 0 => position < Length
<1>1. n \in Nat /\ Length \in Nat
  BY Assumptions
<1>2. CASE kind = "file"
  BY <1>1, <1>2 DEF ReadBytes, FileReadBytes, NativeFileRead, EndOfFile, ReadError, Least
<1>3. CASE kind = "disk"
  BY <1>1, <1>3 DEF ReadBytes, NativeDiskRead, Least
<1> QED BY <1>2, <1>3

LEMMA ReadKeepsInv == ASSUME StreamInv, Read PROVE StreamInv'
<1>1. kind' = kind /\ ~copying /\ copying' = copying /\ start' = start /\ copied' = copied
  BY DEF Read
<1>2. CASE UNCHANGED <<answer, position>> /\ threw' = TRUE
  BY <1>1, <1>2 DEF StreamInv, StreamTypeOK
<1>3. ASSUME NEW n \in Counts, NEW br \in ReadBytes(position, n),
             answer' = br, threw' = FALSE, position' = Advance(n, br)
      PROVE  StreamInv'
  <2>1. br \in Int /\ (kind = "file" => br \in Nat) /\ position \in Int
    BY ReadsAreInside DEF StreamInv, StreamTypeOK
  <2>2. position' \in Int
    BY <1>3, <2>1 DEF Advance
  <2> QED BY <1>1, <1>3, <2>1, <2>2 DEF StreamInv, StreamTypeOK
<1> QED BY <1>2, <1>3 DEF Read

LEMMA SeekKeepsInv == ASSUME StreamInv, Seek PROVE StreamInv'
<1>1. /\ kind' = kind /\ ~copying /\ copying' = copying /\ start' = start /\ copied' = copied
      /\ position' \in Int /\ threw' \in BOOLEAN
      /\ answer' = IF position' < 0 THEN answer ELSE position'
  BY Assumptions DEF Seek
<1>2. answer' \in (IF kind = "file" THEN Nat ELSE Int)
  BY <1>1 DEF StreamInv, StreamTypeOK
<1> QED BY <1>1, <1>2 DEF StreamInv, StreamTypeOK

LEMMA BeginCopyKeepsInv == ASSUME StreamInv, BeginCopy PROVE StreamInv'
<1>1. /\ kind' = kind /\ copying' = TRUE /\ position' = position /\ start' = position
      /\ answer' = answer /\ threw' = FALSE /\ copied' = << >> /\ position \in Int
  BY DEF BeginCopy, StreamInv, StreamTypeOK
<1>2. Interval(start', position' - start') = << >>
  BY <1>1, NoInterval
<1>3. << >> \in Seq(Int)
  BY EmptySeq
<1>4. copied' = Interval(start', position' - start')
  BY <1>1, <1>2, Zenon
<1>5. start' <= position'
  BY <1>1
<1>6. StreamTypeOK'
  BY <1>1, <1>3 DEF StreamInv, StreamTypeOK
<1> QED BY <1>1, <1>4, <1>5, <1>6, Zenon DEF StreamInv

LEMMA CopyKeepsInv == ASSUME StreamInv, Copy PROVE StreamInv'
<1>1. /\ kind' = kind /\ answer' = answer /\ start' = start /\ copying
      /\ position \in Int /\ start \in Int /\ start <= position
      /\ copied = Interval(start, position - start)
  BY DEF Copy, StreamInv, StreamTypeOK
<1>2. << >> \in Seq(Int)
  BY EmptySeq
<1>3. CASE copying' = FALSE /\ threw' = TRUE /\ copied' = << >> /\ UNCHANGED position
  BY <1>1, <1>2, <1>3 DEF StreamInv, StreamTypeOK
<1>4. ASSUME NEW n \in Counts, NEW br \in ReadBytes(position, n), position' = Advance(n, br)
      PROVE  (CopyRound(br) => StreamInv') /\ (CopyStops(br) => StreamInv')
  <2>1. br \in Int
    BY <1>1, ReadsAreInside DEF StreamInv
  <2>2. position' = position + br /\ position' \in Int
    BY <1>1, <1>4, <2>1 DEF Advance
  <2>3. ASSUME CopyStops(br) PROVE StreamInv'
    <3>1. copying' = FALSE /\ threw' \in BOOLEAN /\ copied' = << >>
      BY <2>3 DEF CopyStops
    <3> QED BY <1>1, <1>2, <2>2, <3>1 DEF StreamInv, StreamTypeOK
  <2>4. ASSUME CopyRound(br) PROVE StreamInv'
    <3>1. /\ br > 0 /\ copied' = copied \o Interval(position, br)
          /\ copying' = copying /\ threw' = threw
      BY <2>4 DEF CopyRound
    <3>2. br \in Nat /\ position - start \in Nat /\ start + (position - start) = position
          /\ (position - start) + br = position' - start' /\ position' - start' \in Nat
      BY <1>1, <2>1, <2>2, <3>1
    <3>3. Interval(start, position - start) \o Interval(start + (position - start), br)
            = Interval(start, (position - start) + br)
      BY <1>1, <3>2, IntervalsJoin, Zenon
    <3>4. copied' = Interval(start', position' - start')
      BY <1>1, <3>1, <3>2, <3>3, Zenon
    <3>5. start' \in Int /\ start' <= position'
      BY <1>1, <2>2, <3>2
    <3>6. copied' \in Seq(Int)
      BY <3>2, <3>4, <3>5, Intervals, Zenon
    <3> QED BY <1>1, <2>2, <3>1, <3>4, <3>5, <3>6 DEF StreamInv, StreamTypeOK
  <2> QED BY <2>3, <2>4
<1> QED BY <1>3, <1>4 DEF Copy

\* The invariant of streams depends on their own variables only.
LEMMA StreamStep == ASSUME StreamInv, StreamNext \/ UNCHANGED vars PROVE StreamInv'
<1>1. ASSUME UNCHANGED vars PROVE StreamInv'
  BY <1>1 DEF vars, StreamInv, StreamTypeOK
<1> QED BY <1>1, ReadKeepsInv, SeekKeepsInv, BeginCopyKeepsInv, CopyKeepsInv DEF StreamNext

-----------------------------------------------------------------------------
(* The look at the bitmap: what has been established of the runs before r, *)
(* and of the clusters of run r before the i-th                            *)

IsFreeCluster(c) == Check!InBitmap(c) /\ c \notin MarkedIn(used)
Clean(k) == Check!FitsInt(k) => \A c \in Clusters(k) : IsFreeCluster(c)

\* Index and bit name the i-th cluster of the run.
PointsAt ==
  /\ bit < ByteBits /\ index \in Nat
  /\ index * ByteBits + bit = runs[r].addr + i
  /\ i <= runs[r].len

Outcome ==
  /\ verdict = "overwritten" =>
       \E k \in Plain : Check!FitsInt(k) => \E c \in Clusters(k) : c \in MarkedIn(used)
  /\ verdict = "free" => used = << >> \/ \A k \in Plain : Clean(k)
  /\ verdict = "threw" =>
       \E k \in Plain : ~Check!FitsInt(k) \/ \E c \in Clusters(k) : ~Check!InBitmap(c)

LooksInv ==
  /\ Check!TypeOK
  /\ pc # "done" => verdict = "free" /\ \A k \in Plain : k < r => Clean(k)
  /\ pc = "bits" =>
       /\ r \in Plain
       /\ Check!FitsInt(r) =>
            PointsAt /\ \A j \in 0..(i - 1) : IsFreeCluster(runs[r].addr + j)
  /\ pc = "done" => Outcome

Looking ==
  /\ LooksInv
  /\ used = << >> \/ IsCopy(used)
  /\ runs \in Seq(Check!Runs)
Same == runs' = runs /\ used' = used /\ content' = content

LEMMA BytesOfUsed == ASSUME Looking PROVE Len(used) \in Nat /\ (Len(used) = 0 => used = << >>)
<1>1. CASE used = << >>
  BY <1>1, EmptySeq
<1>2. CASE IsCopy(used)
  BY <1>2, CopiesAreTyped, EmptySeq
<1> QED BY <1>1, <1>2 DEF Looking

LEMMA RunsAreTyped ==
  ASSUME Looking
  PROVE  /\ Len(runs) \in Nat
         /\ \A k \in 1..Len(runs) : runs[k].addr \in Nat /\ runs[k].len \in Nat
<1>1. Len(runs) \in Nat /\ \A k \in 1..Len(runs) : runs[k] \in Check!Runs
  BY LenProperties, ElementOfSeq DEF Looking
<1> QED BY <1>1 DEF Check!Runs

\* What is not looked at any more stays as it was found.
LEMMA TheFileStays ==
  ASSUME Same
  PROVE  /\ Plain' = Plain
         /\ \A k : Clean(k)' <=> Clean(k)
         /\ \A c : IsFreeCluster(c)' <=> IsFreeCluster(c)
         /\ \A k : Check!FitsInt(k)' <=> Check!FitsInt(k)
<1>1. MarkedIn(used)' = MarkedIn(used)
  BY DEF Same, MarkedIn
<1>2. \A c : IsFreeCluster(c)' <=> IsFreeCluster(c)
  BY <1>1 DEF Same, IsFreeCluster, Check!InBitmap
<1>3. \A k : Check!FitsInt(k)' <=> Check!FitsInt(k)
  BY DEF Same, Check!FitsInt
<1>4. \A k : Clusters(k)' = Clusters(k)
  BY DEF Same, Clusters
<1> QED BY <1>2, <1>3, <1>4 DEF Same, Plain, Clean

LEMMA TheRunStays ==
  ASSUME Same, r' = r
  PROVE  /\ Check!FitsInt(r)' <=> Check!FitsInt(r)
         /\ Clusters(r)' = Clusters(r)
         /\ MarkedIn(used)' = MarkedIn(used)
  BY DEF Same, Check!FitsInt, Clusters, MarkedIn

LEMMA NoBitmapKeeps == ASSUME Looking, Same, Check!NoBitmap PROVE LooksInv'
<1>1. /\ pc = "runs" /\ Len(used) = 0 /\ pc' = "done" /\ verdict' = "free"
      /\ r' = r /\ i' = i /\ index' = index /\ bit' = bit
  BY DEF Check!NoBitmap, Check!Decide
<1>2. used' = << >>
  BY <1>1, BytesOfUsed DEF Same
<1>3. Outcome'
  BY <1>1, <1>2 DEF Outcome
<1>4. Check!TypeOK'
  BY <1>1 DEF Looking, LooksInv, Check!TypeOK, Same
<1> QED BY <1>1, <1>3, <1>4 DEF LooksInv

LEMMA PassOverKeeps == ASSUME Looking, Same, Check!PassOver PROVE LooksInv'
<1>1. /\ pc = "runs" /\ r <= Len(runs) /\ ~runs[r].plain /\ r' = r + 1 /\ pc' = pc
      /\ i' = i /\ index' = index /\ bit' = bit /\ verdict' = verdict
  BY DEF Check!PassOver, Check!InRuns, Check!LooksAt, Check!Run
<1>2. Check!TypeOK' /\ r \in Nat
  BY <1>1, RunsAreTyped DEF Looking, LooksInv, Check!TypeOK, Same
<1>3. ASSUME NEW k \in Plain', k < r' PROVE Clean(k)'
  <2>1. k \in Plain /\ k \in Nat
    BY TheFileStays, RunsAreTyped DEF Plain
  <2>2. k # r
    BY <1>1, <2>1 DEF Plain
  <2>3. k < r
    BY <1>1, <1>2, <1>3, <2>1, <2>2
  <2> QED BY <1>1, <2>1, <2>3, TheFileStays DEF Looking, LooksInv
<1> QED BY <1>1, <1>2, <1>3 DEF Looking, LooksInv

LEMMA NoneTakenKeeps == ASSUME Looking, Same, Check!NoneTaken PROVE LooksInv'
<1>1. /\ pc = "runs" /\ r > Len(runs) /\ pc' = "done" /\ verdict' = "free"
      /\ r' = r /\ i' = i /\ index' = index /\ bit' = bit
  BY DEF Check!NoneTaken, Check!InRuns, Check!Decide
<1>2. Check!TypeOK' /\ r \in Nat
  BY <1>1, RunsAreTyped DEF Looking, LooksInv, Check!TypeOK, Same
<1>3. ASSUME NEW k \in Plain' PROVE Clean(k)'
  <2>1. k \in Plain /\ k < r
    BY <1>1, <1>2, TheFileStays, RunsAreTyped DEF Plain
  <2> QED BY <1>1, <2>1, TheFileStays DEF Looking, LooksInv
<1>4. Outcome'
  BY <1>1, <1>3 DEF Outcome
<1> QED BY <1>1, <1>2, <1>4 DEF LooksInv

LEMMA EnterIsFreeKeeps == ASSUME Looking, Same, Check!EnterIsFree PROVE LooksInv'
<1>1. /\ pc = "runs" /\ r <= Len(runs) /\ runs[r].plain /\ i' = 0 /\ pc' = "bits"
      /\ index' = Check!Quotient(Check!ToInt(runs[r].addr))
      /\ bit' = Check!ShiftedBit(Check!Remainder(Check!ToInt(runs[r].addr)))
      /\ r' = r /\ verdict' = verdict
  BY DEF Check!EnterIsFree, Check!InRuns, Check!LooksAt, Check!Run
<1>2. r \in 1..Len(runs) /\ runs[r].addr \in Nat /\ runs[r].len \in Nat
  BY <1>1, RunsAreTyped DEF Looking, LooksInv, Check!TypeOK
<1>3. index' \in Int /\ bit' \in 0..IntBits
  BY <1>1, <1>2, BitsOfInts
<1>4. Check!TypeOK'
  BY <1>1, <1>2, <1>3 DEF Looking, LooksInv, Check!TypeOK, Same
<1>5. r' \in Plain'
  BY <1>1, <1>2 DEF Same, Plain
<1>6. ASSUME Check!FitsInt(r)' PROVE PointsAt'
  <2>1. runs[r].addr < Half
    BY <1>1, <1>6 DEF Same, Check!FitsInt
  <2>2. /\ index' = Check!Quotient(runs[r].addr)
        /\ bit' = Check!ShiftedBit(Check!Remainder(runs[r].addr))
    BY <1>1, <1>2, <2>1, SmallIsKept
  <2>3. runs[r].addr >= 0
    BY <1>2
  <2>4. index' = runs[r].addr \div ByteBits /\ bit' = runs[r].addr % ByteBits
    <3>1. /\ Check!Quotient(runs[r].addr) = runs[r].addr \div ByteBits
          /\ Check!Remainder(runs[r].addr) = runs[r].addr % ByteBits
      BY <2>3 DEF Check!Quotient, Check!Remainder
    <3>2. runs[r].addr % ByteBits >= 0
      <4>1. runs[r].addr % ByteBits \in 0..(ByteBits - 1)
        BY <1>2, ByteAndBit
      <4> QED BY <4>1, Assumptions
    <3>3. Check!ShiftedBit(runs[r].addr % ByteBits) = runs[r].addr % ByteBits
      BY <3>2 DEF Check!ShiftedBit
    <3> QED BY <2>2, <3>1, <3>3
  <2>5. /\ bit' \in 0..(ByteBits - 1) /\ index' \in Nat
        /\ index' * ByteBits + bit' = runs[r].addr
    BY <1>2, <2>4, ByteAndBit
  <2> QED BY <1>1, <1>2, <2>5, Assumptions DEF PointsAt, Same
<1>7. ASSUME NEW k \in Plain', k < r' PROVE Clean(k)'
  BY <1>1, <1>7, TheFileStays DEF Looking, LooksInv
<1>8. 0..(i' - 1) = {}
  BY <1>1
<1> QED BY <1>1, <1>4, <1>5, <1>6, <1>7, <1>8 DEF Looking, LooksInv

\* In IsFree, r is a run that is looked at, with its clusters up to i.
LEMMA InIsFree ==
  ASSUME Looking, Check!More
  PROVE  /\ pc = "bits" /\ r \in Plain /\ r \in 1..Len(runs)
         /\ runs[r].addr \in Nat /\ runs[r].len \in Nat /\ i \in Nat /\ i < runs[r].len
         /\ runs[r].addr + i \in Clusters(r)
<1>1. pc = "bits" /\ i < runs[r].len /\ r \in Plain /\ i \in Nat
  BY DEF Check!More, Check!Run, Looking, LooksInv, Check!TypeOK
<1>2. r \in 1..Len(runs) /\ runs[r].addr \in Nat /\ runs[r].len \in Nat
  BY <1>1, RunsAreTyped DEF Plain
<1> QED BY <1>1, <1>2 DEF Clusters

LEMMA OutOfRangeKeeps == ASSUME Looking, Same, Check!OutOfRange PROVE LooksInv'
<1>1. /\ Check!More /\ index \notin 0..(Len(used) - 1) /\ pc' = "done" /\ verdict' = "threw"
      /\ r' = r /\ i' = i /\ index' = index /\ bit' = bit
  BY DEF Check!OutOfRange, Check!Decide
<1>2. /\ pc = "bits" /\ r \in Plain /\ r \in 1..Len(runs) /\ runs[r].addr \in Nat
      /\ i \in Nat /\ runs[r].addr + i \in Clusters(r)
  BY <1>1, InIsFree
<1>3. Check!TypeOK'
  BY <1>1, <1>2 DEF Looking, LooksInv, Check!TypeOK, Same
<1>4. ASSUME Check!FitsInt(r) PROVE ~Check!InBitmap(runs[r].addr + i)
  <2>1. PointsAt
    BY <1>2, <1>4 DEF Looking, LooksInv
  <2>2. Len(used) \in Nat /\ index \in Nat /\ Len(used) <= index
    BY <1>1, <2>1, BytesOfUsed DEF PointsAt
  <2>3. Len(used) * ByteBits <= index * ByteBits
    BY <2>2, BytesInOrder
  <2>4. bit \in Nat /\ index * ByteBits + bit = runs[r].addr + i
    BY <2>1, Assumptions DEF PointsAt, Looking, LooksInv, Check!TypeOK
  <2>5. Len(used) * ByteBits \in Nat /\ index * ByteBits \in Nat
    BY <2>2, Assumptions
  <2> QED BY <1>2, <2>3, <2>4, <2>5 DEF Check!InBitmap
<1>5. PICK k \in Plain : ~Check!FitsInt(k) \/ \E c \in Clusters(k) : ~Check!InBitmap(c)
  BY <1>2, <1>4
<1>6. Outcome'
  <2>1. k \in Plain' /\ Clusters(k)' = Clusters(k) /\ (Check!FitsInt(k)' <=> Check!FitsInt(k))
    BY TheFileStays DEF Same, Clusters
  <2>2. \A c : Check!InBitmap(c)' <=> Check!InBitmap(c)
    BY DEF Same, Check!InBitmap
  <2>3. ~Check!FitsInt(k)' \/ \E c \in Clusters(k)' : ~Check!InBitmap(c)'
    BY <1>5, <2>1, <2>2
  <2> QED BY <1>1, <2>1, <2>3 DEF Outcome
<1> QED BY <1>1, <1>3, <1>6 DEF LooksInv

LEMMA FoundTakenKeeps == ASSUME Looking, Same, Check!FoundTaken PROVE LooksInv'
<1>1. /\ Check!More /\ Check!BitIsSet /\ pc' = "done" /\ verdict' = "overwritten"
      /\ r' = r /\ i' = i /\ index' = index /\ bit' = bit
  BY DEF Check!FoundTaken, Check!Decide
<1>2. /\ pc = "bits" /\ r \in Plain /\ r \in 1..Len(runs) /\ runs[r].addr \in Nat
      /\ i \in Nat /\ runs[r].addr + i \in Clusters(r)
  BY <1>1, InIsFree
<1>3. Check!TypeOK'
  BY <1>1, <1>2 DEF Looking, LooksInv, Check!TypeOK, Same
<1>4. ASSUME Check!FitsInt(r) PROVE runs[r].addr + i \in MarkedIn(used)
  BY <1>1, <1>2, <1>4 DEF Looking, LooksInv, PointsAt, Check!BitIsSet
<1>5. PICK k \in Plain : Check!FitsInt(k) => \E c \in Clusters(k) : c \in MarkedIn(used)
  BY <1>2, <1>4
<1>6. Outcome'
  <2>1. /\ k \in Plain' /\ Clusters(k)' = Clusters(k) /\ (Check!FitsInt(k)' <=> Check!FitsInt(k))
        /\ MarkedIn(used)' = MarkedIn(used)
    BY <1>1, TheFileStays, TheRunStays DEF Same, Clusters
  <2>2. Check!FitsInt(k)' => \E c \in Clusters(k)' : c \in MarkedIn(used)'
    BY <1>5, <2>1
  <2> QED BY <1>1, <2>1, <2>2 DEF Outcome
<1> QED BY <1>1, <1>3, <1>6 DEF LooksInv

LEMMA FoundFreeKeeps == ASSUME Looking, Same, Check!FoundFree PROVE LooksInv'
<1>1. /\ Check!More /\ index \in 0..(Len(used) - 1) /\ ~Check!BitIsSet /\ Check!NextBit
      /\ i' = i + 1 /\ pc' = pc /\ r' = r /\ verdict' = verdict
  BY DEF Check!FoundFree
<1>2. /\ pc = "bits" /\ r \in Plain /\ r \in 1..Len(runs) /\ runs[r].addr \in Nat
      /\ runs[r].len \in Nat /\ i \in Nat /\ i < runs[r].len
  BY <1>1, InIsFree
<1>3. bit \in 0..IntBits /\ index \in Nat
  BY <1>1 DEF Looking, LooksInv, Check!TypeOK
<1>4. bit' \in 0..IntBits /\ index' \in Int
  BY <1>1, <1>3, Assumptions DEF Check!NextBit
<1>5. Check!TypeOK'
  BY <1>1, <1>2, <1>4 DEF Looking, LooksInv, Check!TypeOK, Same
<1>6. ASSUME Check!FitsInt(r)' PROVE PointsAt' /\ IsFreeCluster(runs[r].addr + i)
  <2>1. PointsAt
    BY <1>1, <1>2, <1>6, TheRunStays DEF Looking, LooksInv
  <2>2. index * ByteBits + bit = runs[r].addr + i /\ bit \in Nat /\ bit < ByteBits
    BY <1>3, <2>1 DEF PointsAt
  <2>3. /\ bit' \in Nat /\ bit' < ByteBits /\ index' \in Nat
        /\ index' * ByteBits + bit' = runs[r].addr + i + 1
    <3>1. CASE bit + 1 = ByteBits
      <4>1. index' = index + 1 /\ bit' = 0
        BY <1>1, <3>1 DEF Check!NextBit
      <4>2. /\ (index + 1) * ByteBits = index * ByteBits + ByteBits
            /\ index * ByteBits \in Int /\ ByteBits \in Nat /\ 0 < ByteBits
        BY <1>3, Assumptions
      <4> DEFINE x == index * ByteBits
      <4>3. x + bit = runs[r].addr + i /\ x \in Int
        BY <2>2, <4>2
      <4> HIDE DEF x
      <4>4. x + ByteBits = runs[r].addr + i + 1
        BY <1>2, <2>2, <3>1, <4>2, <4>3
      <4>5. index' * ByteBits + bit' = x + ByteBits
        <5>1. index' * ByteBits = x + ByteBits
          BY <4>1, <4>2 DEF x
        <5> QED BY <4>1, <4>2, <4>3, <5>1
      <4> QED BY <1>3, <4>1, <4>2, <4>4, <4>5
    <3>2. CASE bit + 1 # ByteBits
      <4>1. index' = index /\ bit' = bit + 1
        BY <1>1, <2>2, <3>2, Assumptions DEF Check!NextBit
      <4> QED BY <1>2, <1>3, <2>2, <3>2, <4>1, Assumptions
    <3> QED BY <3>1, <3>2
  <2>4. PointsAt'
    BY <1>1, <1>2, <2>3 DEF PointsAt, Same
  <2>5. runs[r].addr + i \notin MarkedIn(used)
    BY <1>1, <2>2 DEF Check!BitIsSet
  <2>6. runs[r].addr + i < Len(used) * ByteBits
    <3>1. Len(used) \in Nat /\ index + 1 \in Nat /\ index + 1 <= Len(used)
      BY <1>1, <1>3, BytesOfUsed
    <3>2. (index + 1) * ByteBits <= Len(used) * ByteBits
      BY <3>1, BytesInOrder
    <3>3. /\ (index + 1) * ByteBits = index * ByteBits + ByteBits
          /\ index * ByteBits \in Nat /\ Len(used) * ByteBits \in Nat
      BY <1>3, <3>1, Assumptions
    <3> QED BY <1>2, <2>2, <3>2, <3>3, Assumptions
  <2> QED BY <2>4, <2>5, <2>6 DEF IsFreeCluster, Check!InBitmap
<1>7. ASSUME Check!FitsInt(r)', NEW j \in 0..i
      PROVE  IsFreeCluster(runs[r].addr + j)'
  <2>1. IsFreeCluster(runs[r].addr + j)
    <3>1. CASE j = i
      BY <1>6, <1>7, <3>1
    <3>2. CASE j # i
      <4>1. j \in 0..(i - 1)
        BY <1>2, <3>2
      <4> QED BY <1>1, <1>2, <1>7, <4>1, TheRunStays DEF Looking, LooksInv
    <3> QED BY <3>1, <3>2
  <2> QED BY <1>1, <2>1, TheRunStays DEF IsFreeCluster, Check!InBitmap, Same
<1>8. ASSUME NEW k \in Plain', k < r' PROVE Clean(k)'
  BY <1>1, <1>2, <1>8, TheFileStays DEF Looking, LooksInv
<1>9. 0..(i' - 1) = 0..i /\ runs' = runs /\ r' = r
  BY <1>1, <1>2 DEF Same
<1>10. r' \in Plain' /\ pc' = "bits" /\ verdict' = "free"
  BY <1>1, <1>2, TheFileStays DEF Looking, LooksInv
<1>11. Check!FitsInt(r)' => PointsAt' /\ \A j \in 0..(i' - 1) : IsFreeCluster(runs[r].addr + j)'
  BY <1>6, <1>7, <1>9
<1> QED BY <1>1, <1>5, <1>8, <1>9, <1>10, <1>11 DEF LooksInv

LEMMA RunIsFreeKeeps == ASSUME Looking, Same, Check!RunIsFree PROVE LooksInv'
<1>1. /\ pc = "bits" /\ ~(i < runs[r].len) /\ r' = r + 1 /\ pc' = "runs"
      /\ i' = i /\ index' = index /\ bit' = bit /\ verdict' = verdict
  BY DEF Check!RunIsFree, Check!More, Check!Run
<1>2. /\ r \in Plain /\ r \in 1..Len(runs) /\ runs[r].addr \in Nat /\ runs[r].len \in Nat
      /\ i \in Nat /\ Len(runs) \in Nat
  BY <1>1, RunsAreTyped DEF Looking, LooksInv, Plain, Check!TypeOK
<1>3. Check!TypeOK'
  BY <1>1, <1>2 DEF Looking, LooksInv, Check!TypeOK, Same
<1>4. Clean(r)
  <2> SUFFICES ASSUME Check!FitsInt(r), NEW c \in Clusters(r) PROVE IsFreeCluster(c)
    BY DEF Clean
  <2>1. PointsAt /\ \A j \in 0..(i - 1) : IsFreeCluster(runs[r].addr + j)
    BY <1>1 DEF Looking, LooksInv
  <2>2. i = runs[r].len
    BY <1>1, <1>2, <2>1 DEF PointsAt
  <2>3. c - runs[r].addr \in 0..(i - 1) /\ runs[r].addr + (c - runs[r].addr) = c
    BY <1>2, <2>2 DEF Clusters
  <2> QED BY <2>1, <2>3
<1>5. ASSUME NEW k \in Plain', k < r' PROVE Clean(k)'
  <2>1. k \in Plain /\ (k < r \/ k = r)
    BY <1>1, <1>2, <1>5, TheFileStays DEF Plain
  <2> QED BY <1>1, <1>4, <2>1, TheFileStays DEF Looking, LooksInv
<1> QED BY <1>1, <1>3, <1>5 DEF Looking, LooksInv

LEMMA CheckKeeps == ASSUME Looking, Same, Check!Next PROVE LooksInv'
  BY NoBitmapKeeps, PassOverKeeps, EnterIsFreeKeeps, NoneTakenKeeps, OutOfRangeKeeps,
     FoundTakenKeeps, FoundFreeKeeps, RunIsFreeKeeps DEF Check!Next

\* With nothing changed, what was established stays so.
LEMMA LooksStutter ==
  ASSUME LooksInv, Same, UNCHANGED <<pc, r, i, index, bit, verdict>>
  PROVE  LooksInv'
<1>1. Check!TypeOK'
  BY DEF LooksInv, Same, Check!TypeOK
<1>2. \A k \in Plain' : k < r' => (Clean(k) => Clean(k)') /\ k \in Plain
  BY TheFileStays
<1>3. pc = "bits" /\ Check!FitsInt(r) /\ PointsAt => PointsAt'
  BY DEF PointsAt, Same
<1>4. \A j \in 0..(i - 1) :
        IsFreeCluster(runs[r].addr + j) => IsFreeCluster(runs[r].addr + j)'
  BY TheRunStays DEF IsFreeCluster, Check!InBitmap, Same
<1>5. ASSUME Outcome PROVE Outcome'
  <2>1. \A k \in Plain : Clusters(k)' = Clusters(k)
    BY DEF Same, Clusters
  <2>2. MarkedIn(used)' = MarkedIn(used) /\ \A c : Check!InBitmap(c)' <=> Check!InBitmap(c)
    BY TheRunStays DEF Same, Check!InBitmap
  <2>3. verdict' = verdict /\ used' = used
    BY DEF Same
  <2>4. verdict = "overwritten" =>
          \E k \in Plain' : Check!FitsInt(k)' => \E c \in Clusters(k)' : c \in MarkedIn(used)'
    BY <1>5, <2>1, <2>2, TheFileStays DEF Outcome
  <2>5. verdict = "free" => used = << >> \/ \A k \in Plain' : Clean(k)'
    BY <1>5, TheFileStays DEF Outcome
  <2>6. verdict = "threw" =>
          \E k \in Plain' : ~Check!FitsInt(k)' \/ \E c \in Clusters(k)' : ~Check!InBitmap(c)'
    BY <1>5, <2>1, <2>2, TheFileStays DEF Outcome
  <2> QED BY <2>3, <2>4, <2>5, <2>6 DEF Outcome
<1>6. r \in Plain <=> r' \in Plain'
  BY TheFileStays
<1> QED BY <1>1, <1>2, <1>3, <1>4, <1>5, <1>6, TheRunStays DEF LooksInv

-----------------------------------------------------------------------------
(* Calls of GetFileAllocationFlags *)

FlowInv ==
  /\ StreamInv
  /\ phase \in {"streams", "idle", "bitmap", "copy", "check"}
  /\ phase = "copy" => kind = "file" /\ copying /\ start = 0 /\ position <= Length
  /\ phase \notin {"streams", "copy"} => ~copying
  /\ phase = "bitmap" => kind = "file" /\ position = 0
  /\ phase \in {"bitmap", "copy"} => verdict = "free"
  /\ bitmap = Null \/ IsCopy(bitmap)
  /\ used = << >> \/ IsCopy(used)
  /\ runs \in Seq(Check!Runs)
  /\ phase = "check" => LooksInv
  /\ phase # "check" => Check!TypeOK /\ pc = "done" /\ r = 1

LEMMA FlowStarts == ASSUME FlowInit PROVE FlowInv
<1>1. StreamInv
  <2>1. << >> \in Seq(Int)
    BY EmptySeq
  <2>2. position \in Int /\ start \in Int /\ answer \in (IF kind = "file" THEN Nat ELSE Int)
    BY DEF FlowInit, Init
  <2>3. kind \in {"file", "disk"} /\ threw \in BOOLEAN /\ copying \in BOOLEAN /\ ~copying
    BY Zenon DEF FlowInit, Init
  <2>4. copied \in Seq(Int)
    BY <2>1 DEF FlowInit, Init
  <2> QED BY <2>2, <2>3, <2>4, Zenon DEF StreamInv, StreamTypeOK
<1>2. << >> \in Seq(Check!Runs) /\ Len(runs) = 0
  BY EmptySeq DEF FlowInit
<1>3. Check!TypeOK
  BY <1>2, Assumptions DEF FlowInit, Check!TypeOK
<1> QED BY <1>1, <1>2, <1>3 DEF FlowInit, Init, FlowInv

LEMMA UseStreamKeeps == ASSUME FlowInv, UseStream PROVE FlowInv'
<1>1. StreamInv'
  BY StreamStep DEF FlowInv, UseStream
<1>2. /\ phase = "streams" /\ phase' = phase /\ bitmap' = bitmap /\ used' = used /\ runs' = runs
      /\ pc' = pc /\ r' = r /\ i' = i /\ index' = index /\ bit' = bit /\ verdict' = verdict
  BY DEF UseStream, check
<1>3. Check!TypeOK'
  BY <1>2 DEF FlowInv, Check!TypeOK
<1> QED BY <1>1, <1>2, <1>3 DEF FlowInv, IsCopy

LEMMA AskKeeps == ASSUME FlowInv, Ask PROVE FlowInv'
<1>1. /\ phase # "check" /\ phase' = "bitmap" /\ runs' \in RunLists /\ verdict' = "free"
      /\ kind' = "file" /\ position' = 0 /\ answer' = 0 /\ threw' = FALSE
      /\ copying' = FALSE /\ start' = 0 /\ copied' = << >>
      /\ bitmap' = bitmap /\ used' = used
      /\ pc' = pc /\ r' = r /\ i' = i /\ index' = index /\ bit' = bit
  BY DEF Ask, check
<1>2. StreamInv'
  <2>1. << >> \in Seq(Int)
    BY EmptySeq
  <2>2. position' \in Int /\ start' \in Int /\ answer' \in (IF kind' = "file" THEN Nat ELSE Int)
    BY <1>1
  <2>3. kind' \in {"file", "disk"} /\ threw' \in BOOLEAN /\ copying' \in BOOLEAN /\ ~copying'
    BY <1>1, Zenon
  <2>4. copied' \in Seq(Int)
    BY <1>1, <2>1
  <2> QED BY <2>2, <2>3, <2>4, Zenon DEF StreamInv, StreamTypeOK
<1>3. runs' \in Seq(Check!Runs) /\ Len(runs') \in Nat
  BY <1>1, Assumptions, LenProperties
<1>4. Check!TypeOK' /\ r' = 1
  BY <1>1, <1>3 DEF FlowInv, Check!TypeOK
<1> QED BY <1>1, <1>2, <1>3, <1>4 DEF FlowInv, IsCopy

\* A look begins with nothing established.
LEMMA LookBegins ==
  ASSUME FlowInv, NEW copy, copy = << >> \/ IsCopy(copy), Look(copy),
         runs' = runs, verdict = "free", verdict' = verdict
  PROVE  /\ used' = copy /\ phase' = "check" /\ LooksInv'
<1>1. /\ used' = copy /\ phase' = "check" /\ pc' = "runs" /\ r' = 1 /\ i' = 0
      /\ index' = 0 /\ bit' = 0
  BY DEF Look
<1>2. Len(runs) \in Nat
  BY LenProperties DEF FlowInv
<1>3. Check!TypeOK'
  BY <1>1, <1>2, Assumptions DEF Check!TypeOK
<1>4. \A k \in Plain' : ~(k < r')
  BY <1>1, <1>2 DEF Plain
<1> QED BY <1>1, <1>3, <1>4 DEF LooksInv

LEMMA UseBitmapKeeps == ASSUME FlowInv, UseBitmap PROVE FlowInv'
<1>1. /\ phase = "bitmap" /\ Look(bitmap) /\ UNCHANGED vars
      /\ bitmap' = bitmap /\ runs' = runs /\ verdict' = verdict /\ IsCopy(bitmap)
      /\ verdict = "free"
  BY DEF UseBitmap, stream, FlowInv
<1>2. used' = bitmap /\ phase' = "check" /\ LooksInv'
  BY <1>1, LookBegins
<1>3. StreamInv'
  BY <1>1, StreamStep DEF FlowInv
<1>4. copying' = copying
  BY <1>1 DEF vars
<1> QED BY <1>1, <1>2, <1>3, <1>4 DEF FlowInv, IsCopy

LEMMA OpenBitmapKeeps == ASSUME FlowInv, OpenBitmap PROVE FlowInv'
<1>1. /\ phase = "bitmap" /\ BeginCopy /\ phase' = "copy" /\ bitmap' = bitmap /\ used' = used
      /\ runs' = runs /\ pc' = pc /\ r' = r /\ i' = i /\ index' = index /\ bit' = bit
      /\ verdict' = verdict
  BY DEF OpenBitmap, check
<1>2. StreamInv'
  BY <1>1, StreamStep DEF FlowInv, StreamNext
<1>3. kind' = "file" /\ copying' /\ start' = 0 /\ position' <= Length
  BY <1>1, Assumptions DEF BeginCopy, FlowInv
<1>4. Check!TypeOK'
  BY <1>1 DEF FlowInv, Check!TypeOK
<1> QED BY <1>1, <1>2, <1>3, <1>4 DEF FlowInv, IsCopy

LEMMA OpenBitmapFailsKeeps == ASSUME FlowInv, OpenBitmapFails PROVE FlowInv'
<1>1. /\ phase = "bitmap" /\ phase' = "idle" /\ verdict' = "threw" /\ UNCHANGED vars
      /\ bitmap' = bitmap /\ used' = used /\ runs' = runs
      /\ pc' = pc /\ r' = r /\ i' = i /\ index' = index /\ bit' = bit
  BY DEF OpenBitmapFails, Fail, check, stream
<1>2. StreamInv' /\ copying' = copying
  BY <1>1, StreamStep DEF FlowInv, vars
<1>3. Check!TypeOK'
  BY <1>1 DEF FlowInv, Check!TypeOK
<1> QED BY <1>1, <1>2, <1>3 DEF FlowInv, IsCopy

\* A copy that goes on has not left the file; what it holds is the file so far.
LEMMA CopyBitmapKeeps == ASSUME FlowInv, CopyBitmap PROVE FlowInv'
<1>1. /\ phase = "copy" /\ Copy /\ runs' = runs /\ kind = "file" /\ copying /\ start = 0
      /\ position <= Length /\ verdict = "free" /\ position \in Int /\ start <= position
      /\ copied = Interval(0, position)
  <2>1. position \in Int /\ position - 0 = position
    BY DEF FlowInv, StreamInv, StreamTypeOK
  <2> QED BY <2>1 DEF CopyBitmap, FlowInv, StreamInv
<1>2. StreamInv' /\ kind' = "file" /\ start' = 0
  BY <1>1, StreamStep DEF FlowInv, StreamNext, Copy
<1>3. position' <= Length
  <2>1. CASE UNCHANGED position
    BY <1>1, <2>1
  <2>2. ASSUME NEW n \in Counts, NEW br \in ReadBytes(position, n), position' = Advance(n, br)
        PROVE  position' <= Length
    BY <1>1, <2>2, ReadsAreInside, Assumptions DEF Advance
  <2> QED BY <1>1, <2>1, <2>2 DEF Copy
<1>4. CASE copying' /\ UNCHANGED <<phase, bitmap, used, check, verdict>>
  <2>1. Check!TypeOK'
    BY <1>1, <1>4 DEF FlowInv, Check!TypeOK, check
  <2> QED BY <1>1, <1>2, <1>3, <1>4, <2>1 DEF FlowInv, IsCopy, check
<1>5. CASE ~copying' /\ threw' /\ Fail /\ UNCHANGED bitmap
  <2>1. Check!TypeOK'
    BY <1>1, <1>5 DEF FlowInv, Check!TypeOK, Fail, check
  <2> QED BY <1>1, <1>2, <1>5, <2>1 DEF FlowInv, IsCopy, Fail, check
<1>6. CASE ~copying' /\ bitmap' = copied /\ Look(copied) /\ UNCHANGED verdict
  <2>1. IsCopy(copied)
    BY <1>1, Assumptions DEF IsCopy
  <2>2. used' = copied /\ phase' = "check" /\ LooksInv'
    BY <1>1, <1>6, <2>1, LookBegins
  <2> QED BY <1>1, <1>2, <1>6, <2>1, <2>2 DEF FlowInv, IsCopy
<1> QED BY <1>4, <1>5, <1>6 DEF CopyBitmap

LEMMA CheckRunsKeeps == ASSUME FlowInv, CheckRuns PROVE FlowInv'
<1>1. /\ phase = "check" /\ UNCHANGED vars /\ phase' = phase /\ content' = content
      /\ bitmap' = bitmap /\ used' = used /\ Check!Next
  BY DEF CheckRuns, stream
<1>2. runs' = runs
  BY <1>1 DEF Check!Next, Check!NoBitmap, Check!PassOver, Check!EnterIsFree, Check!NoneTaken,
              Check!OutOfRange, Check!FoundTaken, Check!FoundFree, Check!RunIsFree, Check!file
<1>3. LooksInv'
  BY <1>1, <1>2, CheckKeeps DEF Looking, Same, FlowInv
<1>4. StreamInv' /\ copying' = copying
  BY <1>1, StreamStep DEF FlowInv, vars
<1> QED BY <1>1, <1>2, <1>3, <1>4 DEF FlowInv, IsCopy

LEMMA ReturnKeeps == ASSUME FlowInv, Return PROVE FlowInv'
<1>1. /\ phase = "check" /\ phase' = "idle" /\ pc = "done" /\ UNCHANGED vars
      /\ runs' = << >> /\ used' = << >> /\ bitmap' = bitmap /\ pc' = pc /\ verdict' = verdict
      /\ r' = 1 /\ i' = 0 /\ index' = 0 /\ bit' = 0
  BY DEF Return, stream
<1>2. StreamInv' /\ copying' = copying
  BY <1>1, StreamStep DEF FlowInv, vars
<1>3. << >> \in Seq(Check!Runs) /\ Len(runs') = 0
  BY <1>1, EmptySeq
<1>4. Check!TypeOK'
  BY <1>1, <1>3, Assumptions DEF FlowInv, LooksInv, Check!TypeOK
<1> QED BY <1>1, <1>2, <1>3, <1>4 DEF FlowInv, IsCopy

\* Another thread changes the kept copy only, and with a copy.
LEMMA OthersKeep ==
  ASSUME FlowInv, UNCHANGED <<stream, phase, content, used, runs, check, verdict>>,
         bitmap' = Null \/ IsCopy(bitmap')
  PROVE  FlowInv'
<1>1. /\ UNCHANGED vars /\ phase' = phase /\ Same /\ verdict' = verdict
      /\ pc' = pc /\ r' = r /\ i' = i /\ index' = index /\ bit' = bit
  BY DEF stream, check, Same
<1>2. /\ StreamInv' /\ copying' = copying /\ kind' = kind /\ start' = start
      /\ position' = position
  BY <1>1, StreamStep DEF FlowInv, vars
<1>3. phase = "check" => LooksInv'
  BY <1>1, LooksStutter DEF FlowInv
<1>4. phase # "check" => Check!TypeOK'
  BY <1>1 DEF FlowInv, Check!TypeOK, Same
<1> QED BY <1>1, <1>2, <1>3, <1>4 DEF FlowInv, IsCopy, Same, Null

LEMMA FlowStep == ASSUME FlowInv, [FlowNext]_flowVars PROVE FlowInv'
<1>1. CASE OtherBegins
  BY <1>1, OthersKeep DEF OtherBegins, FlowInv
<1>2. CASE OtherStores
  <2>1. IsCopy(bitmap')
    BY <1>2 DEF OtherStores, IsCopy
  <2> QED BY <1>2, <2>1, OthersKeep DEF OtherStores
<1>3. CASE UNCHANGED flowVars
  <2>1. /\ UNCHANGED <<stream, phase, content, used, runs, check, verdict>>
        /\ bitmap' = bitmap
    BY <1>3 DEF flowVars, stream, check
  <2> QED BY <2>1, OthersKeep DEF FlowInv
<1> QED BY <1>1, <1>2, <1>3, UseStreamKeeps, AskKeeps, UseBitmapKeeps, OpenBitmapKeeps,
           OpenBitmapFailsKeeps, CopyBitmapKeeps, CheckRunsKeeps, ReturnKeeps DEF FlowNext

LEMMA FlowInvariant == FlowSpec => []FlowInv
<1>1. FlowInit => FlowInv
  BY FlowStarts
<1>2. FlowInv /\ [FlowNext]_flowVars => FlowInv'
  BY FlowStep
<1> QED BY <1>1, <1>2, PTL DEF FlowSpec

\* Streams, the kept copy and the look at it keep their types, for any length,
\* counts, widths, runs and contents.
THEOREM TypeCorrect == FlowSpec => []TypeOK
<1>1. ASSUME FlowInv PROVE TypeOK
  <2>1. bitmap = Null \/ bitmap \in Seq(0..(Length - 1))
    BY <1>1, CopiesAreTyped DEF FlowInv
  <2>2. used \in Seq(0..(Length - 1))
    BY <1>1, CopiesAreTyped, EmptySeq DEF FlowInv
  <2> QED BY <1>1, <2>1, <2>2 DEF FlowInv, StreamInv, LooksInv, TypeOK
<1> QED BY <1>1, FlowInvariant, PTL

\* CopyTo writes each byte once and in order, whatever counts it reads with and
\* however short the reads come.
THEOREM OrderOfCopies == FlowSpec => []CopyIsInOrder
<1>1. FlowInv => CopyIsInOrder
  BY DEF FlowInv, StreamInv, CopyIsInOrder
<1> QED BY <1>1, FlowInvariant, PTL

\* Over any copy that holds something, the verdict is about the file's clusters
\* on the disk.
THEOREM Verdicts == FlowSpec => []VerdictIsRight
<1>1. ASSUME FlowInv PROVE VerdictIsRight
  <2> SUFFICES ASSUME Answered, \A k \in Plain : Check!FitsInt(k)
               PROVE  /\ verdict = "overwritten" => \E k \in Plain : Clusters(k) \cap content # {}
                      /\ verdict = "free" => \A k \in Plain : Clusters(k) \cap content = {}
    BY DEF VerdictIsRight
  <2>1. Outcome /\ IsCopy(used) /\ used # << >> /\ runs \in Seq(Check!Runs) /\ Looking
    BY <1>1 DEF FlowInv, LooksInv, Answered, Looking
  <2>2. MarkedIn(used) = content \cap 0..(Len(used) * ByteBits - 1)
    BY <2>1, CopiesMark
  <2>3. ASSUME NEW k \in Plain, NEW c \in Clusters(k), Check!InBitmap(c)
        PROVE  c \in 0..(Len(used) * ByteBits - 1)
    <3>1. runs[k].addr \in Nat /\ runs[k].len \in Nat /\ Len(used) \in Nat
      BY <2>1, RunsAreTyped, BytesOfUsed DEF Plain
    <3>2. Len(used) * ByteBits \in Nat
      BY <3>1, Assumptions
    <3>3. c \in Nat
      BY <3>1 DEF Clusters
    <3>4. c < Len(used) * ByteBits
      BY <2>3 DEF Check!InBitmap
    <3> QED BY <3>2, <3>3, <3>4
  <2>4. ASSUME verdict = "overwritten" PROVE \E k \in Plain : Clusters(k) \cap content # {}
    BY <2>1, <2>2, <2>4 DEF Outcome
  <2>5. ASSUME verdict = "free", NEW k \in Plain PROVE Clusters(k) \cap content = {}
    BY <2>1, <2>2, <2>3, <2>5 DEF Outcome, Clean, IsFreeCluster
  <2> QED BY <2>4, <2>5
<1> QED BY <1>1, FlowInvariant, PTL

\* An exception of the check means a run that leaves the copy or int.
THEOREM Exceptions == FlowSpec => []ThrowsOnlyOutside
<1>1. ASSUME FlowInv PROVE ThrowsOnlyOutside
  <2>1. Answered => Outcome
    BY <1>1 DEF FlowInv, LooksInv, Answered
  <2> QED BY <2>1 DEF ThrowsOnlyOutside, Check!ThrowsOnlyOutside, Outcome, Plain, Check!Plain,
                      Clusters, Check!Clusters
<1> QED BY <1>1, FlowInvariant, PTL
=============================================================================
