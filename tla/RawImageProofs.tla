--------------------------- MODULE RawImageProofs ---------------------------
(***************************************************************************)
(* Proofs about RawImage, for any number and sizes of segments, any size   *)
(* of the table of open files and any files that fail.                     *)
(*                                                                         *)
(* The table of slots is right whoever holds which lock: what a step does  *)
(* to it is consistent.  The bytes are right when all threads come through *)
(* the lock of the image itself, because the slot that a call is about to  *)
(* read is then not taken from it between two of its steps.                *)
(***************************************************************************)
EXTENDS RawImage, SequenceTheorems, WellFoundedInduction, TLAPS

N == Len(SegSize)

\* All reads take the lock of the image: no pool is open on it.
OneLock == \A t \in Threads : Through[t] = Base

-----------------------------------------------------------------------------
\* What holds of 0 and passes from n to n + 1 holds of all numbers up to m:
\* otherwise there would be a least one of which it does not hold.
LEMMA CountingUp ==
  ASSUME NEW m \in Nat, NEW T, 0 \in T, \A n \in 0..(m - 1) : n \in T => n + 1 \in T
  PROVE  \A n \in 0..m : n \in T
<1> DEFINE R == OpToRel(<, Nat)   Bad == {n \in 0..m : n \notin T}
<1> SUFFICES ASSUME Bad # {} PROVE FALSE
  OBVIOUS
<1>1. IsWellFoundedOn(R, Nat)
  BY NatLessThanWellFounded, Zenon
<1>2. \A x, y \in Nat : x < y => <<x, y>> \in R
  BY Zenon DEF OpToRel
<1>3. Bad \subseteq Nat /\ \A n \in Bad : n - 1 \in Bad
  OBVIOUS
<1> HIDE DEF R, Bad
<1>4. PICK n \in Bad : \A k \in Bad : <<k, n>> \notin R
  BY <1>1, <1>3, WFMin
<1>5. n \in Nat /\ n - 1 \in Bad /\ n - 1 \in Nat
  BY <1>3
<1>6. <<n - 1, n>> \in R
  BY <1>2, <1>5
<1> QED BY <1>4, <1>5, <1>6

-----------------------------------------------------------------------------
(* The table of segments *)

LEMMA SegmentSizes ==
  /\ N \in Nat \ {0} /\ SegSize \in [1..N -> Nat] /\ Segments = 1..N
  /\ \A i \in Segments : i # 0 /\ i \in 0..N
  /\ \A i \in 0..N : i # 0 => i \in Segments
<1>1. Len(SegSize) \in Nat /\ SegSize \in [1..Len(SegSize) -> Nat]
  BY ImageAssumption, LenProperties
<1> QED BY <1>1, ImageAssumption DEF N, Segments

\* max_off, as raw_open fills it: each segment begins where the one before ends.
LEMMA SegmentEnds ==
  /\ MaxOff \in [0..N -> Nat] /\ MaxOff[0] = 0
  /\ \A i \in 1..N : MaxOff[i] = MaxOff[i - 1] + SegSize[i]
<1> DEFINE G(g, n) == /\ g \in [0..n -> Nat] /\ g[0] = 0
                      /\ \A i \in 1..n : g[i] = g[i - 1] + SegSize[i]
           T == {n \in 0..N : \E g : G(g, n)}
           P(g) == g = [i \in 0..N |-> IF i = 0 THEN 0 ELSE g[i - 1] + SegSize[i]]
<1>0. N \in Nat /\ SegSize \in [1..N -> Nat]
  BY SegmentSizes
<1>1. 0 \in T
  <2>1. G([i \in 0..0 |-> 0], 0)
    OBVIOUS
  <2> HIDE DEF G
  <2>2. 0 \in 0..N
    BY <1>0
  <2> QED BY <2>1, <2>2
<1>2. ASSUME NEW n \in 0..(N - 1), n \in T PROVE n + 1 \in T
  <2>1. PICK g : G(g, n)
    BY <1>2
  <2>2. n \in Nat /\ n + 1 \in 1..N /\ SegSize[n + 1] \in Nat /\ g[n] \in Nat
    BY <1>0, <2>1
  <2> DEFINE h == [i \in 0..(n + 1) |-> IF i = n + 1 THEN g[n] + SegSize[n + 1] ELSE g[i]]
  <2>3. h \in [0..(n + 1) -> Nat] /\ h[0] = 0
    BY <2>1, <2>2
  <2>4. ASSUME NEW i \in 1..(n + 1) PROVE h[i] = h[i - 1] + SegSize[i]
    <3>1. CASE i = n + 1
      BY <3>1, <2>2
    <3>2. CASE i # n + 1
      BY <3>2, <2>1, <2>2
    <3> QED BY <3>1, <3>2
  <2>5. G(h, n + 1)
    BY <2>3, <2>4
  <2> HIDE DEF h, G
  <2> QED BY <2>2, <2>5, <1>0
<1>3. PICK g : G(g, N)
  <2> HIDE DEF G
  <2>1. \A n \in 0..N : n \in T
    <3> HIDE DEF T
    <3> QED BY <1>0, <1>1, <1>2, CountingUp
  <2> QED BY <2>1, <1>0
<1>4. P(g)
  <2>1. g = [i \in 0..N |-> g[i]]
    BY <1>3
  <2>2. \A i \in 0..N : g[i] = IF i = 0 THEN 0 ELSE g[i - 1] + SegSize[i]
    BY <1>3, <1>0
  <2> QED BY <2>1, <2>2
<1>5. MaxOff = CHOOSE h : P(h)
  BY DEF MaxOff, N
<1>6. P(MaxOff)
  BY <1>4, <1>5
<1>7. ASSUME NEW h, P(h) PROVE \A i \in 0..N : i \in {j \in 0..N : h[j] = g[j]}
  <2> DEFINE E == {j \in 0..N : h[j] = g[j]}
  <2>1. 0 \in E
    BY <1>7, <1>3, <1>0
  <2>2. ASSUME NEW n \in 0..(N - 1), n \in E PROVE n + 1 \in E
    <3>1. n + 1 \in 0..N /\ n + 1 # 0 /\ n + 1 \in 1..N /\ n + 1 - 1 = n
      BY <1>0
    <3>2. h[n + 1] = h[n] + SegSize[n + 1]
      <4>1. \A i \in 0..N : h[i] = IF i = 0 THEN 0 ELSE h[i - 1] + SegSize[i]
        BY <1>7
      <4> QED BY <4>1, <3>1
    <3>3. g[n + 1] = g[n] + SegSize[n + 1]
      BY <3>1, <1>3
    <3> QED BY <3>1, <3>2, <3>3, <2>2
  <2> HIDE DEF E
  <2>3. \A n \in 0..N : n \in E
    BY <1>0, <2>1, <2>2, CountingUp
  <2> QED BY <2>3 DEF E
<1>8. MaxOff = g
  <2>1. MaxOff = [i \in 0..N |-> MaxOff[i]] /\ g = [i \in 0..N |-> g[i]]
    BY <1>3, <1>6
  <2>2. \A i \in 0..N : MaxOff[i] = g[i]
    BY <1>6, <1>7
  <2> HIDE DEF P, G
  <2> QED BY <2>1, <2>2
<1> QED BY <1>3, <1>8

\* No segment ends behind the image.
LEMMA EndsAreInOrder == Size \in Nat /\ \A i \in 0..N : MaxOff[i] <= Size
<1>0. /\ N \in Nat /\ SegSize \in [1..N -> Nat] /\ MaxOff \in [0..N -> Nat]
      /\ \A i \in 1..N : MaxOff[i] = MaxOff[i - 1] + SegSize[i]
  BY SegmentSizes, SegmentEnds
<1>1. Size = MaxOff[N] /\ Size \in Nat
  BY <1>0 DEF Size, N
<1> DEFINE T == {k \in 0..N : MaxOff[N - k] <= Size}
<1>2. 0 \in T
  BY <1>0, <1>1
<1>3. ASSUME NEW k \in 0..(N - 1), k \in T PROVE k + 1 \in T
  <2>1. N - k \in 1..N /\ N - (k + 1) = (N - k) - 1 /\ k + 1 \in 0..N
    BY <1>0
  <2>2. MaxOff[N - k] = MaxOff[N - (k + 1)] + SegSize[N - k]
        /\ SegSize[N - k] \in Nat /\ MaxOff[N - (k + 1)] \in Nat
    BY <2>1, <1>0
  <2> QED BY <2>1, <2>2, <1>1, <1>3
<1> HIDE DEF T
<1>4. \A k \in 0..N : k \in T
  BY <1>0, <1>2, <1>3, CountingUp
<1>5. ASSUME NEW i \in 0..N PROVE MaxOff[i] <= Size
  <2>1. N - i \in 0..N /\ N - (N - i) = i
    BY <1>0
  <2> QED BY <2>1, <1>4 DEF T
<1> QED BY <1>1, <1>5

-----------------------------------------------------------------------------
(* What a call knows, whoever else reads *)

Working(c) == c.pc \in {"open", "seek", "read"}

\* The next byte of call c is byte rel of segment seg, and want ends with the
\* segment or with the call.
Aims(c) ==
  /\ c.got \in Nat /\ c.got + c.left = c.asked
  /\ MaxOff[c.seg - 1] + c.rel = c.off + c.got
  /\ c.off + c.got <= MaxOff[c.seg]
  /\ c.want = Least(MaxOff[c.seg] - (c.off + c.got), c.left)
  /\ MaxOff[c.seg - 1] < c.off + c.asked /\ c.off < MaxOff[c.seg]

CallIsSane(c) ==
  /\ c.pc = "lock" => c.got = 0 /\ c.left = c.asked /\ c.asked > 0 /\ c.off < Size
  /\ Working(c) => Aims(c)

SlotsTyped ==
  /\ cptr \in [Segments -> 0..SlotNum]
  /\ fd \in [Slots -> 0..Len(SegSize)]
  /\ image \in [Slots -> Segments]
  /\ seekPos \in [Slots -> Nat] /\ filePos \in [Slots -> Nat]
  /\ nextSlot \in Slots

Table == SlotsTyped /\ SlotsAgree /\ SeekPosIsFilePos

CallsAreSane ==
  /\ lock \in [Infos -> Threads \cup {NoThread}]
  /\ call \in [Threads -> Calls]
  /\ \A t \in Threads : CallIsSane(call[t])

\* Numbers of slots, and the numbers that cptr keeps of them.
LEMMA SlotNumbers ==
  /\ SlotNum \in Nat \ {0} /\ Slots = 0..(SlotNum - 1)
  /\ \A s \in Slots : s \in Nat /\ s + 1 \in 0..SlotNum /\ s + 1 # 0
  /\ \A k \in 0..SlotNum : k # 0 => k - 1 \in Slots /\ k - 1 + 1 = k
BY ImageAssumption DEF Slots

\* SlotsAgree of pointers c, files f and images g, said of one segment and one
\* slot at a time.
Agree(c, f, g) ==
  \A i \in Segments, s \in Slots : /\ c[i] = s + 1 <=> f[s] = i
                                   /\ f[s] = i => g[s] = i

LEMMA AgreeIsSlotsAgree ==
  ASSUME NEW c \in [Segments -> 0..SlotNum], NEW f \in [Slots -> 0..N], NEW g
  PROVE  Agree(c, f, g) <=>
           /\ \A i \in Segments : c[i] # 0 => f[c[i] - 1] = i /\ g[c[i] - 1] = i
           /\ \A s \in Slots : f[s] # 0 => c[f[s]] = s + 1
<1> USE SegmentSizes, SlotNumbers
<1>1. ASSUME Agree(c, f, g), NEW i \in Segments, c[i] # 0
      PROVE  f[c[i] - 1] = i /\ g[c[i] - 1] = i
  <2>1. c[i] \in 0..SlotNum
    OBVIOUS
  <2>2. c[i] - 1 \in Slots /\ c[i] - 1 + 1 = c[i]
    BY <2>1, <1>1
  <2> HIDE SegmentSizes, SlotNumbers
  <2> QED BY <2>2, <1>1 DEF Agree
<1>2. ASSUME Agree(c, f, g), NEW s \in Slots, f[s] # 0 PROVE c[f[s]] = s + 1
  <2>1. f[s] \in 0..N
    OBVIOUS
  <2>2. f[s] \in Segments
    BY <2>1, <1>2
  <2> QED BY <2>2, <1>2 DEF Agree
<1>3. ASSUME \A i \in Segments : c[i] # 0 => f[c[i] - 1] = i /\ g[c[i] - 1] = i,
             \A s \in Slots : f[s] # 0 => c[f[s]] = s + 1,
             NEW i \in Segments, NEW s \in Slots
      PROVE  (c[i] = s + 1 <=> f[s] = i) /\ (f[s] = i => g[s] = i)
  <2>1. ASSUME c[i] = s + 1 PROVE f[s] = i /\ g[s] = i
    <3>1. c[i] # 0 /\ c[i] - 1 = s
      BY <2>1
    <3> HIDE SegmentSizes, SlotNumbers
    <3> QED BY <3>1, <1>3
  <2>2. ASSUME f[s] = i PROVE c[i] = s + 1
    <3>1. f[s] # 0
      BY <2>2
    <3> HIDE SegmentSizes, SlotNumbers
    <3> QED BY <3>1, <2>2, <1>3
  <2> QED BY <2>1, <2>2
<1> QED BY <1>1, <1>2, <1>3 DEF Agree

LEMMA TableAgrees ==
  ASSUME Table
  PROVE  Agree(cptr, fd, image)
<1>1. cptr \in [Segments -> 0..SlotNum] /\ fd \in [Slots -> 0..N]
  BY DEF Table, SlotsTyped, N
<1> QED BY <1>1, AgreeIsSlotsAgree DEF Table, SlotsAgree, Closed

LEMMA AgreesAgain ==
  ASSUME SlotsTyped', Agree(cptr', fd', image')
  PROVE  SlotsAgree'
<1>1. cptr' \in [Segments -> 0..SlotNum] /\ fd' \in [Slots -> 0..N]
  BY DEF SlotsTyped, N
<1>2. /\ \A i \in Segments : cptr'[i] # 0 => fd'[cptr'[i] - 1] = i /\ image'[cptr'[i] - 1] = i
      /\ \A s \in Slots : fd'[s] # 0 => cptr'[fd'[s]] = s + 1
  BY <1>1, AgreeIsSlotsAgree
<1> QED BY <1>2 DEF SlotsAgree, Closed

\* Closing the file of a slot leaves no segment that points to it, and the
\* other pointers as they were.
LEMMA ClosedSlot ==
  ASSUME Table, NEW s \in Slots
  PROVE  /\ AfterClosing(s) \in [Segments -> 0..SlotNum]
         /\ \A j \in Segments : AfterClosing(s)[j] # s + 1
         /\ \A j \in Segments, u \in Slots \ {s} :
              AfterClosing(s)[j] = u + 1 <=> cptr[j] = u + 1
<1>0. /\ cptr \in [Segments -> 0..SlotNum] /\ fd[s] \in 0..N
      /\ image[s] \in Segments /\ 0 \in 0..SlotNum
  BY SlotNumbers DEF Table, SlotsTyped, N
<1>1. Agree(cptr, fd, image)
  BY TableAgrees
<1>2. \A u, v \in Slots : u + 1 = v + 1 => u = v
  BY SlotNumbers
<1>3. CASE fd[s] = Closed
  <2>1. AfterClosing(s) = cptr
    BY <1>3 DEF AfterClosing
  <2>2. \A j \in Segments : fd[s] # j
    BY <1>3, SegmentSizes DEF Closed
  <2> QED BY <2>1, <2>2, <1>0, <1>1 DEF Agree
<1>4. CASE fd[s] # Closed
  <2>1. AfterClosing(s) = [cptr EXCEPT ![image[s]] = 0]
    BY <1>4 DEF AfterClosing, Closed
  <2>2. fd[s] \in Segments
    BY <1>0, <1>4, SegmentSizes DEF Closed
  <2>3. image[s] = fd[s] /\ cptr[fd[s]] = s + 1
    BY <2>2, <1>1 DEF Agree
  <2>4. \A j \in Segments : cptr[j] = s + 1 => j = image[s]
    BY <2>3, <1>1 DEF Agree
  <2>5. \A u \in Slots : u + 1 # 0
    BY SlotNumbers
  <2> QED BY <2>1, <2>3, <2>4, <2>5, <1>0, <1>2
<1> QED BY <1>3, <1>4

LEMMA TableOpen ==
  ASSUME Table, NEW t \in Threads, call \in [Threads -> Calls], OpenSegment(t)
  PROVE  Table'
<1> DEFINE i == call[t].seg
           s == nextSlot
           a == AfterClosing(s)
<1>1. i \in Segments /\ s \in Slots
  BY DEF Calls, Table, SlotsTyped
<1>2. /\ a \in [Segments -> 0..SlotNum]
      /\ \A j \in Segments : a[j] # s + 1
      /\ \A j \in Segments, u \in Slots \ {s} : a[j] = u + 1 <=> cptr[j] = u + 1
  BY <1>1, ClosedSlot
<1>3. /\ cptr[i] = 0
      /\ cptr' = [a EXCEPT ![i] = s + 1]
      /\ fd' = [fd EXCEPT ![s] = i]
      /\ image' = [image EXCEPT ![s] = i]
      /\ filePos' = [filePos EXCEPT ![s] = 0] /\ seekPos' = [seekPos EXCEPT ![s] = 0]
      /\ nextSlot' = SlotAfter(s)
  BY DEF OpenSegment, Rewind, Closed
<1> HIDE DEF i, s, a
<1>4. /\ fd \in [Slots -> 0..N] /\ image \in [Slots -> Segments]
      /\ seekPos \in [Slots -> Nat] /\ filePos \in [Slots -> Nat]
      /\ \A u \in Slots : fd[u] # 0 => seekPos[u] = filePos[u]
  BY DEF Table, SlotsTyped, N, SeekPosIsFilePos, Closed
<1>5. Agree(cptr, fd, image)
  BY TableAgrees
<1>6. SlotsTyped'
  <2>1. s + 1 \in 0..SlotNum /\ i \in 0..N /\ SlotAfter(s) \in Slots
    BY <1>1, SlotNumbers, SegmentSizes DEF SlotAfter
  <2>2. cptr' \in [Segments -> 0..SlotNum]
    BY <2>1, <1>1, <1>2, <1>3
  <2>3. fd' \in [Slots -> 0..N] /\ image' \in [Slots -> Segments]
    BY <2>1, <1>1, <1>3, <1>4
  <2>4. seekPos' \in [Slots -> Nat] /\ filePos' \in [Slots -> Nat]
    BY <1>3, <1>4
  <2> QED BY <2>1, <2>2, <2>3, <2>4, <1>3 DEF SlotsTyped, N
<1>7. Agree(cptr', fd', image')
  <2> SUFFICES ASSUME NEW j \in Segments, NEW u \in Slots
               PROVE  (cptr'[j] = u + 1 <=> fd'[u] = j) /\ (fd'[u] = j => image'[u] = j)
    BY DEF Agree
  <2>1. s + 1 = u + 1 => s = u
    BY <1>1, SlotNumbers
  <2>2. cptr[i] # u + 1
    BY <1>3, SlotNumbers
  <2>3. cptr'[j] = IF j = i THEN s + 1 ELSE a[j]
    BY <1>2, <1>3
  <2>4. fd'[u] = (IF u = s THEN i ELSE fd[u]) /\ image'[u] = (IF u = s THEN i ELSE image[u])
    BY <1>3, <1>4
  <2>5. (cptr[j] = u + 1 <=> fd[u] = j) /\ (fd[u] = j => image[u] = j)
    BY <1>5 DEF Agree
  <2>6. CASE u = s
    BY <2>3, <2>4, <2>6, <1>2
  <2>7. CASE u # s
    <3>1. a[j] = u + 1 <=> cptr[j] = u + 1
      BY <2>7, <1>2
    <3> QED BY <2>1, <2>2, <2>3, <2>4, <2>5, <2>7, <3>1
  <2> QED BY <2>6, <2>7
<1>8. ASSUME NEW u \in Slots, fd'[u] # Closed PROVE seekPos'[u] = filePos'[u]
  BY <1>1, <1>3, <1>4, <1>8 DEF Closed
<1> QED BY <1>6, <1>7, <1>8, AgreesAgain DEF Table, SeekPosIsFilePos

LEMMA TableOpenFails ==
  ASSUME Table, NEW t \in Threads, OpenFails(t)
  PROVE  Table'
<1> DEFINE s == nextSlot
           a == AfterClosing(s)
<1>1. s \in Slots
  BY DEF Table, SlotsTyped
<1>2. /\ a \in [Segments -> 0..SlotNum]
      /\ \A j \in Segments : a[j] # s + 1
      /\ \A j \in Segments, u \in Slots \ {s} : a[j] = u + 1 <=> cptr[j] = u + 1
  BY <1>1, ClosedSlot
<1>3. /\ cptr' = a /\ fd' = [fd EXCEPT ![s] = 0] /\ image' = image
      /\ filePos' = filePos /\ seekPos' = seekPos /\ nextSlot' = nextSlot
  BY DEF OpenFails, Closed
<1> HIDE DEF s, a
<1>4. /\ fd \in [Slots -> 0..N] /\ 0 \in 0..N
      /\ \A u \in Slots : fd[u] # 0 => seekPos[u] = filePos[u]
  BY SegmentSizes DEF Table, SlotsTyped, N, SeekPosIsFilePos, Closed
<1>5. Agree(cptr, fd, image)
  BY TableAgrees
<1>6. SlotsTyped'
  BY <1>2, <1>3, <1>4 DEF Table, SlotsTyped, N
<1>7. Agree(cptr', fd', image')
  <2> SUFFICES ASSUME NEW j \in Segments, NEW u \in Slots
               PROVE  (cptr'[j] = u + 1 <=> fd'[u] = j) /\ (fd'[u] = j => image'[u] = j)
    BY DEF Agree
  <2>1. fd'[u] = IF u = s THEN 0 ELSE fd[u]
    BY <1>3, <1>4
  <2>2. (cptr[j] = u + 1 <=> fd[u] = j) /\ (fd[u] = j => image[u] = j)
    BY <1>5 DEF Agree
  <2>3. j # 0
    BY SegmentSizes
  <2> QED BY <2>1, <2>2, <2>3, <1>1, <1>2, <1>3
<1>8. ASSUME NEW u \in Slots, fd'[u] # Closed PROVE seekPos'[u] = filePos'[u]
  BY <1>1, <1>3, <1>4, <1>8 DEF Closed
<1> QED BY <1>6, <1>7, <1>8, AgreesAgain DEF Table, SeekPosIsFilePos

\* What read returns: at most what was wanted, and all of it from a sound file
\* that is long enough.
LEMMA ReadGives ==
  ASSUME Table, NEW s \in Slots, fd[s] # Closed, NEW w \in Nat, NEW n \in ReadCounts(s, w)
  PROVE  /\ n \in 0..w
         /\ fd[s] \notin Flaky /\ filePos[s] + w <= SegSize[fd[s]] => n = w
<1>1. fd[s] \in Segments /\ SegSize[fd[s]] \in Nat /\ filePos[s] \in Nat
  BY SegmentSizes DEF Table, SlotsTyped, Closed, N
<1> DEFINE z == SegSize[fd[s]]
           most == IF filePos[s] >= z THEN 0 ELSE Least(w, z - filePos[s])
<1>2. most \in 0..w
  BY <1>1 DEF Least
<1>3. filePos[s] + w <= z => most = w
  BY <1>1 DEF Least
<1>4. n \in IF fd[s] \in Flaky THEN 0..most ELSE {most}
  BY DEF ReadCounts
<1> HIDE DEF most
<1> QED BY <1>2, <1>3, <1>4

LEMMA TableSeek ==
  ASSUME Table, NEW t \in Threads, call \in [Threads -> Calls], SeekSegment(t)
  PROVE  /\ Table'
         /\ fd[call[t].slot] # Closed => filePos'[call[t].slot] = call[t].rel
<1> DEFINE s == call[t].slot
           rel == call[t].rel
<1>1. s \in Slots /\ rel \in Nat
  BY DEF Calls
<1>2. /\ UNCHANGED <<cptr, fd, image, nextSlot>>
      /\ \/ seekPos[s] = rel /\ UNCHANGED <<seekPos, filePos>>
         \/ /\ filePos' = [filePos EXCEPT ![s] = rel]
            /\ seekPos' = [seekPos EXCEPT ![s] = rel]
  BY DEF SeekSegment
<1> HIDE DEF s, rel
<1>3. SlotsTyped' /\ SeekPosIsFilePos'
  BY <1>1, <1>2 DEF Table, SlotsTyped, SeekPosIsFilePos
<1>4. SlotsAgree'
  BY <1>2 DEF Table, SlotsAgree
<1>5. fd[s] # Closed => filePos'[s] = rel
  BY <1>1, <1>2 DEF Table, SlotsTyped, SeekPosIsFilePos
<1> QED BY <1>3, <1>4, <1>5 DEF Table, s, rel

LEMMA TableRead ==
  ASSUME Table, NEW t \in Threads, call \in [Threads -> Calls], ReadSegment(t)
  PROVE  Table'
<1> DEFINE s == call[t].slot
           w == call[t].want
<1>1. s \in Slots /\ w \in Nat /\ fd[s] # Closed
  BY DEF Calls, ReadSegment
<1>2. PICK n \in ReadCounts(s, w) :
        filePos' = [filePos EXCEPT ![s] = @ + n] /\ seekPos' = [seekPos EXCEPT ![s] = @ + n]
  BY DEF ReadSegment
<1>3. UNCHANGED <<cptr, fd, image, nextSlot>>
  BY DEF ReadSegment
<1>4. n \in Nat
  BY <1>1, ReadGives
<1> HIDE DEF s, w
<1>5. SlotsTyped'
  <2>1. seekPos \in [Slots -> Nat] /\ filePos \in [Slots -> Nat]
    BY DEF Table, SlotsTyped
  <2>2. seekPos[s] + n \in Nat /\ filePos[s] + n \in Nat
    BY <1>1, <1>4, <2>1
  <2>3. seekPos' \in [Slots -> Nat] /\ filePos' \in [Slots -> Nat]
    BY <1>2, <2>1, <2>2
  <2> QED BY <1>3, <2>3 DEF Table, SlotsTyped
<1>6. SeekPosIsFilePos'
  BY <1>1, <1>2, <1>3, <1>4 DEF Table, SlotsTyped, SeekPosIsFilePos
<1>7. SlotsAgree'
  BY <1>3 DEF Table, SlotsAgree
<1> QED BY <1>5, <1>6, <1>7 DEF Table

LEMMA TableSame ==
  ASSUME Table, UNCHANGED slots
  PROVE  Table'
BY DEF slots, Table, SlotsTyped, SlotsAgree, SeekPosIsFilePos

-----------------------------------------------------------------------------
(* The call that makes a step *)

LEMMA CallsTyped ==
  ASSUME CallsAreSane, NEW t \in Threads
  PROVE  /\ call[t] \in Calls /\ CallIsSane(call[t])
         /\ call[t].off \in Nat /\ call[t].seg \in 1..N /\ call[t].slot \in Slots
         /\ call[t].asked \in Nat /\ call[t].left \in Nat /\ call[t].rel \in Nat
         /\ call[t].want \in Nat /\ call[t].got \in Int /\ call[t].right \in BOOLEAN
<1>1. call[t] \in Calls /\ CallIsSane(call[t])
  BY DEF CallsAreSane
<1>2. Offsets \subseteq Nat
  BY EndsAreInOrder DEF Offsets
<1> QED BY <1>1, <1>2, SegmentSizes DEF Calls

LEMMA SaneStep ==
  ASSUME CallsAreSane, NEW t \in Threads, NEW d \in Calls, CallIsSane(d),
         call' = [call EXCEPT ![t] = d],
         lock' \in [Infos -> Threads \cup {NoThread}]
  PROVE  CallsAreSane'
<1>1. call \in [Threads -> Calls]
  BY DEF CallsAreSane
<1>2. call' \in [Threads -> Calls]
  BY <1>1
<1>3. \A u \in Threads : CallIsSane(call'[u])
  BY <1>1 DEF CallsAreSane
<1> QED BY <1>2, <1>3 DEF CallsAreSane, CallIsSane, Working, Aims

LEMMA IdleIsSane == NoCall \in Calls /\ CallIsSane(NoCall) /\ NoCall.right = TRUE
<1>1. 0 \in Offsets /\ 1 \in Segments /\ 0 \in Slots
  BY EndsAreInOrder, SegmentSizes, SlotNumbers DEF Offsets
<1> QED BY <1>1 DEF NoCall, Calls, CallIsSane, Working

LEMMA BeginSane ==
  ASSUME CallsAreSane, NEW t \in Threads, Begin(t)
  PROVE  CallsAreSane'
<1>1. PICK o \in 0..(Size - 1), n \in Lengths :
        call' = [call EXCEPT ![t] =
                   [NoCall EXCEPT !.pc = "lock", !.off = o, !.asked = n, !.left = n]]
  BY DEF Begin
<1> DEFINE d == [NoCall EXCEPT !.pc = "lock", !.off = o, !.asked = n, !.left = n]
<1>2. o \in Offsets /\ o < Size /\ n \in Nat /\ n > 0
  BY EndsAreInOrder, ImageAssumption DEF Offsets
<1>3. d \in Calls
  BY <1>2, IdleIsSane DEF Calls, NoCall
<1>4. CallIsSane(d)
  BY <1>2 DEF CallIsSane, Working, NoCall
<1>5. lock' \in [Infos -> Threads \cup {NoThread}]
  BY DEF Begin, CallsAreSane
<1> HIDE DEF d
<1> QED BY <1>1, <1>3, <1>4, <1>5, SaneStep DEF d

LEMMA TakeLockSane ==
  ASSUME CallsAreSane, NEW t \in Threads, TakeLock(t)
  PROVE  CallsAreSane'
<1> DEFINE c == call[t]
<1>1. PICK i \in Segments :
        /\ StartsIn(c.off, i)
        /\ call' = [call EXCEPT ![t] =
             [c EXCEPT !.pc = "open", !.seg = i, !.rel = c.off - MaxOff[i - 1],
                       !.want = Least(MaxOff[i] - c.off, c.left)]]
  BY DEF TakeLock
<1> DEFINE d == [c EXCEPT !.pc = "open", !.seg = i, !.rel = c.off - MaxOff[i - 1],
                          !.want = Least(MaxOff[i] - c.off, c.left)]
<1>2. /\ c \in Calls /\ c.got = 0 /\ c.left = c.asked /\ c.asked > 0
      /\ c.off \in Nat /\ c.left \in Nat /\ c.asked \in Nat
  BY CallsTyped DEF CallIsSane, TakeLock, At
<1> HIDE DEF c
<1>3. i \in 1..N /\ i - 1 \in 0..N /\ MaxOff[i] \in Nat /\ MaxOff[i - 1] \in Nat
  <2>1. i \in 1..N /\ i - 1 \in 0..N /\ i \in 0..N
    BY SegmentSizes
  <2> QED BY <2>1, SegmentEnds
<1>4. MaxOff[i - 1] <= c.off /\ c.off < MaxOff[i]
  <2>1. CASE i = 1
    BY <2>1, <1>1, <1>2, SegmentEnds DEF StartsIn, InOrBefore
  <2>2. CASE i # 1
    <3>1. i - 1 \in 1..(i - 1)
      BY <2>2, <1>3
    <3> QED BY <3>1, <1>1, <1>2, <1>3 DEF StartsIn, InOrBefore
  <2> QED BY <2>1, <2>2
<1>5. c.off - MaxOff[i - 1] \in Nat /\ Least(MaxOff[i] - c.off, c.left) \in Nat
  BY <1>2, <1>3, <1>4 DEF Least
<1>6. d \in Calls
  BY <1>2, <1>5 DEF Calls
<1>7. /\ d.pc = "open" /\ d.seg = i /\ d.got = 0 /\ d.left = c.left /\ d.asked = c.asked
      /\ d.off = c.off /\ d.rel = c.off - MaxOff[i - 1]
      /\ d.want = Least(MaxOff[i] - c.off, c.left)
  BY <1>2 DEF Calls
<1>8. CallIsSane(d)
  <2>1. MaxOff[i - 1] + (c.off - MaxOff[i - 1]) = c.off + 0
    BY <1>2, <1>3
  <2>2. c.off + 0 = c.off
    BY <1>2
  <2> HIDE DEF d
  <2>3. Aims(d)
    BY <1>7, <1>2, <1>3, <1>4, <2>1, <2>2 DEF Aims
  <2> QED BY <2>3, <1>7 DEF CallIsSane
<1>9. lock' \in [Infos -> Threads \cup {NoThread}]
  BY DEF TakeLock, CallsAreSane
<1> HIDE DEF d
<1> QED BY <1>1, <1>6, <1>8, <1>9, SaneStep DEF d

\* AlreadyOpen, OpenSegment and SeekSegment: on to the next step of the callback.
LEMMA SameAimSane ==
  ASSUME CallsAreSane, NEW t \in Threads, NEW p \in {"seek", "read"}, NEW s \in Slots,
         Working(call[t]), lock' = lock,
         call' = [call EXCEPT ![t].pc = p, ![t].slot = s]
  PROVE  CallsAreSane'
<1> DEFINE c == call[t]
           d == [c EXCEPT !.pc = p, !.slot = s]
<1>1. c \in Calls /\ Aims(c)
  BY CallsTyped DEF CallIsSane
<1>2. call' = [call EXCEPT ![t] = d]
  BY DEF CallsAreSane
<1>3. d \in Calls
  BY <1>1 DEF Calls
<1>4. /\ d.pc = p /\ d.seg = c.seg /\ d.got = c.got /\ d.left = c.left
      /\ d.asked = c.asked /\ d.off = c.off /\ d.rel = c.rel /\ d.want = c.want
  BY <1>1 DEF Calls
<1>5. CallIsSane(d)
  BY <1>1, <1>4 DEF Aims, CallIsSane
<1>6. lock' \in [Infos -> Threads \cup {NoThread}]
  BY DEF CallsAreSane
<1> HIDE DEF d
<1> QED BY <1>2, <1>3, <1>5, <1>6, SaneStep

LEMMA FailSane ==
  ASSUME CallsAreSane, NEW t \in Threads, Fail(t), lock' = lock
  PROVE  CallsAreSane'
<1> DEFINE c == call[t]
           d == [c EXCEPT !.pc = "done", !.got = -1]
<1>1. c \in Calls
  BY CallsTyped
<1>2. call' = [call EXCEPT ![t] = d]
  BY DEF CallsAreSane, Fail
<1>3. d \in Calls /\ d.pc = "done"
  <2>1. -1 \in Int
    OBVIOUS
  <2> QED BY <2>1, <1>1 DEF Calls
<1>4. CallIsSane(d)
  BY <1>3 DEF CallIsSane, Working
<1>5. lock' \in [Infos -> Threads \cup {NoThread}]
  BY DEF CallsAreSane
<1> HIDE DEF d
<1> QED BY <1>2, <1>3, <1>4, <1>5, SaneStep

\* The call after raw_read_segment has returned n bytes from slot s.
AfterRead(c, s, n) ==
  [c EXCEPT !.got = @ + n, !.left = @ - n, !.right = @ /\ (n = 0 \/ AtTheRightPlace(s, c))]

IsLast(c, n) == n # c.want \/ c.left - n = 0 \/ c.seg = N

\* What ReadSegment does to the call.
LEMMA ReadStep ==
  ASSUME Table, CallsAreSane, NEW t \in Threads, ReadSegment(t)
  PROVE  LET c == call[t]
         IN  \E n \in ReadCounts(c.slot, c.want) :
               /\ n \in 0..c.want
               /\ fd[c.slot] # Closed
               /\ call' = [call EXCEPT ![t] =
                    IF IsLast(c, n) THEN [AfterRead(c, c.slot, n) EXCEPT !.pc = "done"]
                    ELSE Continue(AfterRead(c, c.slot, n))]
<1> DEFINE c == call[t]
           d(n) == AfterRead(c, c.slot, n)
<1>1. c \in Calls /\ c.slot \in Slots /\ c.want \in Nat
  BY CallsTyped
<1>2. PICK n \in ReadCounts(c.slot, c.want) :
        call' = [call EXCEPT ![t] =
                   IF n # c.want \/ d(n).left = 0 \/ c.seg = Len(SegSize)
                   THEN [d(n) EXCEPT !.pc = "done"] ELSE Continue(d(n))]
  BY DEF ReadSegment, AfterRead
<1>3. fd[c.slot] # Closed
  BY DEF ReadSegment
<1>4. n \in 0..c.want
  BY <1>1, <1>3, ReadGives
<1>5. d(n).left = c.left - n
  BY <1>1 DEF AfterRead, Calls
<1> QED BY <1>2, <1>3, <1>4, <1>5 DEF IsLast, N

LEMMA ReadSane ==
  ASSUME Table, CallsAreSane, NEW t \in Threads, ReadSegment(t)
  PROVE  CallsAreSane'
<1> DEFINE c == call[t]
<1>1. /\ c \in Calls /\ Aims(c)
      /\ c.off \in Nat /\ c.seg \in 1..N /\ c.asked \in Nat /\ c.left \in Nat
      /\ c.rel \in Nat /\ c.want \in Nat /\ c.got \in Nat
  BY CallsTyped DEF CallIsSane, Working, ReadSegment, At, Aims
<1>2. PICK n \in 0..c.want :
        call' = [call EXCEPT ![t] =
                   IF IsLast(c, n) THEN [AfterRead(c, c.slot, n) EXCEPT !.pc = "done"]
                   ELSE Continue(AfterRead(c, c.slot, n))]
  BY ReadStep
<1> DEFINE a == AfterRead(c, c.slot, n)
<1>3. /\ MaxOff[c.seg] \in Nat /\ MaxOff[c.seg - 1] \in Nat
      /\ c.want = Least(MaxOff[c.seg] - (c.off + c.got), c.left)
      /\ c.off + c.got <= MaxOff[c.seg]
      /\ c.got + c.left = c.asked
      /\ c.off < MaxOff[c.seg]
  <2>1. c.seg \in 0..N /\ c.seg - 1 \in 0..N
    <3>1. N \in Nat /\ c.seg \in 1..N
      BY <1>1, SegmentSizes
    <3> HIDE DEF c
    <3> QED BY <3>1
  <2> QED BY <2>1, <1>1, SegmentEnds DEF Aims
<1>4. n \in Nat /\ n <= c.left /\ c.left - n \in Nat /\ c.got + n \in Nat
  BY <1>1, <1>3 DEF Least
<1>5. /\ a \in Calls /\ a.pc = c.pc /\ a.got = c.got + n /\ a.left = c.left - n
      /\ a.seg = c.seg /\ a.off = c.off /\ a.asked = c.asked
  <2> DEFINE r == c.right /\ (n = 0 \/ AtTheRightPlace(c.slot, c))
  <2>1. r \in BOOLEAN
    OBVIOUS
  <2>2. a = [c EXCEPT !.got = c.got + n, !.left = c.left - n, !.right = r]
    BY DEF AfterRead
  <2>3. c.got + n \in Int
    BY <1>4
  <2> HIDE DEF a, c, r
  <2> QED BY <2>1, <2>2, <2>3, <1>1, <1>4 DEF Calls
<1> HIDE DEF a, c
<1>6. CASE IsLast(c, n)
  <2> DEFINE d == [a EXCEPT !.pc = "done"]
  <2>1. d \in Calls /\ CallIsSane(d)
    BY <1>5 DEF Calls, CallIsSane, Working
  <2>2. call' = [call EXCEPT ![t] = d]
    BY <1>2, <1>6 DEF a
  <2>3. lock' \in [Infos -> Threads \cup {NoThread}]
    BY DEF ReadSegment, CallsAreSane
  <2> HIDE DEF d
  <2> QED BY <2>1, <2>2, <2>3, SaneStep
<1>7. CASE ~IsLast(c, n)
  <2> DEFINE d == Continue(a)
             i == c.seg + 1
  <2>1. n = c.want /\ c.left - n # 0 /\ i \in 1..N /\ i - 1 = c.seg
    <3>1. n = c.want /\ c.left - n # 0 /\ c.seg # N
      BY <1>7 DEF IsLast
    <3>2. c.seg \in 1..N /\ N \in Nat
      BY <1>1, SegmentSizes
    <3> QED BY <3>1, <3>2
  <2>2. c.off + (c.got + n) = MaxOff[c.seg]
    BY <2>1, <1>1, <1>3, <1>4 DEF Least
  <2>3. SegSize[i] \in Nat /\ MaxOff[i] = MaxOff[c.seg] + SegSize[i] /\ MaxOff[i] \in Nat
    BY <2>1, <1>3, SegmentSizes, SegmentEnds
  <2>4. Least(SegSize[i], c.left - n) \in Nat
    BY <2>3, <1>4 DEF Least
  <2>5. /\ d \in Calls /\ d.pc = "open" /\ d.seg = i /\ d.rel = 0
        /\ d.want = Least(SegSize[i], c.left - n)
        /\ d.got = c.got + n /\ d.left = c.left - n /\ d.asked = c.asked /\ d.off = c.off
    BY <2>1, <2>4, <1>5, SegmentSizes DEF Continue, Calls
  <2> HIDE DEF d, i
  <2>6. c.got + n + (c.left - n) = c.asked
    BY <1>1, <1>3, <1>4
  <2>7. MaxOff[i] - (c.off + (c.got + n)) = SegSize[i]
    BY <2>2, <2>3, <1>3
  <2>8. MaxOff[c.seg] + 0 = c.off + (c.got + n) /\ c.off + (c.got + n) <= MaxOff[i]
    BY <2>2, <2>3, <1>3
  <2>9. MaxOff[c.seg] < c.off + c.asked
    BY <2>1, <2>2, <2>6, <1>1, <1>4
  <2>10. c.off < MaxOff[i]
    BY <2>3, <1>1, <1>3
  <2>11. Aims(d)
    BY <2>1, <2>5, <2>6, <2>7, <2>8, <2>9, <2>10, <1>4 DEF Aims
  <2>12. CallIsSane(d)
    BY <2>5, <2>11 DEF CallIsSane
  <2>13. call' = [call EXCEPT ![t] = d]
    BY <1>2, <1>7 DEF d, a
  <2>14. lock' \in [Infos -> Threads \cup {NoThread}]
    BY DEF ReadSegment, CallsAreSane
  <2> QED BY <2>5, <2>12, <2>13, <2>14, SaneStep
<1> QED BY <1>6, <1>7

LEMMA ReturnSane ==
  ASSUME CallsAreSane, NEW t \in Threads, Return(t)
  PROVE  CallsAreSane'
<1>1. lock' \in [Infos -> Threads \cup {NoThread}]
  BY DEF Return, CallsAreSane
<1>2. call' = [call EXCEPT ![t] = NoCall]
  BY DEF Return
<1> QED BY <1>1, <1>2, IdleIsSane, SaneStep

-----------------------------------------------------------------------------
(* The invariant of any way to lock *)

GInv == Table /\ CallsAreSane

\* AlreadyOpen, OpenSegment and SeekSegment, seen from the call: it aims at
\* the same bytes, and the slot is one.
LEMMA AimSteps ==
  ASSUME GInv, NEW t \in Threads, AlreadyOpen(t) \/ OpenSegment(t) \/ SeekSegment(t)
  PROVE  /\ Working(call[t]) /\ lock' = lock
         /\ \E p \in {"seek", "read"}, s \in Slots :
              call' = [call EXCEPT ![t].pc = p, ![t].slot = s]
<1>1. /\ call \in [Threads -> Calls] /\ call[t] \in Calls /\ call[t].slot \in Slots
      /\ nextSlot \in Slots
  BY CallsTyped DEF GInv, CallsAreSane, Table, SlotsTyped
<1>2. CASE AlreadyOpen(t)
  <2>1. cptr[call[t].seg] \in 0..SlotNum /\ cptr[call[t].seg] # 0
    BY <1>2, <1>1 DEF AlreadyOpen, GInv, Table, SlotsTyped, Calls, Closed
  <2>2. cptr[call[t].seg] - 1 \in Slots
    BY <2>1, SlotNumbers
  <2> QED BY <1>2, <2>2 DEF AlreadyOpen, Working, At
<1>3. CASE OpenSegment(t)
  BY <1>3, <1>1 DEF OpenSegment, Working, At
<1>4. CASE SeekSegment(t)
  <2>1. call' = [call EXCEPT ![t] = [call[t] EXCEPT !.pc = "read"]]
    BY <1>4 DEF SeekSegment, Goto
  <2>2. [call[t] EXCEPT !.pc = "read"] = [call[t] EXCEPT !.pc = "read", !.slot = call[t].slot]
    BY <1>1 DEF Calls
  <2>3. call' = [call EXCEPT ![t].pc = "read", ![t].slot = call[t].slot]
    BY <2>1, <2>2
  <2> QED BY <1>1, <1>4, <2>3 DEF SeekSegment, Working, At
<1> QED BY <1>2, <1>3, <1>4

LEMMA GInitially == Init => GInv
<1> SUFFICES ASSUME Init PROVE GInv
  OBVIOUS
<1>1. /\ 0 \in 0..SlotNum /\ 0 \in 0..Len(SegSize) /\ 1 \in Segments /\ 0 \in Slots
      /\ \A i \in Segments : i # 0
  BY SlotNumbers, SegmentSizes DEF N
<1>2. SlotsTyped
  BY <1>1 DEF Init, SlotsTyped, Closed
<1>3. SlotsAgree /\ SeekPosIsFilePos
  BY <1>1 DEF Init, SlotsAgree, SeekPosIsFilePos, Closed
<1>4. CallsAreSane
  BY IdleIsSane DEF Init, CallsAreSane
<1> QED BY <1>2, <1>3, <1>4 DEF GInv, Table

LEMMA GStep == GInv /\ [Next]_vars => GInv'
<1>1. ASSUME GInv, NEW t \in Threads,
             \/ Begin(t) \/ TakeLock(t) \/ Return(t)
             \/ AlreadyOpen(t) \/ OpenSegment(t) \/ OpenFails(t)
             \/ SeekSegment(t) \/ SeekFails(t)
             \/ ReadSegment(t) \/ ReadFails(t)
      PROVE  GInv'
  <2> USE <1>1 DEF GInv
  <2>1. call \in [Threads -> Calls]
    BY DEF CallsAreSane
  <2>2. CASE Begin(t)
    BY <2>2, BeginSane, TableSame DEF Begin
  <2>3. CASE TakeLock(t)
    BY <2>3, TakeLockSane, TableSame DEF TakeLock
  <2>4. CASE Return(t)
    BY <2>4, ReturnSane, TableSame DEF Return
  <2>5. CASE AlreadyOpen(t)
    <3>1. Table'
      BY <2>5, TableSame DEF AlreadyOpen
    <3> QED BY <3>1, <2>5, AimSteps, SameAimSane
  <2>6. CASE OpenSegment(t)
    <3>1. Table'
      BY <2>1, <2>6, TableOpen
    <3> QED BY <3>1, <2>6, AimSteps, SameAimSane
  <2>7. CASE SeekSegment(t)
    <3>1. Table'
      BY <2>1, <2>7, TableSeek
    <3> QED BY <3>1, <2>7, AimSteps, SameAimSane
  <2>8. CASE OpenFails(t)
    BY <2>8, TableOpenFails, FailSane DEF OpenFails
  <2>9. CASE SeekFails(t)
    BY <2>9, TableSame, FailSane DEF SeekFails
  <2>10. CASE ReadFails(t)
    BY <2>10, TableSame, FailSane DEF ReadFails
  <2>11. CASE ReadSegment(t)
    BY <2>1, <2>11, TableRead, ReadSane
  <2> QED BY <1>1, <2>2, <2>3, <2>4, <2>5, <2>6, <2>7, <2>8, <2>9, <2>10, <2>11
<1>2. ASSUME GInv, UNCHANGED vars PROVE GInv'
  <2>1. Table'
    BY <1>2, TableSame DEF GInv, vars, slots
  <2>2. CallsAreSane'
    BY <1>2 DEF GInv, vars, CallsAreSane, CallIsSane, Working, Aims
  <2> QED BY <2>1, <2>2 DEF GInv
<1> QED BY <1>1, <1>2 DEF Next

THEOREM GInvariant == Spec => []GInv
BY GInitially, GStep, PTL DEF Spec

\* The state keeps its types, for any segments, slots and threads.
THEOREM TypeCorrect == Spec => []TypeOK
<1>1. GInv => TypeOK
  BY DEF GInv, Table, SlotsTyped, CallsAreSane, TypeOK
<1> QED BY <1>1, GInvariant, PTL

\* The table of open files and the pointers of the segments agree, whatever
\* fails. The lock plays no part in it, because the model opens, seeks and
\* reads in one step each; without the lock the code does not.
THEOREM SlotTable == Spec => []SlotsAgree
<1>1. GInv => SlotsAgree
  BY DEF GInv, Table
<1> QED BY <1>1, GInvariant, PTL

\* The position that raw_read_segment remembers of an open file is the file's,
\* after short reads and reads and seeks that fail: leaving out the lseek when
\* it is the one wanted is right.
THEOREM PositionsAreRight == Spec => []SeekPosIsFilePos
<1>1. GInv => SeekPosIsFilePos
  BY DEF GInv, Table
<1> QED BY <1>1, GInvariant, PTL

-----------------------------------------------------------------------------
(* The invariant of one lock: the slot of a call stays the call's *)

InRawRead(c) == c.pc \in {"open", "seek", "read", "done"}

\* What a call has got, or is about to get, are the bytes that it asked for.
Gets(c) ==
  /\ c.right = TRUE
  /\ c.pc = "done" /\ Needs(c) \cap Flaky = {} => c.got = Least(c.asked, Size - c.off)

OwnsItsSlot(t) ==
  LET c == call[t]
  IN  /\ InRawRead(c) => lock[Base] = t
      /\ c.pc \in {"seek", "read"} => fd[c.slot] = c.seg
      /\ c.pc = "read" => filePos[c.slot] = c.rel
      /\ Gets(c)

LInv == GInv /\ \A t \in Threads : OwnsItsSlot(t)

\* A step of one thread does not reach the calls of the others.
LEMMA OthersKeepTheirs ==
  ASSUME OneLock, LInv, NEW t \in Threads, NEW u \in Threads \ {t}, NEW d,
         call' = [call EXCEPT ![t] = d],
         \/ UNCHANGED <<lock, slots>>
         \/ UNCHANGED slots /\ lock[Base] = NoThread
         \/ lock[Base] = t
  PROVE  OwnsItsSlot(u)'
<1>1. call'[u] = call[u]
  BY DEF LInv, GInv, CallsAreSane
<1>2. OwnsItsSlot(u) /\ NoThread \notin Threads
  BY ImageAssumption DEF LInv
<1>3. CASE UNCHANGED <<lock, slots>>
  BY <1>1, <1>2, <1>3 DEF OwnsItsSlot, slots, Gets, Needs, InRawRead
<1>4. CASE lock[Base] = NoThread \/ lock[Base] = t
  <2>1. ~InRawRead(call[u])
    BY <1>2, <1>4 DEF OwnsItsSlot
  <2> QED BY <1>1, <1>2, <2>1 DEF OwnsItsSlot, InRawRead, Gets
<1> QED BY <1>3, <1>4

\* A call on sound files has its segment among them.
LEMMA NeedsItsSegment ==
  ASSUME NEW c \in Calls, Aims(c), Needs(c) \cap Flaky = {}
  PROVE  c.seg \notin Flaky
BY DEF Aims, Needs, Calls

LEMMA OwnAim ==
  ASSUME OneLock, LInv, NEW t \in Threads, AlreadyOpen(t) \/ OpenSegment(t)
  PROVE  OwnsItsSlot(t)'
<1> DEFINE c == call[t]
<1>1. /\ call \in [Threads -> Calls] /\ c \in Calls /\ c.seg \in Segments
      /\ OwnsItsSlot(t) /\ lock' = lock /\ c.pc = "open" /\ c.right = TRUE
      /\ lock[Base] = t
  BY CallsTyped DEF LInv, GInv, CallsAreSane, AlreadyOpen, OpenSegment, At, OwnsItsSlot,
       InRawRead, Calls, Gets
<1>2. PICK s \in Slots :
        call' = [call EXCEPT ![t].pc = "seek", ![t].slot = s] /\ fd'[s] = c.seg
  <2>1. CASE AlreadyOpen(t)
    <3>1. cptr[c.seg] \in 0..SlotNum /\ cptr[c.seg] # 0
      BY <1>1, <2>1 DEF LInv, GInv, Table, SlotsTyped, AlreadyOpen, Closed
    <3>2. cptr[c.seg] - 1 \in Slots
      BY <3>1, SlotNumbers
    <3>3. fd[cptr[c.seg] - 1] = c.seg
      BY <3>1, <1>1 DEF LInv, GInv, Table, SlotsAgree, Closed
    <3> QED BY <2>1, <3>2, <3>3 DEF AlreadyOpen, slots
  <2>2. CASE OpenSegment(t)
    <3>1. nextSlot \in Slots /\ fd \in [Slots -> 0..Len(SegSize)]
      BY DEF LInv, GInv, Table, SlotsTyped
    <3> QED BY <2>2, <3>1 DEF OpenSegment
  <2> QED BY <2>1, <2>2
<1>3. /\ call'[t].pc = "seek" /\ call'[t].slot = s /\ call'[t].seg = c.seg
      /\ call'[t].right = TRUE
  BY <1>1, <1>2 DEF Calls
<1>4. lock'[Base] = t /\ fd'[call'[t].slot] = call'[t].seg
  BY <1>1, <1>2, <1>3
<1> QED BY <1>3, <1>4 DEF OwnsItsSlot, InRawRead, Gets

LEMMA OwnSeek ==
  ASSUME OneLock, LInv, NEW t \in Threads, SeekSegment(t)
  PROVE  OwnsItsSlot(t)'
<1> DEFINE c == call[t]
<1>1. /\ call \in [Threads -> Calls] /\ c \in Calls /\ c.seg \in Segments
      /\ lock' = lock /\ fd' = fd /\ c.right = TRUE
      /\ lock[Base] = t /\ fd[c.slot] = c.seg
  BY CallsTyped DEF LInv, GInv, CallsAreSane, SeekSegment, At, OwnsItsSlot, InRawRead,
       Calls, Gets
<1>2. fd[c.slot] # Closed
  BY <1>1, SegmentSizes DEF Closed
<1>3. filePos'[c.slot] = c.rel
  BY <1>1, <1>2, TableSeek DEF LInv, GInv
<1>4. call'[t] = [c EXCEPT !.pc = "read"]
  BY <1>1 DEF SeekSegment, Goto
<1>5. /\ call'[t].pc = "read" /\ call'[t].slot = c.slot /\ call'[t].seg = c.seg
      /\ call'[t].rel = c.rel /\ call'[t].right = TRUE
  BY <1>1, <1>4 DEF Calls
<1>6. /\ lock'[Base] = t /\ fd'[call'[t].slot] = call'[t].seg
      /\ filePos'[call'[t].slot] = call'[t].rel
  BY <1>1, <1>3, <1>5
<1> QED BY <1>5, <1>6 DEF OwnsItsSlot, InRawRead, Gets

\* Opens, seeks and reads fail only on a flaky segment, and that is needed.
LEMMA OwnFailure ==
  ASSUME OneLock, LInv, NEW t \in Threads, OpenFails(t) \/ SeekFails(t) \/ ReadFails(t)
  PROVE  OwnsItsSlot(t)'
<1> DEFINE c == call[t]
<1>1. /\ call \in [Threads -> Calls] /\ c \in Calls /\ c.seg \in Segments /\ Aims(c)
      /\ c.right = TRUE /\ lock[Base] = t /\ lock' = lock
      /\ c.pc \in {"seek", "read"} => fd[c.slot] = c.seg
  BY CallsTyped DEF LInv, GInv, CallsAreSane, CallIsSane, Working, OpenFails, SeekFails,
       ReadFails, At, OwnsItsSlot, InRawRead, Calls, Gets
<1>2. c.seg \in Flaky
  BY <1>1, SegmentSizes DEF OpenFails, SeekFails, ReadFails, At, Closed
<1>3. call'[t] = [c EXCEPT !.pc = "done", !.got = -1]
  BY <1>1 DEF OpenFails, SeekFails, ReadFails, Fail
<1>4. /\ call'[t].pc = "done" /\ call'[t].off = c.off /\ call'[t].asked = c.asked
      /\ call'[t].right = TRUE
  BY <1>1, <1>3 DEF Calls
<1>5. Needs(call'[t]) = Needs(c)
  BY <1>4 DEF Needs
<1>6. Needs(call'[t]) \cap Flaky # {}
  BY <1>1, <1>2, <1>5, NeedsItsSegment
<1> QED BY <1>1, <1>4, <1>6 DEF OwnsItsSlot, InRawRead, Gets

LEMMA OwnRead ==
  ASSUME OneLock, LInv, NEW t \in Threads, ReadSegment(t)
  PROVE  OwnsItsSlot(t)'
<1> DEFINE c == call[t]
           s == c.slot
<1>1. /\ call \in [Threads -> Calls] /\ c \in Calls /\ Aims(c)
      /\ c.off \in Nat /\ c.seg \in 1..N /\ c.asked \in Nat /\ c.left \in Nat
      /\ c.rel \in Nat /\ c.want \in Nat /\ c.got \in Nat /\ s \in Slots
  BY CallsTyped DEF LInv, GInv, CallsAreSane, CallIsSane, Working, ReadSegment, At, Aims
<1>2. /\ c.right = TRUE /\ lock[Base] = t /\ lock' = lock
      /\ fd[s] = c.seg /\ filePos[s] = c.rel /\ fd[s] # Closed
  BY DEF LInv, OwnsItsSlot, InRawRead, Gets, ReadSegment, At
<1>3. PICK n \in ReadCounts(s, c.want) :
        /\ n \in 0..c.want
        /\ call' = [call EXCEPT ![t] =
             IF IsLast(c, n) THEN [AfterRead(c, s, n) EXCEPT !.pc = "done"]
             ELSE Continue(AfterRead(c, s, n))]
  BY ReadStep DEF LInv, GInv
<1>4. fd[s] \notin Flaky /\ filePos[s] + c.want <= SegSize[fd[s]] => n = c.want
  BY <1>1, <1>2, <1>3, ReadGives DEF LInv, GInv
<1> HIDE DEF c, s
<1>5. AtTheRightPlace(s, c)
  BY <1>1, <1>2 DEF AtTheRightPlace, Aims
<1>6. AfterRead(c, s, n) = [c EXCEPT !.got = c.got + n, !.left = c.left - n, !.right = TRUE]
  BY <1>2, <1>5 DEF AfterRead
<1>7. CASE ~IsLast(c, n)
  <2>1. call'[t].pc = "open" /\ call'[t].right = TRUE
    BY <1>1, <1>3, <1>6, <1>7 DEF Continue, Calls
  <2> QED BY <2>1, <1>2 DEF OwnsItsSlot, InRawRead, Gets
<1>8. CASE IsLast(c, n)
  <2>1. /\ call'[t].pc = "done" /\ call'[t].right = TRUE /\ call'[t].got = c.got + n
        /\ call'[t].off = c.off /\ call'[t].asked = c.asked
    BY <1>1, <1>3, <1>6, <1>8 DEF Calls
  <2>2. ASSUME Needs(c) \cap Flaky = {}
        PROVE  c.got + n = Least(c.asked, Size - c.off)
    <3>1. c.seg \notin Flaky
      BY <1>1, <2>2, NeedsItsSegment
    <3>2. /\ MaxOff[c.seg] \in Nat /\ MaxOff[c.seg - 1] \in Nat /\ SegSize[c.seg] \in Nat
          /\ MaxOff[c.seg] = MaxOff[c.seg - 1] + SegSize[c.seg]
          /\ MaxOff[c.seg] <= Size /\ Size \in Nat
      <4>1. c.seg \in 0..N /\ c.seg - 1 \in 0..N
        <5>1. N \in Nat /\ c.seg \in 1..N
          BY <1>1, SegmentSizes
        <5> QED BY <5>1
      <4> QED BY <4>1, <1>1, SegmentSizes, SegmentEnds, EndsAreInOrder
    <3>3. /\ c.got + c.left = c.asked /\ MaxOff[c.seg - 1] + c.rel = c.off + c.got
          /\ c.want = Least(MaxOff[c.seg] - (c.off + c.got), c.left)
          /\ c.off + c.got <= MaxOff[c.seg]
      BY <1>1 DEF Aims
    <3>4. c.rel + c.want <= SegSize[c.seg]
      BY <1>1, <3>2, <3>3 DEF Least
    <3>5. n = c.want
      BY <1>2, <1>4, <3>1, <3>4
    <3>6. CASE c.left - n = 0
      BY <1>1, <3>2, <3>3, <3>5, <3>6 DEF Least
    <3>7. CASE c.left - n # 0 /\ c.seg = N
      <4>1. MaxOff[c.seg] = Size
        BY <3>7 DEF Size, N
      <4> QED BY <1>1, <3>2, <3>3, <3>5, <3>7, <4>1 DEF Least
    <3> QED BY <1>8, <3>5, <3>6, <3>7 DEF IsLast
  <2>3. Needs(call'[t]) = Needs(c)
    BY <2>1 DEF Needs
  <2> QED BY <2>1, <2>2, <2>3, <1>2 DEF OwnsItsSlot, InRawRead, Gets
<1> QED BY <1>7, <1>8

LEMMA LStep == OneLock /\ LInv /\ [Next]_vars => LInv'
<1>1. ASSUME OneLock, LInv, NEW t \in Threads,
             \/ Begin(t) \/ TakeLock(t) \/ Return(t)
             \/ AlreadyOpen(t) \/ OpenSegment(t) \/ OpenFails(t)
             \/ SeekSegment(t) \/ SeekFails(t)
             \/ ReadSegment(t) \/ ReadFails(t)
      PROVE  \A u \in Threads : OwnsItsSlot(u)'
  <2> USE <1>1
  <2>1. /\ call \in [Threads -> Calls] /\ Through[t] = Base
        /\ lock \in [Infos -> Threads \cup {NoThread}] /\ Base \in Infos
        /\ InRawRead(call[t]) => lock[Base] = t
        /\ call[t].right = TRUE
    BY ImageAssumption DEF LInv, GInv, CallsAreSane, OneLock, OwnsItsSlot, Gets
  <2>2. \E d : call' = [call EXCEPT ![t] = d]
    <3>1. CASE Fail(t)
      BY <3>1, <2>1 DEF Fail
    <3>2. CASE Begin(t) \/ TakeLock(t) \/ Return(t)
      BY <3>2 DEF Begin, TakeLock, Return
    <3>3. CASE AlreadyOpen(t) \/ OpenSegment(t) \/ SeekSegment(t)
      <4>1. PICK p \in {"seek", "read"}, s \in Slots :
              call' = [call EXCEPT ![t].pc = p, ![t].slot = s]
        BY <3>3, AimSteps DEF LInv
      <4>2. call' = [call EXCEPT ![t] = [call[t] EXCEPT !.pc = p, !.slot = s]]
        BY <4>1, <2>1
      <4> QED BY <4>2
    <3>4. CASE ReadSegment(t)
      BY <3>4, ReadStep DEF LInv, GInv
    <3> QED BY <3>1, <3>2, <3>3, <3>4 DEF OpenFails, SeekFails, ReadFails
  <2>3. \/ UNCHANGED <<lock, slots>>
        \/ UNCHANGED slots /\ lock[Base] = NoThread
        \/ lock[Base] = t
    <3>1. CASE Begin(t)
      BY <3>1 DEF Begin
    <3>2. CASE TakeLock(t)
      BY <3>2, <2>1 DEF TakeLock
    <3>3. CASE InRawRead(call[t])
      BY <3>3, <2>1
    <3> QED BY <3>1, <3>2, <3>3 DEF Return, AlreadyOpen, OpenSegment, OpenFails,
              SeekSegment, SeekFails, ReadSegment, ReadFails, InRawRead, At
  <2>4. \A u \in Threads \ {t} : OwnsItsSlot(u)'
    BY <2>2, <2>3, OthersKeepTheirs
  <2>5. OwnsItsSlot(t)'
    <3>1. CASE Begin(t)
      <4>1. PICK o, n :
              call' = [call EXCEPT ![t] =
                [NoCall EXCEPT !.pc = "lock", !.off = o, !.asked = n, !.left = n]]
        BY <3>1 DEF Begin
      <4>2. call'[t].pc = "lock" /\ call'[t].right = TRUE
        BY <4>1, <2>1 DEF NoCall
      <4> QED BY <4>2 DEF OwnsItsSlot, InRawRead, Gets
    <3>2. CASE TakeLock(t)
      <4>1. call'[t].pc = "open" /\ call'[t].right = TRUE
        <5>1. call[t] \in Calls
          BY <2>1
        <5>2. PICK i \in Segments :
                call' = [call EXCEPT ![t] =
                  [call[t] EXCEPT !.pc = "open", !.seg = i,
                                  !.rel = call[t].off - MaxOff[i - 1],
                                  !.want = Least(MaxOff[i] - call[t].off, call[t].left)]]
          BY <3>2 DEF TakeLock
        <5> QED BY <5>1, <5>2, <2>1 DEF Calls
      <4>2. lock'[Base] = t
        BY <3>2, <2>1 DEF TakeLock
      <4> QED BY <4>1, <4>2 DEF OwnsItsSlot, InRawRead, Gets
    <3>3. CASE Return(t)
      <4>1. call'[t].pc = "idle" /\ call'[t].right = TRUE
        BY <3>3, <2>1 DEF Return, NoCall
      <4> QED BY <4>1 DEF OwnsItsSlot, InRawRead, Gets
    <3> QED BY <3>1, <3>2, <3>3, OwnAim, OwnSeek, OwnFailure, OwnRead
  <2> QED BY <2>4, <2>5
<1>2. ASSUME LInv, UNCHANGED vars PROVE \A u \in Threads : OwnsItsSlot(u)'
  BY <1>2 DEF LInv, vars, OwnsItsSlot, Gets, Needs, InRawRead
<1> QED BY <1>1, <1>2, GStep DEF Next, LInv

THEOREM LInvariant == ASSUME OneLock PROVE Spec => []LInv
<1>1. Init => LInv
  <2> SUFFICES ASSUME Init PROVE LInv
    OBVIOUS
  <2>1. \A t \in Threads : OwnsItsSlot(t)
    BY DEF Init, NoCall, OwnsItsSlot, InRawRead, Gets
  <2> QED BY <2>1, GInitially DEF LInv
<1>2. LInv /\ [Next]_vars => LInv'
  BY LStep
<1> QED BY <1>1, <1>2, PTL DEF Spec

\* When all threads come through the lock of the image, raw_read is under it,
\* as its comment assumes.
THEOREM UnderLock == ASSUME OneLock PROVE Spec => []RawReadIsUnderLock
<1>1. LInv => RawReadIsUnderLock
  BY DEF LInv, OwnsItsSlot, InRawRead, RawReadIsUnderLock, InCallback
<1> QED BY <1>1, LInvariant, PTL

\* Then the bytes are those that were asked for: across segments, for any
\* number of threads, slots and segments, and whatever failed before.
THEOREM RightBytes == ASSUME OneLock PROVE Spec => []BytesAreRight
<1>1. LInv => BytesAreRight
  BY DEF LInv, OwnsItsSlot, Gets, BytesAreRight
<1> QED BY <1>1, LInvariant, PTL

\* And a call on sound files is short only at the end of the image.
THEOREM FullReads == ASSUME OneLock PROVE Spec => []SoundReadsAreFull
<1>1. LInv => SoundReadsAreFull
  BY DEF LInv, OwnsItsSlot, Gets, SoundReadsAreFull, At
<1> QED BY <1>1, LInvariant, PTL
=============================================================================
