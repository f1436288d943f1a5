------------------------------ MODULE ImgCache ------------------------------
(***************************************************************************)
(* tsk_img_read (sleuthkit/tsk/img/img_io.cpp): the read cache that every  *)
(* file system, volume system and DiskImage.ReadBytes goes through, shared *)
(* by all threads of an image under its cache_lock.                        *)
(*                                                                         *)
(* The bytes of the image are named by their offsets: a buffer, or a reply,*)
(* that holds n bytes from offset f is the pair (f, n).                    *)
(***************************************************************************)
EXTENDS Integers

CONSTANTS
  Threads,    \* threads that read the image
  NoThread,   \* owner of a free lock
  NoRequest,  \* of a thread that is in no read
  Size,       \* TSK_IMG_INFO.size, in bytes
  Sector,     \* 512
  CacheLen,   \* TSK_IMG_INFO_CACHE_LEN
  CacheNum,   \* TSK_IMG_INFO_CACHE_NUM
  CacheAge,   \* CACHE_AGE
  Offsets,    \* offsets that callers ask for
  Lengths,    \* lengths that callers ask for
  Damaged,    \* offsets of the bytes that cannot be relied on to be readable
  MinAge      \* bound: no read starts once a slot is this old

ASSUME SizesAssumption ==
  /\ Size \in Nat /\ Sector \in Nat \ {0} /\ CacheLen \in Nat \ {0}
  /\ CacheNum \in Nat \ {0} /\ CacheAge \in Nat /\ MinAge \in Int
  /\ Damaged \subseteq Nat
ASSUME RequestsAssumption == Offsets \subseteq Int /\ Lengths \subseteq Nat
ASSUME NoThreadAssumption == NoThread \notin Threads

VARIABLES
  owner,     \* thread that has cache_lock
  cacheOff,  \* slot -> cache_off
  cacheLen,  \* slot -> cache_len, 0 when unused
  cacheAge,  \* slot -> cache_age
  cached,    \* slot -> the bytes that cache[slot] really holds
  older,     \* history: (i, j) when slot i was useful before slot j, both in use
  pc,        \* thread -> where it is in tsk_img_read
  request,   \* thread -> the arguments of its call
  victim,    \* thread -> cache_next, while it loads
  got,       \* thread -> a_buf and read_count of its call
  reply      \* thread -> what its last call returned, until the next

vars == <<owner, cacheOff, cacheLen, cacheAge, cached, older, pc, request,
          victim, got, reply>>
cache == <<cacheOff, cacheLen, cacheAge, cached, older>>

Slots == 0..(CacheNum - 1)
Requests == [off : Offsets, len : Lengths]
ASSUME NoRequestAssumption == NoRequest \notin Requests
Bytes(from, n) == [from |-> from, n |-> n]
Error == Bytes(0, -1)

Least(a, b) == IF a <= b THEN a ELSE b
RoundDown(off) == (off \div Sector) * Sector

-----------------------------------------------------------------------------
(* The read callback of the image format (raw, E01, pool, ...) *)

Sound(off, n) == \A d \in Damaged : d < off \/ off + n <= d

\* What it may return for n bytes at off: all up to the end of the image, or,
\* where the image is damaged, an error or the first bytes.
Callback(off, n) ==
  LET most == Least(n, Size - off) IN
  IF Sound(off, n) THEN {most} ELSE -1..most

-----------------------------------------------------------------------------
(* tsk_img_read *)

\* Arguments that are refused before the lock is taken.
Refused(r) == r.off < 0 \/ r.off >= Size

Begin(t) ==
  /\ pc[t] = "idle"
  /\ \A i \in Slots : cacheLen[i] > 0 => cacheAge[i] > MinAge
  /\ \E r \in Requests : request' = [request EXCEPT ![t] = r]
  /\ reply' = [reply EXCEPT ![t] = Error]
  /\ pc' = [pc EXCEPT ![t] = "checks"]
  /\ UNCHANGED <<owner, cache, victim, got>>

Refuse(t) ==
  /\ pc[t] = "checks" /\ Refused(request[t])
  /\ reply' = [reply EXCEPT ![t] = Error]
  /\ request' = [request EXCEPT ![t] = NoRequest]
  /\ pc' = [pc EXCEPT ![t] = "idle"]
  /\ UNCHANGED <<owner, cache, victim, got>>

TakeLock(t) ==
  /\ pc[t] = "checks" /\ ~Refused(request[t])
  /\ owner = NoThread
  /\ owner' = t
  /\ pc' = [pc EXCEPT ![t] = "lookup"]
  /\ UNCHANGED <<cache, request, victim, got, reply>>

\* Mutant: the part of the first sector before the offset is not counted.
TooLongAlone(r) == r.len > CacheLen

\* Does the request, with the rest of its first sector, exceed a slot?
TooLong(r) == r.len + (r.off % Sector) > CacheLen

\* len2: the length, cut at the end of the image.
Cut(r) == Least(r.len, Size - r.off)

\* Mutant: the slot need only reach the start of the request.
CoversStart(i, r) ==
  /\ cacheLen[i] > 0
  /\ cacheOff[i] <= r.off
  /\ cacheOff[i] + cacheLen[i] >= r.off

Covers(i, r) ==
  /\ cacheLen[i] > 0
  /\ cacheOff[i] <= r.off
  /\ cacheOff[i] + cacheLen[i] >= r.off + Cut(r)

\* The slots that the loop finds useful: the first that covers the request.
\* A request for no bytes leaves read_count 0, so it goes on to the others.
Useful(r) ==
  {i \in Slots : Covers(i, r) /\ (Cut(r) = 0 \/ \A j \in 0..(i - 1) : ~Covers(j, r))}

\* Mutant: a useful slot is not made young again.
AgesAllOlder(hits) ==
  [i \in Slots |-> IF cacheLen[i] > 0 THEN cacheAge[i] - 1 ELSE cacheAge[i]]

AgesAfter(hits) ==
  [i \in Slots |-> IF i \in hits THEN CacheAge
                   ELSE IF cacheLen[i] > 0 THEN cacheAge[i] - 1
                   ELSE cacheAge[i]]

\* cache_next at the end of the loop: the last unused slot, else the slot of
\* lowest age among slot 0 and those that were not useful.
IsCacheNext(i, hits) ==
  IF \E j \in Slots : cacheLen[j] = 0
  THEN cacheLen[i] = 0 /\ \A j \in Slots : j > i => cacheLen[j] > 0
  ELSE LET eligible == {0} \cup (Slots \ hits)
           age == AgesAfter(hits)
       IN  /\ i \in eligible
           /\ \A j \in eligible : age[i] < age[j] \/ (age[i] = age[j] /\ i <= j)

\* memcpy of n bytes at position rel of a slot with the bytes b.  Beyond them the
\* slot holds what earlier loads left there: no bytes of the image that fit.
CopiedFrom(b, rel, n) ==
  IF n = 0 \/ rel + n <= b.n THEN Bytes(b.from + rel, n) ELSE Bytes(-1, n)

InUse == {i \in Slots : cacheLen[i] > 0}

\* The slot that was useful becomes the most recent one.
MadeRecent(hits) ==
  {p \in older : p[1] \in hits => p[2] \in hits} \cup ((InUse \ hits) \X hits)

\* A slot is out of use, until it is loaded.
Without(i) == {p \in older : i \notin {p[1], p[2]}}

\* Mutant: a read around the cache does without the lock.
SkipCacheAndLock(t) ==
  /\ pc[t] = "lookup" /\ TooLong(request[t])
  /\ owner' = NoThread
  /\ pc' = [pc EXCEPT ![t] = "nocache"]
  /\ UNCHANGED <<cache, request, victim, got, reply>>

SkipCache(t) ==
  /\ pc[t] = "lookup" /\ TooLong(request[t])
  /\ pc' = [pc EXCEPT ![t] = "nocache"]
  /\ UNCHANGED <<owner, cache, request, victim, got, reply>>

Hit(t) ==
  /\ pc[t] = "lookup" /\ ~TooLong(request[t])
  /\ LET r == request[t] IN
     /\ Cut(r) > 0
     /\ \E i \in Useful(r) :
          got' = [got EXCEPT ![t] = CopiedFrom(cached[i], r.off - cacheOff[i], Cut(r))]
     /\ cacheAge' = AgesAfter(Useful(r))
     /\ older' = MadeRecent(Useful(r))
  /\ pc' = [pc EXCEPT ![t] = "release"]
  /\ UNCHANGED <<owner, cacheOff, cacheLen, cached, request, victim, reply>>

Miss(t) ==
  /\ pc[t] = "lookup" /\ ~TooLong(request[t])
  /\ LET r == request[t] IN
     /\ Useful(r) = {} \/ Cut(r) = 0
     /\ cacheAge' = AgesAfter(Useful(r))
     /\ older' = MadeRecent(Useful(r))
     /\ \E i \in Slots :
          /\ IsCacheNext(i, Useful(r))
          /\ victim' = [victim EXCEPT ![t] = i]
          /\ cacheOff' = [cacheOff EXCEPT ![i] = RoundDown(r.off)]
  /\ pc' = [pc EXCEPT ![t] = "load"]
  /\ UNCHANGED <<owner, cacheLen, cached, request, got, reply>>

\* Mutant: the error value is stored like a length.
UsableUnlessZero(k) == k # 0

\* read_count > 0: the slot holds data.
Usable(k) == k > 0

\* The callback fills the slot, at least in part.
Load(t) ==
  /\ pc[t] = "load"
  /\ LET r    == request[t]
         i    == victim[t]
         from == cacheOff[i]
     IN \E k \in Callback(from, Least(CacheLen, Size - from)) :
        /\ Usable(k)
        /\ cacheAge' = [cacheAge EXCEPT ![i] = CacheAge]
        /\ cacheLen' = [cacheLen EXCEPT ![i] = k]
        /\ cached' = [cached EXCEPT ![i] = Bytes(from, k)]
        /\ older' = Without(i) \cup ((InUse \ {i}) \X {i})
        /\ LET rel == r.off - from
               n   == IF rel > k THEN 0 ELSE Least(Cut(r), k - rel)
           IN  got' = [got EXCEPT ![t] = CopiedFrom(cached'[i], rel, n)]
  /\ pc' = [pc EXCEPT ![t] = "release"]
  /\ UNCHANGED <<owner, cacheOff, request, victim, reply>>

\* Mutant: a failed load leaves the length of the old entry.
GiveUpKeepingLength(i) ==
  /\ cacheAge' = [cacheAge EXCEPT ![i] = 0]
  /\ UNCHANGED <<cacheLen, cacheOff>>

GiveUp(i) ==
  /\ cacheLen' = [cacheLen EXCEPT ![i] = 0]
  /\ cacheAge' = [cacheAge EXCEPT ![i] = 0]
  /\ cacheOff' = [cacheOff EXCEPT ![i] = 0]

\* The callback failed or read nothing: what the slot holds is unknown, so it
\* is given up, and the read is tried again around the cache.
LoadFails(t) ==
  /\ pc[t] = "load"
  /\ LET i    == victim[t]
         from == cacheOff[i]
     IN /\ \E k \in Callback(from, Least(CacheLen, Size - from)) : ~Usable(k)
        /\ cached' = [cached EXCEPT ![i] = Bytes(from, 0)]
        /\ GiveUp(i)
        /\ older' = Without(i)
  /\ pc' = [pc EXCEPT ![t] = "nocache"]
  /\ UNCHANGED <<owner, request, victim, got, reply>>

RoundUp(len) == ((len + Sector - 1) \div Sector) * Sector

\* tsk_img_read_no_cache: the length is rounded up to whole sectors, and what
\* was read beyond the request is dropped.
NoCache(t) ==
  /\ pc[t] = "nocache"
  /\ LET r == request[t] IN
     \E k \in Callback(r.off, RoundUp(r.len)) :
          got' = [got EXCEPT ![t] =
                      IF k < 0 THEN Error ELSE Bytes(r.off, Least(k, r.len))]
  /\ pc' = [pc EXCEPT ![t] = "release"]
  /\ UNCHANGED <<owner, cache, request, victim, reply>>

\* Mutant: an error returns at once.
ReleaseUnlessError(t) ==
  /\ pc[t] = "release"
  /\ owner' = IF got[t].n < 0 THEN owner ELSE NoThread
  /\ reply' = [reply EXCEPT ![t] = got[t]]
  /\ got' = [got EXCEPT ![t] = Error]
  /\ victim' = [victim EXCEPT ![t] = 0]
  /\ request' = [request EXCEPT ![t] = NoRequest]
  /\ pc' = [pc EXCEPT ![t] = "idle"]
  /\ UNCHANGED cache

ReleaseLock(t) ==
  /\ pc[t] = "release"
  /\ owner' = NoThread
  /\ reply' = [reply EXCEPT ![t] = got[t]]
  /\ got' = [got EXCEPT ![t] = Error]
  /\ victim' = [victim EXCEPT ![t] = 0]
  /\ request' = [request EXCEPT ![t] = NoRequest]
  /\ pc' = [pc EXCEPT ![t] = "idle"]
  /\ UNCHANGED cache

\* APFSPool::clear_cache, on the image under the pool.
ClearCache ==
  /\ owner = NoThread
  /\ cacheLen' = [i \in Slots |-> 0]
  /\ older' = {}
  /\ UNCHANGED <<owner, cacheOff, cacheAge, cached, pc, request, victim, got, reply>>

-----------------------------------------------------------------------------
\* tsk_img_malloc zeroes the cache of a new image.
Init ==
  /\ owner = NoThread
  /\ cacheOff = [i \in Slots |-> 0]
  /\ cacheLen = [i \in Slots |-> 0]
  /\ cacheAge = [i \in Slots |-> 0]
  /\ cached = [i \in Slots |-> Bytes(0, 0)]
  /\ older = {}
  /\ pc = [t \in Threads |-> "idle"]
  /\ request = [t \in Threads |-> NoRequest]
  /\ victim = [t \in Threads |-> 0]
  /\ got = [t \in Threads |-> Error]
  /\ reply = [t \in Threads |-> Error]

InLock(t) ==
  SkipCache(t) \/ Hit(t) \/ Miss(t) \/ Load(t) \/ LoadFails(t) \/ NoCache(t) \/ ReleaseLock(t)

Next ==
  \/ \E t \in Threads : Begin(t) \/ Refuse(t) \/ TakeLock(t) \/ InLock(t)
  \/ ClearCache

Spec == Init /\ [][Next]_vars

\* A thread that has the lock runs on: the callback returns, with or without
\* data.  Nothing is assumed of the order in which threads get the lock.
Fairness == \A t \in Threads : WF_vars(InLock(t))

FairSpec == Spec /\ Fairness

-----------------------------------------------------------------------------
(* Properties *)

LockedPcs == {"lookup", "load", "nocache", "release"}

TypeOK ==
  /\ owner \in Threads \cup {NoThread}
  /\ cacheOff \in [Slots -> Nat] /\ cacheLen \in [Slots -> Nat]
  /\ cacheAge \in [Slots -> Int]
  /\ cached \in [Slots -> [from : Nat, n : Nat]]
  /\ pc \in [Threads -> {"idle", "checks"} \cup LockedPcs]
  /\ request \in [Threads -> Requests \cup {NoRequest}]
  /\ victim \in [Threads -> Slots]
  /\ got \in [Threads -> [from : Int, n : Int]]
  /\ reply \in [Threads -> [from : Int, n : Int]]

\* The cache and the read callback are used by one thread at a time, the one
\* that took cache_lock: img_io.cpp "cache_lock is used for both the cache in
\* IMG_INFO and the shared variables in the img type specific INFO structs".
CacheLockHeld == \A t \in Threads : pc[t] \in LockedPcs <=> owner = t

Loading(i) == \E t \in Threads : pc[t] = "load" /\ victim[t] = i

\* A slot holds the bytes that its offset and length say, and none beyond the
\* image, after any sequence of short and failed loads and evictions; only the
\* slot that is being loaded may disagree.
CacheCoherent ==
  \A i \in Slots :
    cacheLen[i] > 0 /\ ~Loading(i) =>
      /\ cached[i].from = cacheOff[i]
      /\ cacheLen[i] <= cached[i].n
      /\ cacheOff[i] + cacheLen[i] <= Size

\* tsk_img_read returns what the image holds: every call ends with an error or
\* with a prefix of the bytes it was asked for.
R == INSTANCE ImgRead WITH asked <- request, answer <- reply
ReadsTheImage == R!Spec

\* Damage elsewhere in the image does no harm: a call that neither loads nor
\* reads around the cache over a damaged byte gets all up to the end of the
\* image, whatever short and failed loads went before.
SoundReadsAreFull ==
  \A t \in Threads :
    LET r == request[t] IN
    /\ pc[t] = "release"
    /\ IF TooLong(r) THEN Sound(r.off, RoundUp(r.len)) ELSE Sound(RoundDown(r.off), CacheLen)
    => got[t].n = Cut(r)

\* The slot to load next is an unused one, or, when all are in use, the one
\* that has not been useful for longest: the ages order the slots although
\* they are only ever counted down from CACHE_AGE.  It is stated for reads of
\* at least one byte: a read of none makes several slots young at once.
EvictsLeastRecent ==
  \A t \in Threads :
    pc[t] = "load" =>
      IF InUse = Slots THEN \A i \in Slots \ {victim[t]} : <<victim[t], i>> \in older
      ELSE victim[t] \notin InUse

\* Whoever takes the lock gives it back, on every path through the function.
LockIsReleased == (owner # NoThread) ~> (owner = NoThread)
=============================================================================
