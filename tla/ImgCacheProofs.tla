--------------------------- MODULE ImgCacheProofs ---------------------------
(***************************************************************************)
(* Proofs about ImgCache, for any number of threads and slots, any sizes   *)
(* and any failures of the format's read callback: the cache and the       *)
(* callback are used under the lock, a slot holds the bytes it claims,     *)
(* tsk_img_read implements ImgRead, a read over sound bytes is full, and   *)
(* the slot that was not useful for longest is the next to be loaded.      *)
(*                                                                         *)
(* The invariant relates each thread's program counter to what it knows:   *)
(* Knows is what the steps before have established for the steps after.    *)
(***************************************************************************)
EXTENDS ImgCache, TLAPS

Knows(t) ==
  /\ pc[t] = "idle" <=> request[t] = NoRequest
  /\ pc[t] \in LockedPcs => 0 <= request[t].off /\ request[t].off < Size
  /\ pc[t] = "load" => cacheOff[victim[t]] <= request[t].off
  /\ pc[t] = "release" =>
       /\ R!Legal(request[t], got[t])
       /\ got[t].n \in -1..Size /\ got[t].from \in 0..Size

IInv == TypeOK /\ CacheLockHeld /\ CacheCoherent /\ \A t \in Threads : Knows(t)

-----------------------------------------------------------------------------
(* Arithmetic *)

LEMMA RoundDownBelow ==
  ASSUME NEW off \in Nat
  PROVE  RoundDown(off) \in Nat /\ RoundDown(off) <= off
<1>1. off = Sector * (off \div Sector) + (off % Sector)
  BY SizesAssumption
<1>2. off % Sector \in 0..(Sector - 1) /\ off \div Sector \in Nat
  BY SizesAssumption
<1> QED BY <1>1, <1>2, SizesAssumption DEF RoundDown

LEMMA RequestParts ==
  ASSUME NEW r \in Requests PROVE r.off \in Int /\ r.len \in Nat
<1>1. r.off \in Offsets /\ r.len \in Lengths
  BY DEF Requests
<1> QED BY <1>1, RequestsAssumption

\* What the callback returns never reaches beyond the image.
LEMMA CallbackBound ==
  ASSUME NEW off \in Int, NEW n \in Int, NEW k \in Callback(off, n)
  PROVE  k \in Int /\ k <= n /\ off + k <= Size
BY SizesAssumption DEF Callback, Least

-----------------------------------------------------------------------------
(* The steps *)

LEMMA BeginStep ==
  ASSUME IInv, NEW t \in Threads, Begin(t) PROVE IInv'
<1> USE DEF IInv, Begin, cache, LockedPcs
<1>1. TypeOK'
  BY DEF TypeOK, Error, Bytes
<1>2. CacheLockHeld'
  BY DEF TypeOK, CacheLockHeld
<1>3. CacheCoherent'
  BY DEF TypeOK, CacheCoherent, Loading
<1>4. ASSUME NEW u \in Threads PROVE Knows(u)'
  BY NoRequestAssumption DEF TypeOK, Knows, R!Legal, R!Error
<1> QED BY <1>1, <1>2, <1>3, <1>4

LEMMA RefuseStep ==
  ASSUME IInv, NEW t \in Threads, Refuse(t) PROVE IInv'
<1> USE DEF IInv, Refuse, cache, LockedPcs
<1>1. TypeOK'
  BY DEF TypeOK, Error, Bytes
<1>2. CacheLockHeld'
  BY DEF TypeOK, CacheLockHeld
<1>3. CacheCoherent'
  BY DEF TypeOK, CacheCoherent, Loading
<1>4. ASSUME NEW u \in Threads PROVE Knows(u)'
  BY DEF TypeOK, Knows, R!Legal, R!Error
<1> QED BY <1>1, <1>2, <1>3, <1>4

LEMMA TakeLockStep ==
  ASSUME IInv, NEW t \in Threads, TakeLock(t) PROVE IInv'
<1> USE DEF IInv, TakeLock, cache, LockedPcs
<1>1. TypeOK'
  BY DEF TypeOK
<1>2. CacheLockHeld'
  BY NoThreadAssumption DEF TypeOK, CacheLockHeld
<1>3. CacheCoherent'
  BY DEF TypeOK, CacheCoherent, Loading
<1>4. ASSUME NEW u \in Threads PROVE Knows(u)'
  <2>1. request[t] \in Requests
    BY DEF TypeOK, Knows
  <2>2. 0 <= request[t].off /\ request[t].off < Size
    <3>1. ~(request[t].off < 0 \/ request[t].off >= Size)
      BY DEF Refused
    <3> QED BY <2>1, <3>1, RequestParts, SizesAssumption
  <2> QED BY <2>2 DEF TypeOK, Knows, R!Legal, R!Error
<1> QED BY <1>1, <1>2, <1>3, <1>4

LEMMA SkipCacheStep ==
  ASSUME IInv, NEW t \in Threads, SkipCache(t) PROVE IInv'
<1> USE DEF IInv, SkipCache, cache, LockedPcs
<1>1. TypeOK'
  BY DEF TypeOK
<1>2. CacheLockHeld'
  BY DEF TypeOK, CacheLockHeld
<1>3. CacheCoherent'
  BY DEF TypeOK, CacheCoherent, Loading
<1>4. ASSUME NEW u \in Threads PROVE Knows(u)'
  BY DEF TypeOK, Knows, R!Legal, R!Error
<1> QED BY <1>1, <1>2, <1>3, <1>4

\* What a thread under the lock knows of its request.
LEMMA RequestUnderLock ==
  ASSUME IInv, NEW t \in Threads, pc[t] \in LockedPcs
  PROVE  /\ request[t] \in Requests
         /\ request[t].off \in Nat /\ request[t].off < Size
         /\ request[t].len \in Nat
         /\ Cut(request[t]) \in Nat /\ Cut(request[t]) <= request[t].len
         /\ request[t].off + Cut(request[t]) <= Size
         /\ \A u \in Threads : u # t => pc[u] \notin LockedPcs
<1>1. request[t] \in Requests
  BY DEF IInv, TypeOK, Knows, LockedPcs
<1>2. 0 <= request[t].off /\ request[t].off < Size
  BY DEF IInv, Knows
<1>3. \A u \in Threads : u # t => pc[u] \notin LockedPcs
  BY DEF IInv, CacheLockHeld
<1>4. request[t].off \in Nat /\ request[t].len \in Nat
  BY <1>1, <1>2, RequestParts
<1>5. /\ Cut(request[t]) \in Nat /\ Cut(request[t]) <= request[t].len
      /\ request[t].off + Cut(request[t]) <= Size
  BY <1>2, <1>4, SizesAssumption DEF Cut, Least
<1> QED BY <1>1, <1>2, <1>3, <1>4, <1>5

LEMMA AgesTyped ==
  ASSUME TypeOK, NEW hits PROVE AgesAfter(hits) \in [Slots -> Int]
BY SizesAssumption DEF TypeOK, AgesAfter

LEMMA HitStep ==
  ASSUME IInv, NEW t \in Threads, Hit(t) PROVE IInv'
<1> DEFINE r == request[t]
<1>1. /\ r \in Requests /\ r.off \in Nat /\ r.off < Size /\ r.len \in Nat
      /\ Cut(r) \in Nat /\ Cut(r) <= r.len /\ r.off + Cut(r) <= Size
      /\ \A u \in Threads : u # t => pc[u] \notin LockedPcs
  BY RequestUnderLock DEF Hit, LockedPcs
<1>2. PICK i \in Useful(r) :
        got' = [got EXCEPT ![t] = CopiedFrom(cached[i], r.off - cacheOff[i], Cut(r))]
  BY DEF Hit
<1>3. /\ i \in Slots /\ cacheLen[i] > 0 /\ ~Loading(i)
      /\ cacheOff[i] + cacheLen[i] >= r.off + Cut(r)
  BY <1>1 DEF Useful, Covers, Loading, Hit, LockedPcs
<1>4. /\ cached[i].from = cacheOff[i] /\ cacheOff[i] \in Nat
      /\ cacheLen[i] <= cached[i].n /\ cacheLen[i] \in Nat /\ cached[i].n \in Nat
  BY <1>3 DEF IInv, CacheCoherent, TypeOK
<1>5. got' = [got EXCEPT ![t] = Bytes(r.off, Cut(r))]
  <2>1. cached[i].from + (r.off - cacheOff[i]) = r.off
    BY <1>1, <1>4
  <2>2. (r.off - cacheOff[i]) + Cut(r) <= cached[i].n
    BY <1>1, <1>3, <1>4
  <2> QED BY <1>2, <2>1, <2>2 DEF CopiedFrom
<1>6. cacheAge' \in [Slots -> Int]
  BY AgesTyped DEF IInv, Hit
<1> HIDE DEF r
<1>7. TypeOK'
  BY <1>1, <1>5, <1>6 DEF IInv, TypeOK, Hit, Bytes, LockedPcs
<1>8. CacheLockHeld'
  BY DEF IInv, TypeOK, CacheLockHeld, Hit, LockedPcs
<1>9. CacheCoherent'
  BY DEF IInv, TypeOK, CacheCoherent, Loading, Hit
<1>10. ASSUME NEW u \in Threads PROVE Knows(u)'
  <2>1. CASE u = t
    <3>1. R!Legal(r, Bytes(r.off, Cut(r)))
      BY <1>1 DEF R!Legal, R!Error, Bytes
    <3>2. /\ Bytes(r.off, Cut(r)).n \in -1..Size
          /\ Bytes(r.off, Cut(r)).from \in 0..Size
      BY <1>1, SizesAssumption DEF Bytes
    <3> QED BY <2>1, <1>1, <1>5, <3>1, <3>2
            DEF IInv, TypeOK, Knows, Hit, LockedPcs, r
  <2>2. CASE u # t
    BY <2>2, <1>1 DEF IInv, TypeOK, Knows, Hit, LockedPcs
  <2> QED BY <2>1, <2>2
<1> QED BY <1>7, <1>8, <1>9, <1>10 DEF IInv

LEMMA MissStep ==
  ASSUME IInv, NEW t \in Threads, Miss(t) PROVE IInv'
<1> DEFINE r == request[t]
<1>1. /\ r \in Requests /\ r.off \in Nat /\ r.off < Size /\ r.len \in Nat
      /\ \A u \in Threads : u # t => pc[u] \notin LockedPcs
  BY RequestUnderLock DEF Miss, LockedPcs
<1>2. PICK i \in Slots : /\ victim' = [victim EXCEPT ![t] = i]
                         /\ cacheOff' = [cacheOff EXCEPT ![i] = RoundDown(r.off)]
  BY DEF Miss
<1>3. RoundDown(r.off) \in Nat /\ RoundDown(r.off) <= r.off
  BY <1>1, RoundDownBelow
<1>4. cacheAge' \in [Slots -> Int]
  BY AgesTyped DEF IInv, Miss
<1> HIDE DEF r
<1>5. TypeOK'
  BY <1>2, <1>3, <1>4 DEF IInv, TypeOK, Miss, LockedPcs
<1>6. CacheLockHeld'
  BY DEF IInv, TypeOK, CacheLockHeld, Miss, LockedPcs
<1>7. CacheCoherent'
  <2>1. pc'[t] = "load" /\ victim'[t] = i
    BY <1>2 DEF IInv, TypeOK, Miss
  <2>2. \A j \in Slots : Loading(j) => Loading(j)'
    BY <1>1 DEF Loading, Miss, LockedPcs
  <2>3. \A j \in Slots : j # i => cacheOff'[j] = cacheOff[j]
    BY <1>2 DEF IInv, TypeOK
  <2>4. cacheLen' = cacheLen /\ cached' = cached
    BY DEF Miss
  <2>5. Loading(i)'
    BY <2>1 DEF Loading
  <2> QED BY <2>2, <2>3, <2>4, <2>5 DEF IInv, CacheCoherent
<1>8. ASSUME NEW u \in Threads PROVE Knows(u)'
  <2>1. CASE u = t
    BY <2>1, <1>1, <1>2, <1>3 DEF IInv, TypeOK, Knows, Miss, LockedPcs, r
  <2>2. CASE u # t
    BY <2>2, <1>1 DEF IInv, TypeOK, Knows, Miss, LockedPcs
  <2> QED BY <2>1, <2>2
<1> QED BY <1>5, <1>6, <1>7, <1>8 DEF IInv

LEMMA LoadStep ==
  ASSUME IInv, NEW t \in Threads, Load(t) PROVE IInv'
<1> DEFINE r == request[t]
           i == victim[t]
           from == cacheOff[i]
           rel == r.off - from
<1>1. /\ r \in Requests /\ r.off \in Nat /\ r.off < Size /\ r.len \in Nat
      /\ Cut(r) \in Nat /\ Cut(r) <= r.len /\ r.off + Cut(r) <= Size
      /\ \A u \in Threads : u # t => pc[u] \notin LockedPcs
  BY RequestUnderLock DEF Load, LockedPcs
<1>2. i \in Slots /\ from \in Nat /\ from <= r.off
  BY DEF IInv, TypeOK, Knows, Load
<1>3. PICK k \in Callback(from, Least(CacheLen, Size - from)) :
        /\ k > 0
        /\ cacheAge' = [cacheAge EXCEPT ![i] = CacheAge]
        /\ cacheLen' = [cacheLen EXCEPT ![i] = k]
        /\ cached' = [cached EXCEPT ![i] = Bytes(from, k)]
        /\ got' = [got EXCEPT ![t] =
             CopiedFrom(cached'[i], rel, IF rel > k THEN 0 ELSE Least(Cut(r), k - rel))]
  BY DEF Load, Usable
<1>4. k \in Nat /\ from + k <= Size
  <2>1. Least(CacheLen, Size - from) \in Int
    BY <1>2, SizesAssumption DEF Least
  <2> QED BY <2>1, <1>2, <1>3, CallbackBound
<1> DEFINE n == IF rel > k THEN 0 ELSE Least(Cut(r), k - rel)
<1>5. /\ n \in Nat /\ n <= r.len /\ r.off + n <= Size
  BY <1>1, <1>2, <1>4, SizesAssumption DEF Least
<1>6. got' = [got EXCEPT ![t] = Bytes(r.off, n)]
  <2>1. cached'[i].from = from /\ cached'[i].n = k
    BY <1>2, <1>3 DEF IInv, TypeOK, Bytes
  <2>2. from + rel = r.off
    BY <1>1, <1>2
  <2>3. n = 0 \/ rel + n <= k
    BY <1>1, <1>2, <1>4 DEF Least
  <2> QED BY <1>3, <2>1, <2>2, <2>3 DEF CopiedFrom
<1>7. /\ pc[t] = "load" /\ pc' = [pc EXCEPT ![t] = "release"]
      /\ owner' = owner /\ cacheOff' = cacheOff /\ request' = request
      /\ victim' = victim /\ reply' = reply
  BY DEF Load
<1> HIDE DEF r, i, from, rel, n
<1>8. TypeOK'
  BY <1>1, <1>2, <1>3, <1>4, <1>5, <1>6, <1>7, SizesAssumption
     DEF IInv, TypeOK, Bytes, LockedPcs
<1>9. CacheLockHeld'
  BY <1>7 DEF IInv, TypeOK, CacheLockHeld, LockedPcs
<1>10. CacheCoherent'
  <2>1. \A j \in Slots : j # i => ~Loading(j)
    BY <1>1, <1>7 DEF Loading, LockedPcs, i
  <2>2. \A j \in Slots : j # i => cacheLen'[j] = cacheLen[j] /\ cached'[j] = cached[j]
    BY <1>3 DEF IInv, TypeOK
  <2>3. /\ cacheLen'[i] = k /\ cached'[i] = Bytes(from, k)
    BY <1>2, <1>3 DEF IInv, TypeOK
  <2>4. /\ cached'[i].from = cacheOff'[i] /\ cacheLen'[i] <= cached'[i].n
        /\ cacheOff'[i] + cacheLen'[i] <= Size
    BY <2>3, <1>4, <1>7 DEF Bytes, from
  <2> QED BY <2>1, <2>2, <2>4, <1>7 DEF IInv, CacheCoherent
<1>11. ASSUME NEW u \in Threads PROVE Knows(u)'
  <2>1. CASE u = t
    <3>1. R!Legal(r, Bytes(r.off, n))
      BY <1>1, <1>5 DEF R!Legal, R!Error, Bytes
    <3>2. Bytes(r.off, n).n \in -1..Size /\ Bytes(r.off, n).from \in 0..Size
      BY <1>1, <1>5, SizesAssumption DEF Bytes
    <3> QED BY <2>1, <1>1, <1>6, <1>7, <3>1, <3>2
            DEF IInv, TypeOK, Knows, LockedPcs, r
  <2>2. CASE u # t
    BY <2>2, <1>1, <1>6, <1>7 DEF IInv, TypeOK, Knows, LockedPcs
  <2> QED BY <2>1, <2>2
<1> QED BY <1>8, <1>9, <1>10, <1>11 DEF IInv

LEMMA LoadFailsStep ==
  ASSUME IInv, NEW t \in Threads, LoadFails(t) PROVE IInv'
<1> DEFINE i == victim[t]
<1>1. \A u \in Threads : u # t => pc[u] \notin LockedPcs
  BY RequestUnderLock DEF LoadFails, LockedPcs
<1>2. i \in Slots /\ cacheOff[i] \in Nat
  BY DEF IInv, TypeOK
<1>3. /\ pc[t] = "load" /\ pc' = [pc EXCEPT ![t] = "nocache"]
      /\ cached' = [cached EXCEPT ![i] = Bytes(cacheOff[i], 0)]
      /\ cacheLen' = [cacheLen EXCEPT ![i] = 0]
      /\ cacheAge' = [cacheAge EXCEPT ![i] = 0]
      /\ cacheOff' = [cacheOff EXCEPT ![i] = 0]
      /\ owner' = owner /\ request' = request /\ victim' = victim
      /\ got' = got /\ reply' = reply
  BY DEF LoadFails, GiveUp
<1> HIDE DEF i
<1>4. TypeOK'
  BY <1>2, <1>3 DEF IInv, TypeOK, Bytes, LockedPcs
<1>5. CacheLockHeld'
  BY <1>3 DEF IInv, TypeOK, CacheLockHeld, LockedPcs
<1>6. CacheCoherent'
  <2>1. \A j \in Slots : j # i => ~Loading(j)
    BY <1>1, <1>3 DEF Loading, LockedPcs, i
  <2>2. \A j \in Slots : j # i => /\ cacheLen'[j] = cacheLen[j]
                                  /\ cached'[j] = cached[j]
                                  /\ cacheOff'[j] = cacheOff[j]
    BY <1>3 DEF IInv, TypeOK
  <2>3. cacheLen'[i] = 0
    BY <1>2, <1>3 DEF IInv, TypeOK
  <2> QED BY <2>1, <2>2, <2>3 DEF IInv, CacheCoherent
<1>7. ASSUME NEW u \in Threads PROVE Knows(u)'
  BY <1>1, <1>3 DEF IInv, TypeOK, Knows, LockedPcs
<1> QED BY <1>4, <1>5, <1>6, <1>7 DEF IInv

LEMMA NoCacheStep ==
  ASSUME IInv, NEW t \in Threads, NoCache(t) PROVE IInv'
<1> DEFINE r == request[t]
           whole == RoundUp(r.len)
<1>1. /\ r \in Requests /\ r.off \in Nat /\ r.off < Size /\ r.len \in Nat
      /\ \A u \in Threads : u # t => pc[u] \notin LockedPcs
  BY RequestUnderLock DEF NoCache, LockedPcs
<1>2. whole \in Int
  <2>1. (r.len + Sector - 1) \div Sector \in Int
    BY <1>1, SizesAssumption
  <2> QED BY <2>1, SizesAssumption DEF RoundUp
<1> HIDE DEF whole
<1>3. PICK k \in Callback(r.off, whole) :
        got' = [got EXCEPT ![t] = IF k < 0 THEN Error ELSE Bytes(r.off, Least(k, r.len))]
  BY DEF NoCache, whole
<1>4. k \in Int /\ r.off + k <= Size
  BY <1>1, <1>2, <1>3, CallbackBound
<1> DEFINE a == IF k < 0 THEN Error ELSE Bytes(r.off, Least(k, r.len))
<1>5. a \in [from : Int, n : Int] /\ R!Legal(r, a) /\ a.n \in -1..Size /\ a.from \in 0..Size
  <2>1. CASE k < 0
    BY <2>1, SizesAssumption DEF R!Legal, R!Error, Bytes, Error
  <2>2. CASE k >= 0
    <3>1. /\ Least(k, r.len) \in Nat /\ Least(k, r.len) <= r.len
          /\ r.off + Least(k, r.len) <= Size
      BY <2>2, <1>1, <1>4, SizesAssumption DEF Least
    <3>2. a = Bytes(r.off, Least(k, r.len))
      BY <2>2, <1>4
    <3> QED BY <3>1, <3>2, <1>1, SizesAssumption DEF R!Legal, R!Error, Bytes
  <2> QED BY <2>1, <2>2, <1>4
<1>6. /\ got' = [got EXCEPT ![t] = a]
      /\ pc[t] = "nocache" /\ pc' = [pc EXCEPT ![t] = "release"]
      /\ owner' = owner /\ request' = request /\ victim' = victim /\ reply' = reply
      /\ cacheOff' = cacheOff /\ cacheLen' = cacheLen /\ cacheAge' = cacheAge
      /\ cached' = cached
  BY <1>3 DEF NoCache, cache
<1> HIDE DEF r, a
<1>7. TypeOK'
  BY <1>5, <1>6 DEF IInv, TypeOK, LockedPcs
<1>8. CacheLockHeld'
  BY <1>6 DEF IInv, TypeOK, CacheLockHeld, LockedPcs
<1>9. CacheCoherent'
  BY <1>6 DEF IInv, TypeOK, CacheCoherent, Loading
<1>10. ASSUME NEW u \in Threads PROVE Knows(u)'
  <2>1. CASE u = t
    BY <2>1, <1>1, <1>5, <1>6 DEF IInv, TypeOK, Knows, LockedPcs, r
  <2>2. CASE u # t
    BY <2>2, <1>1, <1>6 DEF IInv, TypeOK, Knows, LockedPcs
  <2> QED BY <2>1, <2>2
<1> QED BY <1>7, <1>8, <1>9, <1>10 DEF IInv

LEMMA ReleaseLockStep ==
  ASSUME IInv, NEW t \in Threads, ReleaseLock(t) PROVE IInv'
<1>1. \A u \in Threads : u # t => pc[u] \notin LockedPcs
  BY RequestUnderLock DEF ReleaseLock, LockedPcs
<1>2. 0 \in Slots
  BY SizesAssumption DEF Slots
<1>3. TypeOK'
  BY <1>2 DEF IInv, TypeOK, ReleaseLock, cache, Error, Bytes
<1>4. CacheLockHeld'
  BY <1>1, NoThreadAssumption DEF IInv, TypeOK, CacheLockHeld, ReleaseLock, LockedPcs
<1>5. CacheCoherent'
  BY DEF IInv, TypeOK, CacheCoherent, Loading, ReleaseLock, cache
<1>6. ASSUME NEW u \in Threads PROVE Knows(u)'
  BY <1>1 DEF IInv, TypeOK, Knows, ReleaseLock, cache, LockedPcs
<1> QED BY <1>3, <1>4, <1>5, <1>6 DEF IInv

LEMMA ClearCacheStep ==
  ASSUME IInv, ClearCache PROVE IInv'
<1>1. \A t \in Threads : pc[t] \notin LockedPcs
  BY NoThreadAssumption DEF IInv, CacheLockHeld, ClearCache
<1>2. TypeOK'
  BY DEF IInv, TypeOK, ClearCache
<1>3. CacheLockHeld'
  BY DEF IInv, CacheLockHeld, ClearCache
<1>4. CacheCoherent'
  BY DEF CacheCoherent, ClearCache
<1>5. ASSUME NEW t \in Threads PROVE Knows(t)'
  BY <1>1 DEF IInv, Knows, ClearCache, LockedPcs
<1> QED BY <1>2, <1>3, <1>4, <1>5 DEF IInv

-----------------------------------------------------------------------------
(* The theorems *)

\* The invariant holds initially and every step keeps it.
THEOREM InductiveInvariant == Spec => []IInv
<1>1. Init => IInv
  <2> SUFFICES ASSUME Init PROVE IInv
    OBVIOUS
  <2>1. 0 \in Slots
    BY SizesAssumption DEF Slots
  <2>2. TypeOK
    BY <2>1 DEF Init, TypeOK, Bytes, Error
  <2>3. CacheLockHeld
    BY NoThreadAssumption DEF Init, CacheLockHeld, LockedPcs
  <2>4. CacheCoherent
    BY DEF Init, CacheCoherent
  <2>5. ASSUME NEW t \in Threads PROVE Knows(t)
    BY DEF Init, Knows, LockedPcs
  <2> QED BY <2>2, <2>3, <2>4, <2>5 DEF IInv
<1>2. IInv /\ [Next]_vars => IInv'
  <2>1. ASSUME IInv, NEW t \in Threads, Begin(t) \/ Refuse(t) \/ TakeLock(t) \/ InLock(t)
        PROVE  IInv'
    BY <2>1, BeginStep, RefuseStep, TakeLockStep, SkipCacheStep, HitStep, MissStep,
       LoadStep, LoadFailsStep, NoCacheStep, ReleaseLockStep DEF InLock
  <2>2. ASSUME IInv, ClearCache PROVE IInv'
    BY <2>2, ClearCacheStep
  <2>3. ASSUME IInv, UNCHANGED vars PROVE IInv'
    BY <2>3 DEF vars, IInv, TypeOK, CacheLockHeld, CacheCoherent, Loading, Knows
  <2> QED BY <2>1, <2>2, <2>3 DEF Next
<1> QED BY <1>1, <1>2, PTL DEF Spec

\* The state of the cache keeps its types.
THEOREM TypeCorrect == Spec => []TypeOK
<1>1. IInv => TypeOK
  BY DEF IInv
<1> QED BY <1>1, InductiveInvariant, PTL

\* Two threads are never both inside the locked part of tsk_img_read, where
\* the cache and the read callback of the format are used.
THEOREM CallbackUnderLock == Spec => []CacheLockHeld
<1>1. IInv => CacheLockHeld
  BY DEF IInv
<1> QED BY <1>1, InductiveInvariant, PTL

\* No sequence of short reads, failures, evictions and clears makes a slot
\* claim bytes that it does not hold.
THEOREM Coherence == Spec => []CacheCoherent
<1>1. IInv => CacheCoherent
  BY DEF IInv
<1> QED BY <1>1, InductiveInvariant, PTL

\* tsk_img_read implements ImgRead: cached or not, a call ends with an error
\* or with a prefix of the bytes of the image that it was asked for.
THEOREM Implements == Spec => ReadsTheImage
<1>1. Init => R!Init
  BY DEF Init, R!Init, Error, Bytes, R!Error
<1>2. IInv /\ [Next]_vars => [R!Next]_<<request, reply>>
  <2>1. ASSUME IInv, NEW t \in Threads, Begin(t) PROVE R!Next
    <3>1. request[t] = NoRequest
      BY <2>1 DEF IInv, Knows, Begin
    <3>2. R!Begin(t)
      BY <2>1, <3>1 DEF Begin, R!Begin, Requests, R!Requests, Error, Bytes, R!Error
    <3> QED BY <3>2 DEF R!Next
  <2>2. ASSUME IInv, NEW t \in Threads, Refuse(t) PROVE R!Next
    <3>1. request[t] # NoRequest
      BY <2>2 DEF IInv, Knows, Refuse
    <3>2. -1 \in -1..Size /\ 0 \in 0..Size
      BY SizesAssumption
    <3>3. R!Legal(request[t], [n |-> -1, from |-> 0])
      BY DEF R!Legal, R!Error
    <3>4. reply' = [reply EXCEPT ![t] = [n |-> -1, from |-> 0]]
      BY <2>2 DEF Refuse, Error, Bytes
    <3>5. R!End(t)
      BY <2>2, <3>1, <3>2, <3>3, <3>4 DEF R!End, Refuse
    <3> QED BY <3>5 DEF R!Next
  <2>3. ASSUME IInv, NEW t \in Threads, ReleaseLock(t) PROVE R!Next
    <3>1. /\ request[t] # NoRequest
          /\ R!Legal(request[t], got[t])
          /\ got[t].n \in -1..Size /\ got[t].from \in 0..Size
          /\ got[t] \in [from : Int, n : Int]
      BY <2>3 DEF IInv, TypeOK, Knows, ReleaseLock
    <3>2. got[t] = [n |-> got[t].n, from |-> got[t].from]
      BY <3>1
    <3>3. R!End(t)
      BY <2>3, <3>1, <3>2 DEF R!End, ReleaseLock
    <3> QED BY <3>3 DEF R!Next
  <2>4. ASSUME NEW t \in Threads,
               TakeLock(t) \/ SkipCache(t) \/ Hit(t) \/ Miss(t) \/ Load(t)
                 \/ LoadFails(t) \/ NoCache(t) \/ ClearCache \/ UNCHANGED vars
        PROVE  UNCHANGED <<request, reply>>
    BY <2>4 DEF TakeLock, SkipCache, Hit, Miss, Load, LoadFails, NoCache, ClearCache, vars
  <2>5. ClearCache \/ UNCHANGED vars => UNCHANGED <<request, reply>>
    BY DEF ClearCache, vars
  <2> QED BY <2>1, <2>2, <2>3, <2>4, <2>5 DEF Next, InLock
<1> QED BY <1>1, <1>2, InductiveInvariant, PTL DEF Spec, R!Spec, ReadsTheImage

-----------------------------------------------------------------------------
(* Reads over sound bytes *)

\* The bytes that t's read depends on: those it asks for, in whole sectors, or
\* all that the slot for them would hold.
IsSound(r) ==
  IF TooLong(r) THEN Sound(r.off, RoundUp(r.len)) ELSE Sound(RoundDown(r.off), CacheLen)

\* A thread that loads does it from the start of its first sector, and reads
\* around the cache because it has to, or after a load that met damage.
Reads(t) ==
  LET r == request[t] IN
  /\ pc[t] = "load" => ~TooLong(r) /\ cacheOff[victim[t]] = RoundDown(r.off)
  /\ pc[t] = "nocache" => TooLong(r) \/ ~Sound(RoundDown(r.off), CacheLen)
  /\ pc[t] = "release" /\ IsSound(r) => got[t].n = Cut(r)

LEMMA RoundUpAbove ==
  ASSUME NEW len \in Nat PROVE RoundUp(len) \in Nat /\ len <= RoundUp(len)
<1> DEFINE x == len + Sector - 1   q == x \div Sector   m == x % Sector
<1>1. Sector \in Nat \ {0}
  BY SizesAssumption
<1>2. x \in Nat
  BY <1>1
<1> HIDE DEF x
<1>3. q \in Nat /\ m \in 0..(Sector - 1) /\ x = (q * Sector) + m
  BY <1>1, <1>2
<1>4. q * Sector \in Nat
  BY <1>1, <1>3
<1> DEFINE p == q * Sector
<1> HIDE DEF q, m, p
<1>5. x = p + m /\ p \in Nat /\ m \in 0..(Sector - 1)
  BY <1>3, <1>4 DEF p
<1>6. len <= p
  BY <1>1, <1>5 DEF x
<1>7. RoundUp(len) = p
  BY DEF RoundUp, p, q, x
<1> QED BY <1>5, <1>6, <1>7

LEMMA RoundDownRest ==
  ASSUME NEW off \in Nat PROVE off - RoundDown(off) = off % Sector
<1> DEFINE q == off \div Sector
<1>1. off = (q * Sector) + (off % Sector) /\ q \in Nat /\ off % Sector \in Nat
  BY SizesAssumption
<1>2. q * Sector \in Nat
  BY <1>1, SizesAssumption
<1>3. RoundDown(off) = q * Sector
  BY DEF RoundDown
<1> QED BY <1>1, <1>2, <1>3

\* The bytes that are loaded are among those of a whole slot.
LEMMA SoundPart ==
  ASSUME NEW off \in Nat, NEW n \in Int, NEW m \in Int, Sound(off, n), m <= n
  PROVE  Sound(off, m)
<1>1. ASSUME NEW d \in Damaged PROVE d < off \/ off + m <= d
  <2>1. d \in Nat /\ (d < off \/ off + n <= d)
    BY SizesAssumption DEF Sound
  <2> QED BY <2>1
<1> QED BY <1>1 DEF Sound

\* Steps that do not reach what Reads says of a thread.
LEMMA ReadsGoOn ==
  ASSUME NEW t, Reads(t), request'[t] = request[t], pc'[t] = pc[t],
         victim'[t] = victim[t], got'[t] = got[t],
         pc[t] = "load" => cacheOff'[victim[t]] = cacheOff[victim[t]]
  PROVE  Reads(t)'
<1>1. pc'[t] = "load" => ~TooLong(request'[t]) /\ cacheOff'[victim'[t]] = RoundDown(request'[t].off)
  BY DEF Reads
<1>2. pc'[t] = "nocache" => TooLong(request'[t]) \/ ~Sound(RoundDown(request'[t].off), CacheLen)
  BY DEF Reads
<1>3. pc'[t] = "release" /\ IsSound(request'[t]) => got'[t].n = Cut(request'[t])
  BY DEF Reads
<1> QED BY <1>1, <1>2, <1>3 DEF Reads

\* A thread outside of the lock has nothing to show.
LEMMA ReadsElsewhere ==
  ASSUME NEW t, pc'[t] \notin {"load", "nocache", "release"} PROVE Reads(t)'
  BY DEF Reads

\* Reads of the other threads, at a step of one that has the lock.
LEMMA OthersRead ==
  ASSUME IInv, NEW t \in Threads, pc[t] \in LockedPcs, NEW p,
         pc' = [pc EXCEPT ![t] = p], NEW u \in Threads, u # t
  PROVE  Reads(u)'
<1>1. pc[u] \notin LockedPcs
  BY RequestUnderLock
<1>2. pc'[u] = pc[u]
  BY DEF IInv, TypeOK
<1> QED BY <1>1, <1>2, ReadsElsewhere DEF LockedPcs

LEMMA ReadsOutside ==
  ASSUME IInv, NEW t \in Threads, Begin(t) \/ Refuse(t) \/ TakeLock(t),
         NEW u \in Threads, Reads(u)
  PROVE  Reads(u)'
<1>1. CASE u = t
  <2>1. pc'[t] \in {"checks", "idle", "lookup"}
    BY DEF Begin, Refuse, TakeLock, IInv, TypeOK
  <2> QED BY <1>1, <2>1, ReadsElsewhere
<1>2. CASE u # t
  <2>1. /\ request'[u] = request[u] /\ pc'[u] = pc[u] /\ victim' = victim /\ got' = got
        /\ cacheOff' = cacheOff
    BY <1>2 DEF Begin, Refuse, TakeLock, IInv, TypeOK, cache
  <2> QED BY <2>1, ReadsGoOn
<1> QED BY <1>1, <1>2

LEMMA SkipCacheReads == ASSUME IInv, NEW t \in Threads, SkipCache(t) PROVE Reads(t)'
<1>1. pc'[t] = "nocache" /\ request' = request /\ TooLong(request[t])
  BY DEF SkipCache, IInv, TypeOK
<1>2. TooLong(request'[t])
  BY <1>1
<1> QED BY <1>1, <1>2 DEF Reads

LEMMA HitReads == ASSUME IInv, NEW t \in Threads, Hit(t) PROVE Reads(t)'
<1> DEFINE r == request[t]
<1>1. /\ pc'[t] = "release" /\ request' = request
      /\ \E i \in Useful(r) :
           got' = [got EXCEPT ![t] = CopiedFrom(cached[i], r.off - cacheOff[i], Cut(r))]
  BY DEF Hit, IInv, TypeOK
<1>2. got'[t].n = Cut(r)
  BY <1>1 DEF CopiedFrom, Bytes, IInv, TypeOK
<1>3. got'[t].n = Cut(request'[t])
  BY <1>1, <1>2
<1> QED BY <1>1, <1>3 DEF Reads

LEMMA MissReads == ASSUME IInv, NEW t \in Threads, Miss(t) PROVE Reads(t)'
<1>1. /\ pc'[t] = "load" /\ request' = request /\ ~TooLong(request[t])
      /\ cacheOff'[victim'[t]] = RoundDown(request[t].off)
  BY DEF Miss, IInv, TypeOK
<1>2. ~TooLong(request'[t]) /\ cacheOff'[victim'[t]] = RoundDown(request'[t].off)
  BY <1>1
<1> QED BY <1>1, <1>2 DEF Reads

\* What t loads, when the bytes are sound: all that the slot can hold.
LEMMA SoundLoad ==
  ASSUME IInv, NEW t \in Threads, Reads(t), pc[t] = "load",
         Sound(RoundDown(request[t].off), CacheLen)
  PROVE  LET from == cacheOff[victim[t]]
             most == Least(CacheLen, Size - from) IN
         /\ from = RoundDown(request[t].off)
         /\ Callback(from, most) = {most}
         /\ most \in Nat \ {0}
<1> DEFINE r == request[t]   from == cacheOff[victim[t]]   most == Least(CacheLen, Size - from)
<1>1. r.off \in Nat /\ r.off < Size
  BY RequestUnderLock DEF LockedPcs
<1>2. from = RoundDown(r.off)
  BY DEF Reads
<1>3. from \in Nat /\ from <= r.off
  BY <1>1, <1>2, RoundDownBelow
<1>4. most \in Nat \ {0} /\ most <= CacheLen /\ most <= Size - from /\ most \in Int
  BY <1>1, <1>3, SizesAssumption DEF Least
<1>5. Sound(from, CacheLen)
  BY <1>2
<1> HIDE DEF r, from, most
<1>6. Sound(from, most)
  BY <1>3, <1>4, <1>5, SoundPart, SizesAssumption
<1>7. Least(most, Size - from) = most
  BY <1>4, <1>3, SizesAssumption DEF Least
<1>8. Callback(from, most) = {most}
  BY <1>6, <1>7 DEF Callback
<1> QED BY <1>2, <1>4, <1>8 DEF r, from, most

LEMMA LoadReads ==
  ASSUME IInv, NEW t \in Threads, Load(t), Reads(t) PROVE Reads(t)'
<1> DEFINE r == request[t]   i == victim[t]   from == cacheOff[i]   rel == r.off - from
           most == Least(CacheLen, Size - from)
<1>1. pc[t] = "load" /\ pc'[t] = "release" /\ request' = request
  BY DEF Load, IInv, TypeOK
<1> SUFFICES ASSUME IsSound(r) PROVE got'[t].n = Cut(r)
  <2>1. request'[t] = r
    BY <1>1
  <2> QED BY <1>1, <2>1 DEF Reads
<1>2. ~TooLong(r) /\ Sound(RoundDown(r.off), CacheLen)
  BY <1>1 DEF Reads, IsSound
<1>3. from = RoundDown(r.off) /\ Callback(from, most) = {most} /\ most \in Nat \ {0}
  BY <1>1, <1>2, SoundLoad
<1>4. got' = [got EXCEPT ![t] =
         CopiedFrom(cached'[i], rel, IF rel > most THEN 0 ELSE Least(Cut(r), most - rel))]
  BY <1>3 DEF Load
<1>5. got'[t].n = IF rel > most THEN 0 ELSE Least(Cut(r), most - rel)
  BY <1>4 DEF CopiedFrom, Bytes, IInv, TypeOK
<1>6. /\ r.off \in Nat /\ r.off < Size /\ r.len \in Nat
      /\ Cut(r) = Least(r.len, Size - r.off)
  BY <1>1, RequestUnderLock DEF LockedPcs, Cut
<1>7. rel = r.off % Sector /\ rel \in Nat /\ from \in Nat /\ from + rel = r.off
  <2>1. RoundDown(r.off) \in Nat /\ RoundDown(r.off) <= r.off /\ r.off - RoundDown(r.off) = r.off % Sector
    BY <1>6, RoundDownBelow, RoundDownRest
  <2> QED BY <1>3, <1>6, <2>1
<1>8. r.len + rel <= CacheLen
  <2>1. ~(r.len + (r.off % Sector) > CacheLen)
    BY <1>2 DEF TooLong
  <2> QED BY <1>6, <1>7, <2>1, SizesAssumption
<1> DEFINE o == r.off   l == r.len   c == Cut(r)
<1> HIDE DEF r, i, from, rel, o, l, c, most
<1>9. /\ o \in Nat /\ o < Size /\ l \in Nat /\ c = Least(l, Size - o)
      /\ rel \in Nat /\ from \in Nat /\ from + rel = o /\ l + rel <= CacheLen
  BY <1>6, <1>7, <1>8 DEF o, l, c
<1>10. ~(rel > most) /\ Least(c, most - rel) = c
  BY <1>9, SizesAssumption DEF Least, most
<1> QED BY <1>5, <1>10 DEF c, r

LEMMA LoadFailsReads ==
  ASSUME IInv, NEW t \in Threads, LoadFails(t), Reads(t) PROVE Reads(t)'
<1> DEFINE from == cacheOff[victim[t]]   most == Least(CacheLen, Size - from)
<1>1. /\ pc[t] = "load" /\ pc'[t] = "nocache" /\ request' = request
      /\ \E k \in Callback(from, most) : ~(k > 0)
  BY DEF LoadFails, Usable, IInv, TypeOK
<1>2. ~Sound(RoundDown(request[t].off), CacheLen)
  <2> SUFFICES ASSUME Sound(RoundDown(request[t].off), CacheLen) PROVE FALSE
    OBVIOUS
  <2>1. Callback(from, most) = {most} /\ most \in Nat \ {0}
    BY <1>1, SoundLoad
  <2> HIDE DEF from, most
  <2> QED BY <1>1, <2>1
<1>3. ~Sound(RoundDown(request'[t].off), CacheLen)
  BY <1>1, <1>2
<1> QED BY <1>1, <1>3 DEF Reads

LEMMA NoCacheReads ==
  ASSUME IInv, NEW t \in Threads, NoCache(t), Reads(t) PROVE Reads(t)'
<1> DEFINE r == request[t]   whole == RoundUp(r.len)
<1>1. pc[t] = "nocache" /\ pc'[t] = "release" /\ request' = request
  BY DEF NoCache, IInv, TypeOK
<1> SUFFICES ASSUME IsSound(r) PROVE got'[t].n = Cut(r)
  <2>1. request'[t] = r
    BY <1>1
  <2> QED BY <1>1, <2>1 DEF Reads
<1>2. TooLong(r)
  BY <1>1 DEF Reads, IsSound
<1>3. Sound(r.off, whole)
  BY <1>2 DEF IsSound
<1>4. /\ r.off \in Nat /\ r.off < Size /\ r.len \in Nat
      /\ Cut(r) = Least(r.len, Size - r.off)
  BY <1>1, RequestUnderLock DEF LockedPcs, Cut
<1>5. whole \in Nat /\ r.len <= whole
  BY <1>4, RoundUpAbove
<1> DEFINE k == Least(whole, Size - r.off)
<1>6. Callback(r.off, whole) = {k}
  BY <1>3 DEF Callback
<1>7. got' = [got EXCEPT ![t] = IF k < 0 THEN Error ELSE Bytes(r.off, Least(k, r.len))]
  BY <1>6 DEF NoCache
<1>8. got'[t] = IF k < 0 THEN Error ELSE Bytes(r.off, Least(k, r.len))
  BY <1>7 DEF IInv, TypeOK
<1> DEFINE o == r.off   l == r.len   c == Cut(r)
<1> HIDE DEF whole
<1>9. ~(k < 0) /\ Least(k, r.len) = Cut(r)
  <2>1. k = Least(whole, Size - o) /\ c = Least(l, Size - o)
        /\ o \in Nat /\ o < Size /\ l \in Nat /\ l <= whole /\ whole \in Nat
    BY <1>4, <1>5
  <2> HIDE DEF k, o, l, c, r
  <2>2. ~(k < 0) /\ Least(k, l) = c
    BY <2>1, SizesAssumption DEF Least
  <2> QED BY <2>2 DEF l, c, r
<1> QED BY <1>8, <1>9 DEF Bytes

LEMMA SoundStep ==
  ASSUME IInv, \A t \in Threads : Reads(t), [Next]_vars PROVE \A t \in Threads : Reads(t)'
<1> SUFFICES ASSUME NEW u \in Threads PROVE Reads(u)'
  OBVIOUS
<1>1. ASSUME NEW t \in Threads, Begin(t) \/ Refuse(t) \/ TakeLock(t) PROVE Reads(u)'
  BY <1>1, ReadsOutside
<1>2. ASSUME NEW t \in Threads, InLock(t) PROVE Reads(u)'
  <2>1. PICK p : pc' = [pc EXCEPT ![t] = p]
    BY <1>2 DEF InLock, SkipCache, Hit, Miss, Load, LoadFails, NoCache, ReleaseLock
  <2>2. pc[t] \in LockedPcs
    BY <1>2 DEF InLock, SkipCache, Hit, Miss, Load, LoadFails, NoCache, ReleaseLock, LockedPcs
  <2>3. CASE u # t
    BY <2>1, <2>2, <2>3, OthersRead
  <2>4. Reads(t)'
    <3>1. CASE ReleaseLock(t)
      <4>1. pc'[t] = "idle"
        BY <3>1 DEF ReleaseLock, IInv, TypeOK
      <4> QED BY <4>1, ReadsElsewhere
    <3> QED BY <1>2, <3>1, SkipCacheReads, HitReads, MissReads, LoadReads, LoadFailsReads,
               NoCacheReads DEF InLock
  <2> QED BY <2>3, <2>4
<1>3. CASE ClearCache
  <2>1. /\ request' = request /\ pc' = pc /\ victim' = victim /\ got' = got
        /\ cacheOff' = cacheOff
    BY <1>3 DEF ClearCache
  <2> QED BY <2>1, ReadsGoOn
<1>4. CASE UNCHANGED vars
  <2>1. /\ request' = request /\ pc' = pc /\ victim' = victim /\ got' = got
        /\ cacheOff' = cacheOff
    BY <1>4 DEF vars
  <2> QED BY <2>1, ReadsGoOn
<1> QED BY <1>1, <1>2, <1>3, <1>4 DEF Next

\* Damage elsewhere does no harm to a read: one that does not depend on a
\* damaged byte gets all that it asked for, up to the end of the image.
THEOREM FullReads == Spec => []SoundReadsAreFull
<1>1. Init => \A t \in Threads : Reads(t)
  BY DEF Init, Reads
<1>2. IInv /\ (\A t \in Threads : Reads(t)) /\ [Next]_vars => (\A t \in Threads : Reads(t))'
  BY SoundStep
<1>3. (\A t \in Threads : Reads(t)) => SoundReadsAreFull
  BY DEF Reads, SoundReadsAreFull, IsSound
<1>4. Spec => []IInv
  BY InductiveInvariant
<1> QED BY <1>1, <1>2, <1>3, <1>4, PTL DEF Spec

-----------------------------------------------------------------------------
(* The ages of the slots, when every read is for at least one byte *)

\* The ages are the order in which the slots were useful, and leave room for
\* the slot that is loaded next.
AgesAreInOrder ==
  /\ older = {p \in InUse \X InUse : cacheAge[p[1]] < cacheAge[p[2]]}
  /\ \A i, j \in InUse : i # j => cacheAge[i] # cacheAge[j]
  /\ \A i \in InUse : cacheAge[i] <= CacheAge
  /\ \A t \in Threads : pc[t] = "load" => \A i \in InUse : cacheAge[i] < CacheAge

AgeInv == AgesAreInOrder /\ EvictsLeastRecent

\* One slot at most is useful to a read of some bytes.
LEMMA OneIsUseful ==
  ASSUME 0 \notin Lengths, IInv, NEW t \in Threads, pc[t] = "lookup"
  PROVE  /\ Cut(request[t]) > 0 /\ Useful(request[t]) \subseteq InUse
         /\ \A i, j \in Useful(request[t]) : i = j
<1> DEFINE r == request[t]
<1>1. r \in Requests /\ r.off \in Nat /\ r.off < Size /\ r.len \in Nat
  BY RequestUnderLock DEF LockedPcs
<1>2. r.len # 0
  BY <1>1 DEF Requests
<1>3. Cut(r) > 0
  BY <1>1, <1>2, SizesAssumption DEF Cut, Least
<1>4. Useful(r) \subseteq InUse
  BY DEF Useful, Covers, InUse
<1>5. ASSUME NEW i \in Useful(r), NEW j \in Useful(r) PROVE i = j
  <2>1. /\ i \in Slots /\ j \in Slots /\ Covers(i, r) /\ Covers(j, r)
        /\ \A k \in 0..(i - 1) : ~Covers(k, r)
        /\ \A k \in 0..(j - 1) : ~Covers(k, r)
    BY <1>3 DEF Useful
  <2>2. i \in Nat /\ j \in Nat
    BY <2>1, SizesAssumption DEF Slots
  <2>3. i \notin 0..(j - 1) /\ j \notin 0..(i - 1)
    BY <2>1
  <2> QED BY <2>2, <2>3
<1> QED BY <1>3, <1>4, <1>5

LEMMA AgesTypes ==
  ASSUME TypeOK
  PROVE  /\ InUse \subseteq Slots /\ cacheAge \in [Slots -> Int] /\ CacheAge \in Nat
         /\ \A i \in InUse : cacheAge[i] \in Int
  BY SizesAssumption DEF TypeOK, InUse

\* The slot in hits becomes the youngest, the others grow older alike.
LEMMA AgingKeepsOrder ==
  ASSUME TypeOK, AgesAreInOrder, NEW hits, hits \subseteq InUse, \A i, j \in hits : i = j,
         cacheAge' = AgesAfter(hits), older' = MadeRecent(hits), cacheLen' = cacheLen
  PROVE  /\ InUse' = InUse
         /\ older' = {p \in InUse \X InUse : cacheAge'[p[1]] < cacheAge'[p[2]]}
         /\ \A i, j \in InUse : i # j => cacheAge'[i] # cacheAge'[j]
         /\ \A i \in InUse : cacheAge'[i] <= CacheAge
         /\ \A i \in InUse : i \notin hits => cacheAge'[i] < CacheAge
<1>1. /\ InUse \subseteq Slots /\ CacheAge \in Nat
      /\ \A i \in InUse : cacheAge[i] \in Int /\ cacheAge[i] <= CacheAge
      /\ \A i, j \in InUse : i # j => cacheAge[i] # cacheAge[j]
  BY AgesTypes DEF AgesAreInOrder
<1>2. \A i \in InUse : cacheAge'[i] = IF i \in hits THEN CacheAge ELSE cacheAge[i] - 1
  BY <1>1 DEF AgesAfter, InUse
<1>3. InUse' = InUse
  BY DEF InUse
<1>4. \A i \in InUse : i \notin hits => cacheAge'[i] < CacheAge
  BY <1>1, <1>2
<1>5. \A i \in InUse : cacheAge'[i] <= CacheAge
  BY <1>1, <1>2
<1>6. ASSUME NEW i \in InUse, NEW j \in InUse
      PROVE  /\ i # j => cacheAge'[i] # cacheAge'[j]
             /\ cacheAge'[i] < cacheAge'[j] <=>
                  \/ cacheAge[i] < cacheAge[j] /\ (i \in hits => j \in hits)
                  \/ i \notin hits /\ j \in hits
  <2>1. CASE i \in hits /\ j \in hits
    <3>1. i = j
      BY <2>1
    <3> QED BY <1>1, <1>2, <2>1, <3>1
  <2>2. CASE i \in hits /\ j \notin hits
    BY <1>1, <1>2, <2>2
  <2>3. CASE i \notin hits /\ j \in hits
    BY <1>1, <1>2, <2>3
  <2>4. CASE i \notin hits /\ j \notin hits
    BY <1>1, <1>2, <2>4
  <2> QED BY <2>1, <2>2, <2>3, <2>4
<1>7. older' = {p \in InUse \X InUse : cacheAge'[p[1]] < cacheAge'[p[2]]}
  <2>1. older' \subseteq InUse \X InUse
    BY DEF MadeRecent, AgesAreInOrder
  <2>2. ASSUME NEW i \in InUse, NEW j \in InUse
        PROVE  <<i, j>> \in older' <=> cacheAge'[i] < cacheAge'[j]
    <3>1. <<i, j>> \in older <=> cacheAge[i] < cacheAge[j]
      BY DEF AgesAreInOrder
    <3>2. <<i, j>> \in older' <=> \/ <<i, j>> \in older /\ (i \in hits => j \in hits)
                                  \/ i \notin hits /\ j \in hits
      BY DEF MadeRecent
    <3> QED BY <1>6, <3>1, <3>2
  <2> QED BY <2>1, <2>2
<1> QED BY <1>3, <1>4, <1>5, <1>6, <1>7

\* Steps that leave the cache as it is.
LEMMA CacheUntouched ==
  ASSUME AgeInv, UNCHANGED cache,
         \A t \in Threads : pc'[t] = "load" => pc[t] = "load" /\ victim'[t] = victim[t]
  PROVE  AgeInv'
<1>1. InUse' = InUse /\ cacheAge' = cacheAge /\ older' = older
  BY DEF InUse, cache
<1>2. AgesAreInOrder'
  BY <1>1 DEF AgeInv, AgesAreInOrder
<1>3. EvictsLeastRecent'
  BY <1>1 DEF AgeInv, EvictsLeastRecent
<1> QED BY <1>2, <1>3 DEF AgeInv

\* When one thread has the lock and leaves the loading, no other loads.
LEMMA NoneLoads ==
  ASSUME IInv, NEW t \in Threads, pc[t] \in LockedPcs, NEW p, p # "load",
         pc' = [pc EXCEPT ![t] = p]
  PROVE  \A u \in Threads : pc'[u] # "load"
<1>1. ASSUME NEW u \in Threads PROVE pc'[u] # "load"
  <2>1. pc'[u] = IF u = t THEN p ELSE pc[u]
    BY DEF IInv, TypeOK
  <2>2. u # t => pc[u] # "load"
    BY RequestUnderLock DEF LockedPcs
  <2> QED BY <2>1, <2>2
<1> QED BY <1>1

LEMMA HitAges ==
  ASSUME 0 \notin Lengths, IInv, AgeInv, NEW t \in Threads, Hit(t) PROVE AgeInv'
<1> DEFINE hits == Useful(request[t])
<1>1. /\ pc[t] = "lookup" /\ pc' = [pc EXCEPT ![t] = "release"]
      /\ cacheAge' = AgesAfter(hits) /\ older' = MadeRecent(hits) /\ cacheLen' = cacheLen
  BY DEF Hit
<1>2. hits \subseteq InUse /\ \A i, j \in hits : i = j
  BY <1>1, OneIsUseful
<1>3. \A u \in Threads : pc'[u] # "load"
  BY <1>1, NoneLoads DEF LockedPcs
<1> HIDE DEF hits
<1>4. /\ InUse' = InUse
      /\ older' = {p \in InUse \X InUse : cacheAge'[p[1]] < cacheAge'[p[2]]}
      /\ \A i, j \in InUse : i # j => cacheAge'[i] # cacheAge'[j]
      /\ \A i \in InUse : cacheAge'[i] <= CacheAge
  BY <1>1, <1>2, AgingKeepsOrder DEF IInv, AgeInv
<1>5. AgesAreInOrder'
  BY <1>3, <1>4 DEF AgesAreInOrder
<1> QED BY <1>3, <1>5 DEF AgeInv, EvictsLeastRecent

LEMMA MissAges ==
  ASSUME 0 \notin Lengths, IInv, AgeInv, NEW t \in Threads, Miss(t) PROVE AgeInv'
<1> DEFINE hits == Useful(request[t])
<1>1. /\ pc[t] = "lookup" /\ pc' = [pc EXCEPT ![t] = "load"]
      /\ cacheAge' = AgesAfter(hits) /\ older' = MadeRecent(hits) /\ cacheLen' = cacheLen
  BY DEF Miss
<1>2. Cut(request[t]) > 0 /\ hits = {}
  <2>1. Cut(request[t]) > 0
    BY <1>1, OneIsUseful
  <2>2. Cut(request[t]) \in Nat
    BY <1>1, RequestUnderLock DEF LockedPcs
  <2> QED BY <2>1, <2>2 DEF Miss
<1>3. PICK i \in Slots : IsCacheNext(i, hits) /\ victim' = [victim EXCEPT ![t] = i]
  BY DEF Miss
<1> HIDE DEF hits
<1>4. /\ InUse' = InUse
      /\ older' = {p \in InUse \X InUse : cacheAge'[p[1]] < cacheAge'[p[2]]}
      /\ \A k, j \in InUse : k # j => cacheAge'[k] # cacheAge'[j]
      /\ \A k \in InUse : cacheAge'[k] <= CacheAge
      /\ \A k \in InUse : k \notin hits => cacheAge'[k] < CacheAge
  BY <1>1, <1>2, AgingKeepsOrder DEF IInv, AgeInv
<1>5. AgesAreInOrder'
  BY <1>2, <1>4 DEF AgesAreInOrder
<1>6. ASSUME NEW u \in Threads, pc'[u] = "load" PROVE u = t /\ victim'[u] = i
  <2>1. u # t => pc'[u] = pc[u] /\ pc[u] # "load"
    BY <1>1, RequestUnderLock DEF LockedPcs, IInv, TypeOK
  <2>2. u = t
    BY <1>6, <2>1
  <2> QED BY <1>3, <2>2 DEF IInv, TypeOK
<1>7. CASE InUse = Slots
  <2>1. ~\E j \in Slots : cacheLen[j] = 0
    BY <1>7 DEF InUse
  <2>2. \A j \in Slots : cacheAge'[i] < cacheAge'[j] \/ (cacheAge'[i] = cacheAge'[j] /\ i <= j)
    BY <1>1, <1>2, <1>3, <2>1 DEF IsCacheNext
  <2>3. \A j \in Slots \ {i} : cacheAge'[i] < cacheAge'[j]
    BY <1>3, <1>4, <1>7, <2>2
  <2>4. \A j \in Slots \ {i} : <<i, j>> \in older'
    BY <1>3, <1>4, <1>7, <2>3
  <2> QED BY <1>4, <1>5, <1>6, <1>7, <2>4 DEF AgeInv, EvictsLeastRecent
<1>8. CASE InUse # Slots
  <2>1. \E j \in Slots : cacheLen[j] = 0
    BY <1>8 DEF InUse, IInv, TypeOK
  <2>2. cacheLen[i] = 0
    BY <1>3, <2>1 DEF IsCacheNext
  <2>3. i \notin InUse
    BY <2>2 DEF InUse
  <2> QED BY <1>4, <1>5, <1>6, <1>8, <2>3 DEF AgeInv, EvictsLeastRecent
<1> QED BY <1>7, <1>8

LEMMA LoadAges == ASSUME IInv, AgeInv, NEW t \in Threads, Load(t) PROVE AgeInv'
<1> DEFINE i == victim[t]
<1>1. /\ pc[t] = "load" /\ pc' = [pc EXCEPT ![t] = "release"]
      /\ cacheAge' = [cacheAge EXCEPT ![i] = CacheAge]
      /\ older' = Without(i) \cup ((InUse \ {i}) \X {i})
  BY DEF Load
<1>2. i \in Slots
  BY DEF IInv, TypeOK
<1>3. PICK n : n > 0 /\ cacheLen' = [cacheLen EXCEPT ![i] = n]
  BY DEF Load, Usable
<1>4. \A u \in Threads : pc'[u] # "load"
  BY <1>1, NoneLoads DEF LockedPcs
<1> HIDE DEF i
<1>5. InUse' = InUse \cup {i}
  BY <1>2, <1>3 DEF InUse, IInv, TypeOK
<1>6. /\ \A j \in InUse : cacheAge[j] \in Int /\ cacheAge[j] < CacheAge
      /\ \A j, k \in InUse : j # k => cacheAge[j] # cacheAge[k]
      /\ CacheAge \in Nat /\ InUse \subseteq Slots
  BY <1>1, AgesTypes DEF AgeInv, AgesAreInOrder, IInv
<1>7. /\ \A j \in InUse : j # i => cacheAge'[j] = cacheAge[j]
      /\ cacheAge'[i] = CacheAge
  BY <1>1, <1>2, <1>6 DEF IInv, TypeOK
<1>8. \A j, k \in InUse \cup {i} : j # k => cacheAge'[j] # cacheAge'[k]
  BY <1>6, <1>7
<1>9. \A j \in InUse \cup {i} : cacheAge'[j] <= CacheAge
  BY <1>6, <1>7
<1>10. older' = {p \in (InUse \cup {i}) \X (InUse \cup {i}) : cacheAge'[p[1]] < cacheAge'[p[2]]}
  <2>1. older' \subseteq (InUse \cup {i}) \X (InUse \cup {i})
    BY <1>1 DEF Without, AgeInv, AgesAreInOrder
  <2>2. ASSUME NEW j \in InUse \cup {i}, NEW k \in InUse \cup {i}
        PROVE  <<j, k>> \in older' <=> cacheAge'[j] < cacheAge'[k]
    <3>1. <<j, k>> \in older' <=> \/ <<j, k>> \in older /\ j # i /\ k # i
                                  \/ j # i /\ k = i
      BY <1>1 DEF Without
    <3>2. j # i /\ k # i => (<<j, k>> \in older <=> cacheAge[j] < cacheAge[k])
      BY DEF AgeInv, AgesAreInOrder
    <3>3. CASE j = i
      BY <1>6, <1>7, <3>1, <3>3
    <3>4. CASE j # i /\ k = i
      BY <1>6, <1>7, <3>1, <3>4
    <3>5. CASE j # i /\ k # i
      BY <1>7, <3>1, <3>2, <3>5
    <3> QED BY <3>3, <3>4, <3>5
  <2> QED BY <2>1, <2>2
<1>11. AgesAreInOrder'
  BY <1>4, <1>5, <1>8, <1>9, <1>10 DEF AgesAreInOrder
<1> QED BY <1>4, <1>11 DEF AgeInv, EvictsLeastRecent

LEMMA LoadFailsAges == ASSUME IInv, AgeInv, NEW t \in Threads, LoadFails(t) PROVE AgeInv'
<1> DEFINE i == victim[t]
<1>1. /\ pc[t] = "load" /\ pc' = [pc EXCEPT ![t] = "nocache"]
      /\ cacheAge' = [cacheAge EXCEPT ![i] = 0] /\ cacheLen' = [cacheLen EXCEPT ![i] = 0]
      /\ older' = Without(i)
  BY DEF LoadFails, GiveUp
<1>2. i \in Slots
  BY DEF IInv, TypeOK
<1>3. \A u \in Threads : pc'[u] # "load"
  BY <1>1, NoneLoads DEF LockedPcs
<1> HIDE DEF i
<1>4. InUse' = InUse \ {i}
  BY <1>1, <1>2 DEF InUse, IInv, TypeOK
<1>5. \A j \in InUse \ {i} : cacheAge'[j] = cacheAge[j]
  BY <1>1, AgesTypes DEF IInv
<1>6. older' = {p \in (InUse \ {i}) \X (InUse \ {i}) : cacheAge'[p[1]] < cacheAge'[p[2]]}
  <2>1. older' = {p \in (InUse \ {i}) \X (InUse \ {i}) : cacheAge[p[1]] < cacheAge[p[2]]}
    BY <1>1 DEF Without, AgeInv, AgesAreInOrder
  <2> QED BY <1>5, <2>1
<1>7. AgesAreInOrder'
  BY <1>3, <1>4, <1>5, <1>6 DEF AgesAreInOrder, AgeInv
<1> QED BY <1>3, <1>7 DEF AgeInv, EvictsLeastRecent

LEMMA ClearCacheAges == ASSUME IInv, ClearCache PROVE AgeInv'
<1>1. \A t \in Threads : pc'[t] # "load"
  BY NoThreadAssumption DEF IInv, CacheLockHeld, ClearCache, LockedPcs
<1>2. InUse' = {} /\ older' = {}
  BY DEF InUse, ClearCache
<1> QED BY <1>1, <1>2 DEF AgeInv, AgesAreInOrder, EvictsLeastRecent

LEMMA AgeStep ==
  ASSUME 0 \notin Lengths, IInv, AgeInv, [Next]_vars PROVE AgeInv'
<1>1. ASSUME NEW t \in Threads, Begin(t) \/ Refuse(t) \/ TakeLock(t) \/ SkipCache(t)
                                 \/ NoCache(t) \/ ReleaseLock(t)
      PROVE  AgeInv'
  <2>1. UNCHANGED cache
    BY <1>1 DEF Begin, Refuse, TakeLock, SkipCache, NoCache, ReleaseLock
  <2>2. ASSUME NEW u \in Threads, pc'[u] = "load" PROVE pc[u] = "load" /\ victim'[u] = victim[u]
    BY <1>1, <2>2 DEF Begin, Refuse, TakeLock, SkipCache, NoCache, ReleaseLock, IInv, TypeOK
  <2> QED BY <2>1, <2>2, CacheUntouched
<1>2. ASSUME NEW t \in Threads, Hit(t) \/ Miss(t) \/ Load(t) \/ LoadFails(t) PROVE AgeInv'
  BY <1>2, HitAges, MissAges, LoadAges, LoadFailsAges
<1>3. CASE ClearCache
  BY <1>3, ClearCacheAges
<1>4. CASE UNCHANGED vars
  <2>1. UNCHANGED cache /\ pc' = pc /\ victim' = victim
    BY <1>4 DEF vars, cache
  <2> QED BY <2>1, CacheUntouched
<1> QED BY <1>1, <1>2, <1>3, <1>4 DEF Next, InLock

\* When no read is for nothing, counting ages down from CACHE_AGE finds the
\* slot that has not been useful for longest, however many slots there are and
\* however low the ages get.
THEOREM LeastRecentGoes == ASSUME 0 \notin Lengths PROVE Spec => []EvictsLeastRecent
<1>1. Init => AgeInv
  <2> SUFFICES ASSUME Init PROVE AgeInv
    OBVIOUS
  <2>1. InUse = {} /\ older = {} /\ \A t \in Threads : pc[t] # "load"
    BY DEF Init, InUse
  <2> QED BY <2>1 DEF AgeInv, AgesAreInOrder, EvictsLeastRecent
<1>2. IInv /\ AgeInv /\ [Next]_vars => AgeInv'
  BY AgeStep
<1>3. AgeInv => EvictsLeastRecent
  BY DEF AgeInv
<1>4. Spec => []IInv
  BY InductiveInvariant
<1> QED BY <1>1, <1>2, <1>3, <1>4, PTL DEF Spec
=============================================================================
