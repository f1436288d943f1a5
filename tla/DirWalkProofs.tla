---------------------------- MODULE DirWalkProofs ----------------------------
(***************************************************************************)
(* Directory walks keep their structures well-formed, implement            *)
(* OrphanFiles, and show a user all names that can be reached, for any     *)
(* tree of names, any damage, any number of threads, and whatever the      *)
(* callbacks return.                                                       *)
(*                                                                         *)
(* The argument has five layers. A tsk_list is a set of numbers, also      *)
(* where a bucket reaches 0. A step of a thread replaces, pushes or pops   *)
(* the job on top of its stack; the moves Skips, Enters, Opens and Leaves  *)
(* say what a walk is after it. TypeInv relates the jobs of a stack: a     *)
(* search for orphans is below no other than the walks it makes, so that   *)
(* the stack is never deeper than a walk, a search and a nested walk.      *)
(* SoundInv says what the jobs have found out: what a walk has collected,  *)
(* which names it still has to meet, and which deleted files a search has  *)
(* dealt with. FailInv says that a search or one of its walks fails only   *)
(* on an image that makes it fail, and ShowsInv what the walk of a user    *)
(* has called its callback for, up to the name it is at.                   *)
(***************************************************************************)
EXTENDS DirWalkInvariants, SequenceTheorems, FiniteSetTheorems, WellFoundedInduction, TLAPS

-----------------------------------------------------------------------------
(* Numbers, and the order in which a directory is gone through *)

\* What holds of 0, and of n + 1 where it holds of n, holds up to m.
LEMMA CountingUp ==
  ASSUME NEW m \in Nat, NEW T, 0 \in T, \A n \in 0..(m - 1) : n \in T => n + 1 \in T
  PROVE  \A n \in 0..m : n \in T
<1> DEFINE R == OpToRel(<, Nat)   Bad == {n \in 0..m : n \notin T}
<1> SUFFICES ASSUME Bad # {} PROVE FALSE
  OBVIOUS
<1>1. IsWellFoundedOn(R, Nat)
  BY NatLessThanWellFounded, Zenon
<1>2. \A x, y \in Nat : x < y => <<x, y>> \in R
  BY Zenon DEF OpToRel
<1>3. Bad \subseteq Nat /\ \A n \in Bad : n - 1 \in Bad
  OBVIOUS
<1> HIDE DEF R, Bad
<1>4. PICK n \in Bad : \A k \in Bad : <<k, n>> \notin R
  BY <1>1, <1>3, WFMin
<1>5. n \in Nat /\ n - 1 \in Bad /\ n - 1 \in Nat
  BY <1>3
<1>6. <<n - 1, n>> \in R
  BY <1>2, <1>5
<1> QED BY <1>4, <1>5, <1>6

\* A directory in the order of its scores holds the names that it held.
LEMMA PrioritizedNames ==
  ASSUME NEW s \in Seq(NameSet)
  PROVE  /\ PrioritizeDirNames(s) \in Seq(NameSet)
         /\ ToSet(PrioritizeDirNames(s)) = ToSet(s)
<1> DEFINE D == 1..Len(s)
           B(i, j) == s[i].score < s[j].score \/ (s[i].score = s[j].score /\ i < j)
           R(j) == {i \in D : B(i, j)}
           rank == [j \in D |-> Cardinality(R(j)) + 1]
           p == PrioritizeDirNames(s)
<1>1. Len(s) \in Nat /\ DOMAIN s = D /\ \A j \in D : s[j] \in NameSet /\ s[j].score \in 0..3
  <2>1. \A e \in NameSet : e.score \in 0..3
    BY DEF NameSet
  <2> QED BY <2>1, LenProperties, ElementOfSeq
<1>2. \A k \in D : p[k] = s[CHOOSE j \in D : rank[j] = k]
  BY <1>1 DEF PrioritizeDirNames
<1>3. p = [k \in D |-> p[k]]
  BY <1>1 DEF PrioritizeDirNames
<1>4. IsFiniteSet(D) /\ Cardinality(D) = Len(s)
  <2> DEFINE n == Len(s)
  <2>1. n \in Nat /\ D = 1..n
    BY <1>1
  <2> HIDE DEF n, D
  <2>2. IsFiniteSet(1..n) /\ Cardinality(1..n) = IF 1 > n THEN 0 ELSE n - 1 + 1
    BY <2>1, FS_Interval
  <2>3. (IF 1 > n THEN 0 ELSE n - 1 + 1) = n
    BY <2>1
  <2> QED BY <2>1, <2>2, <2>3 DEF n
<1>5. \A j \in D : R(j) \subseteq D \ {j}
  BY <1>1
<1>6. \A i, j \in D : i # j => B(i, j) \/ B(j, i)
  BY <1>1
<1>7. \A i, j, k \in D : B(i, j) /\ B(j, k) => B(i, k)
  BY <1>1
<1> HIDE DEF B, p
<1>8. ASSUME NEW j \in D PROVE IsFiniteSet(R(j)) /\ Cardinality(R(j)) \in 0..(Len(s) - 1)
  <2>1. IsFiniteSet(D \ {j}) /\ Cardinality(D \ {j}) = Len(s) - 1
    BY <1>4, FS_RemoveElement
  <2> HIDE DEF D, R
  <2>2. IsFiniteSet(R(j)) /\ Cardinality(R(j)) <= Len(s) - 1
    BY <2>1, <1>5, FS_Subset
  <2> QED BY <2>2, <1>1, FS_CardinalityType
<1>9. ASSUME NEW i \in D, NEW j \in D, B(i, j) PROVE rank[i] < rank[j]
  <2>1. R(i) \subseteq R(j) /\ i \in R(j) /\ i \notin R(i)
    BY <1>5, <1>7, <1>9
  <2> HIDE DEF D, R
  <2>2. Cardinality(R(i)) <= Cardinality(R(j)) /\ Cardinality(R(i)) # Cardinality(R(j))
    BY <2>1, <1>8, FS_Subset
  <2> QED BY <2>2, <1>8
<1> HIDE DEF R
<1>10. rank \in [D -> D]
  BY <1>8, <1>1
<1>11. \A i, j \in D : rank[i] = rank[j] => i = j
  BY <1>6, <1>9, <1>10
<1>12. rank \in Surjection(D, D)
  <2>1. rank \in Injection(D, D)
    BY <1>10, <1>11 DEF Injection, IsInjective
  <2> HIDE DEF rank, D
  <2> QED BY <2>1, <1>4, FS_Injection
<1> HIDE DEF rank
<1>13. \A k \in D : \E j \in D : rank[j] = k
  BY <1>12 DEF Surjection
<1>14. \A k \in D : \E j \in D : rank[j] = k /\ p[k] = s[j]
  BY <1>13, <1>2
<1>15. \A j \in D : rank[j] \in D /\ p[rank[j]] = s[j]
  BY <1>10, <1>11, <1>14
<1>16. DOMAIN p = D /\ Len(p) = Len(s) /\ p \in Seq(NameSet)
  BY <1>1, <1>3, <1>14
<1>17. ToSet(p) = {p[k] : k \in D} /\ ToSet(s) = {s[k] : k \in D}
  BY <1>1, <1>16 DEF ToSet
<1>18. ToSet(p) = ToSet(s)
  <2>1. ASSUME NEW e \in ToSet(p) PROVE e \in ToSet(s)
    BY <2>1, <1>14, <1>17
  <2>2. ASSUME NEW e \in ToSet(s) PROVE e \in ToSet(p)
    <3>1. PICK j \in D : e = s[j]
      BY <2>2, <1>17
    <3> QED BY <3>1, <1>15, <1>17
  <2> QED BY <2>1, <2>2
<1> QED BY <1>16, <1>18 DEF p

-----------------------------------------------------------------------------
(* tsk_list *)

LEMMA ListFacts ==
  ASSUME NEW l \in Lists
  PROVE  /\ Len(l) \in Nat /\ DOMAIN l = 1..Len(l) /\ l \in Seq(Buckets)
         /\ \A i \in 1..Len(l) : /\ l[i] \in Buckets
                                 /\ l[i].key \in 0..MaxKey /\ l[i].len \in Nat
                                 /\ 1 <= l[i].len /\ l[i].len <= l[i].key + 1
         /\ \A i, j \in 1..Len(l) : i < j => l[j].key < l[i].key
         /\ l = Empty <=> Len(l) = 0
<1>1. l \in Seq(Buckets) /\ Len(l) \in Nat /\ DOMAIN l = 1..Len(l)
  BY LenProperties DEF Lists
<1>2. \A i \in 1..Len(l) : l[i] \in Buckets
  BY <1>1, ElementOfSeq
<1>3. l = Empty <=> Len(l) = 0
  BY <1>1, EmptySeq DEF Empty
<1> QED BY <1>1, <1>2, <1>3, MaxKeyAssumption DEF Lists, Buckets

\* A list has a key just if it is in one of the buckets: the search gives up
\* only behind it.
LEMMA FindIsMember ==
  ASSUME NEW l \in Lists, NEW k \in Int
  PROVE  Find(l, k) <=> k \in Elements(l)
<1>1. \A i \in 1..Len(l) : k \in Covered(l[i]) => k <= l[i].key
  BY ListFacts DEF Covered
<1>2. ASSUME NEW i \in 1..Len(l), k \in Covered(l[i])
      PROVE  \A j \in 1..i - 1 : k <= l[j].key
  BY <1>1, <1>2, ListFacts
<1> QED BY <1>2, ListFacts DEF Find, Elements

LEMMA ElementsAreKeys ==
  ASSUME NEW l \in Lists
  PROVE  Elements(l) \subseteq 0..MaxKey /\ (Elements(l) = {} <=> l = Empty)
<1>1. \A i \in 1..Len(l) : Covered(l[i]) \subseteq 0..MaxKey /\ l[i].key \in Covered(l[i])
  <2> TAKE i \in 1..Len(l)
  <2>1. l[i].key \in 0..MaxKey /\ l[i].len \in Nat /\ 1 <= l[i].len /\ l[i].len <= l[i].key + 1
    BY ListFacts
  <2> QED BY <2>1, MaxKeyAssumption DEF Covered
<1>2. Elements(l) = UNION {Covered(l[i]) : i \in 1..Len(l)}
  BY ListFacts DEF Elements
<1>3. CASE l = Empty
  BY <1>1, <1>2, <1>3, ListFacts
<1>4. CASE l # Empty
  <2>1. 1 \in 1..Len(l)
    BY <1>4, ListFacts
  <2> QED BY <2>1, <1>1, <1>2, <1>4
<1> QED BY <1>3, <1>4

\* The bucket at which the loop of tsk_list_add ends is there.
LEMMA PlaceExists ==
  ASSUME NEW l \in Lists, l # Empty, NEW k \in Int
  PROVE  /\ Place(l, k) \in 1..Len(l)
         /\ EndsLoop(l, k, Place(l, k))
         /\ \A j \in 1..Place(l, k) - 1 : ~EndsLoop(l, k, j)
<1> DEFINE T == {i \in 1..Len(l) : EndsLoop(l, k, i)}
<1>1. Len(l) \in T /\ T \subseteq Nat
  BY ListFacts DEF EndsLoop
<1> DEFINE R == OpToRel(<, Nat)
<1>2. IsWellFoundedOn(R, Nat)
  BY NatLessThanWellFounded, Zenon
<1>3. \A x, y \in Nat : x < y => <<x, y>> \in R
  BY Zenon DEF OpToRel
<1> HIDE DEF T, R
<1>4. PICK i \in T : \A j \in T : <<j, i>> \notin R
  BY <1>1, <1>2, WFMin
<1>5. i \in 1..Len(l) /\ EndsLoop(l, k, i)
  BY <1>4 DEF T
<1>6. \A j \in 1..i - 1 : ~EndsLoop(l, k, j)
  <2> TAKE j \in 1..i - 1
  <2>1. j \in 1..Len(l) /\ j \in Nat /\ i \in Nat /\ j < i
    BY <1>5, ListFacts
  <2> QED BY <2>1, <1>3, <1>4 DEF T
<1>7. \E m \in DOMAIN l : EndsLoop(l, k, m) /\ \A j \in 1..m - 1 : ~EndsLoop(l, k, j)
  BY <1>5, <1>6, ListFacts
<1> HIDE DEF EndsLoop
<1> QED BY <1>7, ListFacts, Zenon DEF Place

LEMMA GrownGives ==
  ASSUME NEW l \in Lists, NEW i \in 1..Len(l), NEW up \in BOOLEAN,
         up => l[i].key < MaxKey /\ \A j \in 1..i - 1 : l[i].key + 1 < l[j].key,
         ~up => l[i].len <= l[i].key
  PROVE  /\ Grown(l, i, up) \in Lists /\ Grown(l, i, up) # Empty
         /\ Elements(Grown(l, i, up)) =
              Elements(l) \union {IF up THEN l[i].key + 1 ELSE l[i].key - l[i].len}
<1> DEFINE g == Grown(l, i, up)
           b == [key |-> l[i].key + (IF up THEN 1 ELSE 0), len |-> l[i].len + 1]
           k == IF up THEN l[i].key + 1 ELSE l[i].key - l[i].len
<1>1. /\ l[i] \in Buckets /\ l[i].key \in 0..MaxKey /\ l[i].len \in Nat /\ 1 <= l[i].len
      /\ l[i].len <= l[i].key + 1 /\ Len(l) \in Nat /\ l \in Seq(Buckets) /\ DOMAIN l = 1..Len(l)
  BY ListFacts
<1>2. b \in Buckets /\ b.len <= b.key + 1 /\ l[i].key <= b.key
  <2> DEFINE x == l[i].key
             y == l[i].len
             d == IF up THEN 1 ELSE 0
  <2>1. x \in 0..MaxKey /\ y \in Nat /\ 1 <= y /\ y <= x + 1 /\ MaxKey \in Nat
        /\ (up => x < MaxKey) /\ (~up => y <= x) /\ d \in {0, 1} /\ (d = 1 => up) /\ (d = 0 => ~up)
    BY <1>1, MaxKeyAssumption
  <2>2. b = [key |-> x + d, len |-> y + 1]
    OBVIOUS
  <2> HIDE DEF x, y, d, b
  <2>3. x + d \in 0..MaxKey /\ y + 1 \in 1..MaxKey + 1 /\ y + 1 <= (x + d) + 1 /\ x <= x + d
    BY <2>1
  <2> QED BY <2>2, <2>3 DEF Buckets, x
<1>3. g = [l EXCEPT ![i] = b]
  <2>1. [l[i] EXCEPT !.key = @ + (IF up THEN 1 ELSE 0), !.len = @ + 1] = b
    <3> DEFINE S == [key : Int, len : Int]
               d == IF up THEN 1 ELSE 0
               r == l[i]
               q == [r EXCEPT !.key = @ + d, !.len = @ + 1]
    <3>1. r \in S /\ b = [key |-> r.key + d, len |-> r.len + 1] /\ d \in Int
      BY <1>1, MaxKeyAssumption DEF Buckets, b
    <3> HIDE DEF d, r, b
    <3>2. r.key + d \in Int /\ r.len + 1 \in Int
      BY <3>1
    <3>3. q \in S /\ q.key = r.key + d /\ q.len = r.len + 1
      BY <3>1, <3>2
    <3>4. b \in S /\ b.key = r.key + d /\ b.len = r.len + 1
      BY <3>1, <3>2
    <3> HIDE DEF q
    <3>5. q = b
      BY <3>3, <3>4
    <3> QED BY <3>5 DEF q, d, r
  <2> HIDE DEF b
  <2> QED BY <2>1, <1>1 DEF Grown
<1> HIDE DEF b
<1>4. g \in Seq(Buckets) /\ Len(g) = Len(l) /\ DOMAIN g = 1..Len(l)
      /\ \A j \in 1..Len(l) : g[j] = IF j = i THEN b ELSE l[j]
  BY <1>1, <1>2, <1>3, ExceptSeq
<1> HIDE DEF g
<1>5. g \in Lists
  <2>1. \A j \in 1..Len(g) : g[j].len <= g[j].key + 1
    BY <1>2, <1>4, ListFacts
  <2>2. ASSUME NEW j \in 1..Len(g), NEW m \in 1..Len(g), j < m PROVE g[m].key < g[j].key
    <3>0. j \in 1..Len(l) /\ m \in 1..Len(l)
      BY <1>4
    <3>1. l[m].key < l[j].key /\ l[i].key <= b.key /\ b.key \in Int /\ l[j].key \in Int /\ l[m].key \in Int
      <4>1. b.key \in 0..MaxKey /\ 0..MaxKey \subseteq Int
        BY <1>2, MaxKeyAssumption DEF Buckets
      <4>2. l[m].key < l[j].key /\ l[j].key \in 0..MaxKey /\ l[m].key \in 0..MaxKey
        BY <2>2, <3>0, ListFacts
      <4> QED BY <4>1, <4>2, <1>2
    <3>2. CASE j = i
      BY <3>1, <3>2, <2>2, <1>4
    <3>3. CASE m = i
      <4>1. b.key = l[i].key \/ (up /\ b.key = l[i].key + 1 /\ l[i].key + 1 < l[j].key)
        BY <3>3, <2>2, <1>1 DEF b
      <4> QED BY <4>1, <3>1, <3>3, <2>2, <1>4
    <3> QED BY <3>1, <3>2, <3>3, <1>4
  <2> QED BY <2>1, <2>2, <1>4 DEF Lists
<1>6. Covered(b) = Covered(l[i]) \union {k}
  <2>1. PICK x \in 0..MaxKey, y \in 1..MaxKey + 1 : l[i].key = x /\ l[i].len = y
    BY <1>1 DEF Buckets
  <2>2. x \in Int /\ y \in Int
    BY <2>1, MaxKeyAssumption
  <2>3. CASE up
    <3>1. b.key = x + 1 /\ b.len = y + 1 /\ k = x + 1
      BY <2>1, <2>3 DEF b
    <3>2. (x + 1) + 1 - (y + 1) .. x + 1 = (x + 1 - y .. x) \union {x + 1}
      BY <2>1, <2>2
    <3> QED BY <3>1, <3>2, <2>1 DEF Covered
  <2>4. CASE ~up
    <3>1. b.key = x /\ b.len = y + 1 /\ k = x - y
      BY <2>1, <2>2, <2>4 DEF b
    <3>2. x + 1 - (y + 1) .. x = (x + 1 - y .. x) \union {x - y}
      BY <2>1, <2>2
    <3> QED BY <3>1, <3>2, <2>1 DEF Covered
  <2> QED BY <2>3, <2>4
<1>7. Elements(g) = Elements(l) \union {k}
  <2>1. Elements(g) = UNION {Covered(g[j]) : j \in 1..Len(l)}
        /\ Elements(l) = UNION {Covered(l[j]) : j \in 1..Len(l)}
    BY <1>1, <1>4 DEF Elements
  <2> HIDE DEF Covered, k
  <2>2. ASSUME NEW x \in Elements(g) PROVE x \in Elements(l) \union {k}
    BY <2>1, <2>2, <1>4, <1>6
  <2>3. ASSUME NEW x \in Elements(l) \union {k} PROVE x \in Elements(g)
    BY <2>1, <2>3, <1>4, <1>6
  <2> QED BY <2>2, <2>3
<1>8. g # Empty
  BY <1>4, <1>1 DEF Empty
<1> QED BY <1>5, <1>7, <1>8 DEF g

LEMMA InsertedGives ==
  ASSUME NEW l \in Lists, NEW k \in 0..MaxKey, NEW i \in 0..Len(l),
         \A j \in 1..i : k < l[j].key, \A j \in i + 1..Len(l) : l[j].key < k
  PROVE  /\ InsertedAfter(l, i, k) \in Lists /\ InsertedAfter(l, i, k) # Empty
         /\ Elements(InsertedAfter(l, i, k)) = Elements(l) \union {k}
<1> DEFINE n == Len(l)
           g == InsertedAfter(l, i, k)
           b == Bucket(k)
<1>1. n \in Nat /\ l \in Seq(Buckets) /\ DOMAIN l = 1..n /\ i \in Nat /\ i <= n
      /\ \A j \in 1..n : l[j] \in Buckets
  BY ListFacts
<1>2. b \in Buckets /\ b.key = k /\ b.len = 1 /\ b.len <= b.key + 1 /\ Covered(b) = {k}
  BY MaxKeyAssumption DEF Bucket, Buckets, Covered
<1> HIDE DEF b
<1>3. /\ SubSeq(l, 1, i) \in Seq(Buckets) /\ Len(SubSeq(l, 1, i)) = i
      /\ \A j \in 1..i : SubSeq(l, 1, i)[j] = l[j]
  BY <1>1, SubSeqProperties
<1>4. /\ SubSeq(l, i + 1, n) \in Seq(Buckets) /\ Len(SubSeq(l, i + 1, n)) = n - i
      /\ \A j \in 1..n - i : SubSeq(l, i + 1, n)[j] = l[i + j]
  <2>1. i + 1 \in 1..n + 1 /\ n - (i + 1) + 1 = n - i
    BY <1>1
  <2>2. \A j \in 1..n - i : (i + 1) + j - 1 = i + j
    BY <1>1
  <2>3. /\ SubSeq(l, i + 1, n) \in Seq(Buckets) /\ Len(SubSeq(l, i + 1, n)) = n - (i + 1) + 1
        /\ \A j \in 1..n - (i + 1) + 1 : SubSeq(l, i + 1, n)[j] = l[(i + 1) + j - 1]
    <3> HIDE DEF n
    <3>1. i + 1 \in 1..n + 1 /\ n \in (i + 1) - 1..Len(l)
      BY <1>1 DEF n
    <3>2. i + 1 <= n + 1 /\ i + 1 \in 1..Len(l) + 1
      BY <1>1 DEF n
    <3> QED BY <3>1, <3>2, <1>1, SubSeqProperties
  <2> QED BY <2>1, <2>2, <2>3
<1>5. <<b>> \in Seq(Buckets) /\ Len(<<b>>) = 1 /\ <<b>>[1] = b
  BY <1>2
<1> HIDE DEF n
<1>6. /\ SubSeq(l, 1, i) \o <<b>> \in Seq(Buckets) /\ Len(SubSeq(l, 1, i) \o <<b>>) = i + 1
      /\ \A j \in 1..i + 1 : (SubSeq(l, 1, i) \o <<b>>)[j] = IF j <= i THEN l[j] ELSE b
  BY <1>1, <1>3, <1>5, ConcatProperties
<1>7. g = (SubSeq(l, 1, i) \o <<b>>) \o SubSeq(l, i + 1, n)
  BY DEF InsertedAfter, n, b
<1>8. /\ g \in Seq(Buckets) /\ Len(g) = n + 1
      /\ \A j \in 1..n + 1 : g[j] = IF j <= i THEN l[j] ELSE IF j = i + 1 THEN b ELSE l[j - 1]
  <2> DEFINE s == SubSeq(l, 1, i) \o <<b>>
             r == SubSeq(l, i + 1, n)
  <2>1. /\ s \in Seq(Buckets) /\ Len(s) = i + 1 /\ r \in Seq(Buckets) /\ Len(r) = n - i /\ g = s \o r
        /\ \A j \in 1..i + 1 : s[j] = IF j <= i THEN l[j] ELSE b
        /\ \A j \in 1..n - i : r[j] = l[i + j]
    BY <1>4, <1>6, <1>7 DEF n
  <2> HIDE DEF s, r, g
  <2>2. /\ s \o r \in Seq(Buckets) /\ Len(s \o r) = n + 1
        /\ \A j \in 1..n + 1 : (s \o r)[j] = IF j <= i + 1 THEN s[j] ELSE r[j - (i + 1)]
    <3>1. \A j \in 1..Len(s) + Len(r) : (s \o r)[j] = IF j <= Len(s) THEN s[j] ELSE r[j - Len(s)]
      BY <2>1, ConcatProperties
    <3>2. s \o r \in Seq(Buckets) /\ Len(s \o r) = Len(s) + Len(r)
      BY <2>1, ConcatProperties
    <3>3. Len(s) + Len(r) = n + 1
      BY <2>1, <1>1 DEF n
    <3> QED BY <3>1, <3>2, <3>3, <2>1
  <2>3. \A j \in 1..n + 1 : j > i + 1 => j - (i + 1) \in 1..n - i /\ i + (j - (i + 1)) = j - 1
    <3> TAKE j \in 1..n + 1
    <3> QED BY <1>1
  <2>4. \A j \in 1..n + 1 : j <= i + 1 => j \in 1..i + 1 /\ (j > i => j = i + 1)
    BY <1>1 DEF n
  <2>5. ASSUME NEW j \in 1..n + 1
        PROVE  g[j] = IF j <= i THEN l[j] ELSE IF j = i + 1 THEN b ELSE l[j - 1]
    <3>1. CASE j <= i + 1
      BY <3>1, <2>1, <2>2, <2>4, <1>1
    <3>2. CASE j > i + 1
      <4>1. j - (i + 1) \in 1..n - i /\ i + (j - (i + 1)) = j - 1 /\ ~(j <= i + 1) /\ ~(j <= i) /\ j # i + 1
        BY <3>2, <2>3, <1>1
      <4>2. g[j] = r[j - (i + 1)] /\ r[j - (i + 1)] = l[i + (j - (i + 1))]
        BY <4>1, <2>1, <2>2
      <4> QED BY <4>1, <4>2
    <3> QED BY <3>1, <3>2, <1>1
  <2> QED BY <2>1, <2>2, <2>5
<1> HIDE DEF g
<1>9. \A j \in 1..n : l[j].key \in Int
  BY ListFacts DEF n
<1>10. \A j \in 1..i : k < l[j].key
  OBVIOUS
<1>11. \A j \in i + 1..n : l[j].key < k
  BY DEF n
<1>12. \A j \in 1..n : l[j].len <= l[j].key + 1
  BY ListFacts DEF n
<1>13. \A j, m \in 1..n : j < m => l[m].key < l[j].key
  BY ListFacts DEF n
<1>14. g \in Lists
  <2>1. \A j \in 1..n + 1 : g[j].len <= g[j].key + 1
    BY <1>1, <1>2, <1>8, <1>12
  <2>2. ASSUME NEW j \in 1..n + 1, NEW m \in 1..n + 1, j < m PROVE g[m].key < g[j].key
    <3>1. CASE m <= i
      <4>1. j <= i /\ j \in 1..n /\ m \in 1..n
        BY <3>1, <2>2, <1>1
      <4> QED BY <4>1, <3>1, <2>2, <1>8, <1>13
    <3>2. CASE m = i + 1
      <4>1. j \in 1..i /\ j <= i
        BY <3>2, <2>2, <1>1
      <4>2. g[j] = l[j] /\ g[m] = b
        BY <4>1, <3>2, <1>1, <1>8
      <4> QED BY <4>1, <4>2, <1>2, <1>10
    <3>3. CASE m > i + 1
      <4>1. m - 1 \in i + 1..n /\ m - 1 \in 1..n /\ ~(m <= i) /\ m # i + 1
        BY <3>3, <1>1
      <4>2. g[m] = l[m - 1] /\ l[m - 1].key < k
        BY <4>1, <1>8, <1>11
      <4>3. CASE j <= i
        <5>1. j \in 1..i /\ j \in 1..n /\ j < m - 1
          BY <4>3, <3>3, <1>1
        <5>2. g[j] = l[j]
          BY <4>3, <1>8
        <5> QED BY <5>1, <5>2, <4>1, <4>2, <1>13
      <4>4. CASE j = i + 1
        <5>1. g[j] = b
          BY <4>4, <1>1, <1>8
        <5> QED BY <5>1, <4>2, <1>2
      <4>5. CASE j > i + 1
        <5>1. j - 1 \in 1..n /\ j - 1 < m - 1 /\ ~(j <= i) /\ j # i + 1
          BY <4>5, <2>2, <1>1
        <5>2. g[j] = l[j - 1]
          BY <5>1, <1>8
        <5> QED BY <5>1, <5>2, <4>1, <4>2, <1>13
      <4> QED BY <4>3, <4>4, <4>5, <1>1
    <3> QED BY <3>1, <3>2, <3>3, <1>1
  <2> QED BY <2>1, <2>2, <1>8 DEF Lists
<1>15. Elements(g) = Elements(l) \union {k}
  <2>1. Elements(g) = UNION {Covered(g[j]) : j \in 1..n + 1}
        /\ Elements(l) = UNION {Covered(l[j]) : j \in 1..n}
    BY <1>1, <1>8, LenProperties DEF Elements
  <2> HIDE DEF Covered
  <2>2. ASSUME NEW x \in Elements(g) PROVE x \in Elements(l) \union {k}
    <3>1. PICK j \in 1..n + 1 : x \in Covered(g[j])
      BY <2>1, <2>2
    <3>2. j <= i \/ j = i + 1 \/ (j > i + 1 /\ j - 1 \in 1..n)
      BY <1>1
    <3> QED BY <3>1, <3>2, <2>1, <1>1, <1>2, <1>8
  <2>3. ASSUME NEW x \in Elements(l) PROVE x \in Elements(g)
    <3>1. PICK j \in 1..n : x \in Covered(l[j])
      BY <2>1, <2>3
    <3>2. CASE j <= i
      <4>1. j \in 1..n + 1 /\ g[j] = l[j]
        BY <3>2, <1>1, <1>8
      <4> QED BY <4>1, <3>1, <2>1
    <3>3. CASE j > i
      <4>1. j + 1 \in 1..n + 1 /\ g[j + 1] = l[j]
        BY <3>3, <1>1, <1>8
      <4> QED BY <4>1, <3>1, <2>1
    <3> QED BY <3>2, <3>3, <1>1
  <2>4. k \in Elements(g)
    <3>1. i + 1 \in 1..n + 1 /\ g[i + 1] = b
      BY <1>1, <1>8
    <3> QED BY <3>1, <2>1, <1>2
  <2> QED BY <2>2, <2>3, <2>4
<1> QED BY <1>8, <1>14, <1>15, <1>1 DEF g, Empty

\* tsk_list_add adds just the key, also below a bucket that reaches 0.
LEMMA AddGives ==
  ASSUME NEW l \in Lists, NEW k \in 0..MaxKey
  PROVE  /\ Add(l, k) \in Lists /\ Add(l, k) # Empty
         /\ Elements(Add(l, k)) = Elements(l) \union {k}
<1> DEFINE n == Len(l)
<1>1. /\ n \in Nat /\ DOMAIN l = 1..n /\ MaxKey \in Nat
      /\ \A i \in 1..n : /\ l[i].key \in 0..MaxKey /\ l[i].len \in Nat
                         /\ 1 <= l[i].len /\ l[i].len <= l[i].key + 1
      /\ \A i, j \in 1..n : i < j => l[j].key < l[i].key
      /\ l = Empty <=> n = 0
  BY ListFacts, MaxKeyAssumption
<1>2. \A i \in 1..n : \A x \in Covered(l[i]) : x \in Elements(l)
  BY <1>1 DEF Elements
<1>3. CASE l = Empty
  <2>1. /\ InsertedAfter(l, 0, k) \in Lists /\ InsertedAfter(l, 0, k) # Empty
        /\ Elements(InsertedAfter(l, 0, k)) = Elements(l) \union {k}
    <3>1. 0 \in 0..Len(l) /\ (\A j \in 1..0 : k < l[j].key) /\ (\A j \in 0 + 1..Len(l) : l[j].key < k)
      BY <1>1, <1>3
    <3> QED BY <3>1, InsertedGives
  <2>2. InsertedAfter(l, 0, k) = <<Bucket(k)>>
    <3> DEFINE b == Bucket(k)
    <3>1. <<b>> \in Seq({b}) /\ << >> \in Seq({b})
      OBVIOUS
    <3>2. SubSeq(<< >>, 1, 0) = << >> /\ SubSeq(<< >>, 1, Len(<< >>)) = << >>
      OBVIOUS
    <3>3. InsertedAfter(<< >>, 0, k) = << >> \o <<b>> \o << >>
      <4>1. SubSeq(<< >>, 0 + 1, Len(<< >>)) = << >>
        BY <3>2
      <4> QED BY <4>1, <3>2, Zenon DEF InsertedAfter
    <3> HIDE DEF b
    <3>4. << >> \o <<b>> \o << >> = <<b>>
      BY <3>1
    <3> QED BY <3>3, <3>4, <1>3 DEF Empty, b
  <2> QED BY <2>1, <2>2, <1>3 DEF Add
<1>4. CASE l # Empty /\ k = l[1].key + 1
  <2>1. 1 \in 1..n /\ l[1].key < MaxKey /\ 1..1 - 1 = {}
    BY <1>1, <1>4
  <2>2. Add(l, k) = Grown(l, 1, TRUE)
    BY <1>4 DEF Add
  <2> QED BY <2>1, <2>2, <1>4, GrownGives
<1>5. CASE l # Empty /\ k > l[1].key + 1
  <2>1. \A j \in 0 + 1..n : l[j].key < k
    BY <1>1, <1>5
  <2>2. \A j \in 1..0 : k < l[j].key
    OBVIOUS
  <2>3. Add(l, k) = InsertedAfter(l, 0, k)
    <3>1. 1 \in 1..n
      BY <1>1, <1>5
    <3>2. l[1].key \in 0..MaxKey
      BY <3>1, <1>1
    <3>3. k # l[1].key + 1 /\ k > l[1].key
      BY <3>2, <1>1, <1>5
    <3> QED BY <3>3, <1>5, Zenon DEF Add
  <2>4. 0 \in 0..Len(l)
    BY <1>1
  <2>5. InsertedAfter(l, 0, k) \in Lists /\ InsertedAfter(l, 0, k) # Empty
        /\ Elements(InsertedAfter(l, 0, k)) = Elements(l) \union {k}
    <3> HIDE DEF n
    <3> QED BY <2>1, <2>2, <2>4, InsertedGives DEF n
  <2> QED BY <2>3, <2>5
<1>6. CASE l # Empty /\ k = l[1].key
  <2>1. k \in Elements(l) /\ Add(l, k) = l
    <3>1. 1 \in 1..n /\ k \in Covered(l[1])
      BY <1>1, <1>6 DEF Covered
    <3>2. k # l[1].key + 1 /\ ~(k > l[1].key)
      BY <3>1, <1>1, <1>6
    <3>3. Add(l, k) = l
      BY <3>2, <1>6, Zenon DEF Add
    <3> QED BY <3>1, <3>3, <1>2
  <2> QED BY <2>1, <1>6
<1>7. CASE l # Empty /\ k < l[1].key
  <2> DEFINE i == Place(l, k)
  <2>1. Add(l, k) = AddBelow(l, k)
    <3>1. 1 \in 1..n /\ l[1].key \in Int /\ k \in Int /\ k # l[1].key + 1 /\ ~(k > l[1].key) /\ k # l[1].key
      <4>1. 1 \in 1..n
        BY <1>1, <1>7
      <4>2. l[1].key \in 0..MaxKey
        BY <4>1, <1>1
      <4> HIDE DEF n
      <4> QED BY <4>1, <4>2, <1>1, <1>7
    <3> QED BY <3>1, <1>7, Zenon DEF Add
  <2>2. i \in 1..n /\ EndsLoop(l, k, i) /\ \A j \in 1..i - 1 : ~EndsLoop(l, k, j)
    BY <1>7, PlaceExists
  <2>3. \A j \in 1..n : Under(l[j]) \in 0..MaxKey
    BY <1>1 DEF Under
  <2>4. Add(l, k) =
          IF k > Under(l[i]) THEN l
          ELSE IF k = Under(l[i])
            THEN IF i < n /\ l[i + 1].key = k THEN l ELSE Grown(l, i, FALSE)
          ELSE IF i = n THEN InsertedAfter(l, i, k)
          ELSE IF k = l[i + 1].key + 1 THEN Grown(l, i + 1, TRUE)
          ELSE IF k > l[i + 1].key THEN InsertedAfter(l, i, k)
          ELSE l
    BY <2>1, Zenon DEF AddBelow
  <2> HIDE DEF i, n
  <2>5. k < l[i].key
    <3>1. CASE i = 1
      BY <3>1, <1>7
    <3>2. CASE i # 1
      <4>1. i - 1 \in 1..i - 1 /\ i - 1 \in 1..n /\ (i - 1) + 1 = i
        BY <3>2, <2>2, <1>1
      <4>2. ~(k >= l[i].key)
        BY <4>1, <2>2 DEF EndsLoop
      <4> QED BY <4>2, <2>2, <1>1
    <3> QED BY <3>1, <3>2
  <2>6. \A j \in 1..i : k < l[j].key
    <3> TAKE j \in 1..i
    <3>1. CASE j = i
      BY <3>1, <2>5
    <3>2. CASE j # i
      <4>1. j \in 1..n /\ j < i
        BY <3>2, <2>2, <1>1
      <4>2. l[i].key < l[j].key /\ l[i].key \in 0..MaxKey /\ l[j].key \in 0..MaxKey
        BY <4>1, <2>2, <1>1
      <4> QED BY <4>2, <2>5, <1>1
    <3> QED BY <3>1, <3>2
  <2>7. i < n => i + 1 \in 1..n /\ l[i + 1].key \in 0..MaxKey
    BY <2>2, <1>1
  <2>8. Under(l[i]) = MaxKey \/ (l[i].len <= l[i].key /\ Under(l[i]) = l[i].key - l[i].len)
    BY <2>2, <1>1 DEF Under
  <2>9. k < MaxKey
    BY <2>2, <2>5, <1>1
  <2>10. CASE k > Under(l[i])
    <3>1. k \in Covered(l[i])
      BY <2>2, <2>5, <2>8, <2>9, <2>10, <1>1 DEF Covered
    <3> QED BY <3>1, <2>2, <2>4, <2>10, <1>2, <1>7
  <2>11. CASE k = Under(l[i]) /\ i < n /\ l[i + 1].key = k
    <3>1. k \in Covered(l[i + 1])
      BY <2>7, <2>11, <1>1 DEF Covered
    <3>2. Add(l, k) = l
      BY <2>4, <2>11, <2>3, <2>2
    <3> QED BY <3>1, <3>2, <2>7, <2>11, <1>2, <1>7
  <2>12. CASE k = Under(l[i]) /\ ~(i < n /\ l[i + 1].key = k)
    <3>1. l[i].len <= l[i].key /\ k = l[i].key - l[i].len
      BY <2>8, <2>9, <2>12
    <3>2. Add(l, k) = Grown(l, i, FALSE)
      <4>1. ~(k > Under(l[i]))
        BY <2>12
      <4> QED BY <4>1, <2>4, <2>12, Zenon
    <3>3. /\ Grown(l, i, FALSE) \in Lists /\ Grown(l, i, FALSE) # Empty
          /\ Elements(Grown(l, i, FALSE)) =
               Elements(l) \union {IF FALSE THEN l[i].key + 1 ELSE l[i].key - l[i].len}
      <4> HIDE DEF Lists
      <4>1. i \in 1..Len(l) /\ FALSE \in BOOLEAN
        BY <2>2 DEF n
      <4> QED BY <4>1, <3>1, GrownGives
    <3> QED BY <3>1, <3>2, <3>3
  <2>13. CASE k < Under(l[i]) /\ i = n
    <3>1. Add(l, k) = InsertedAfter(l, i, k)
      <4>1. ~(k > Under(l[i])) /\ k # Under(l[i])
        BY <2>13, <2>2, <2>3
      <4> QED BY <4>1, <2>4, <2>13, Zenon
    <3>2. (\A j \in i + 1..Len(l) : l[j].key < k) /\ i \in 0..Len(l)
      BY <2>13, <1>1, <2>2 DEF n
    <3> QED BY <3>1, <3>2, <2>6, InsertedGives
  <2>14. CASE k < Under(l[i]) /\ i # n /\ k = l[i + 1].key + 1
    <3>0. i + 1 \in 1..n
      BY <2>14, <2>2, <2>7, <1>1
    <3>1. Add(l, k) = Grown(l, i + 1, TRUE)
      <4>1. ~(k > Under(l[i])) /\ k # Under(l[i])
        BY <2>14, <2>2, <2>3
      <4> QED BY <4>1, <2>4, <2>14, Zenon
    <3>2. l[i + 1].key < MaxKey /\ \A j \in 1..(i + 1) - 1 : l[i + 1].key + 1 < l[j].key
      <4>1. (i + 1) - 1 = i /\ l[i + 1].key \in 0..MaxKey
        BY <3>0, <2>2, <1>1
      <4> QED BY <4>1, <2>6, <2>9, <2>14, <1>1
    <3>3. i + 1 \in 1..Len(l)
      BY <3>0 DEF n
    <3>4. /\ Grown(l, i + 1, TRUE) \in Lists /\ Grown(l, i + 1, TRUE) # Empty
          /\ Elements(Grown(l, i + 1, TRUE)) =
               Elements(l) \union {IF TRUE THEN l[i + 1].key + 1 ELSE l[i + 1].key - l[i + 1].len}
      BY <3>2, <3>3, GrownGives
    <3> QED BY <3>1, <3>4, <2>14
  <2>15. CASE k < Under(l[i]) /\ i # n /\ k > l[i + 1].key + 1
    <3>1. i + 1 \in 1..n /\ l[i + 1].key \in Int
      BY <2>15, <2>2, <2>7, <1>1
    <3>2. Add(l, k) = InsertedAfter(l, i, k)
      <4>1. ~(k > Under(l[i])) /\ k # Under(l[i]) /\ k # l[i + 1].key + 1 /\ k > l[i + 1].key
        BY <2>15, <2>2, <2>3, <3>1
      <4> QED BY <4>1, <2>4, <2>15, Zenon
    <3>3. \A j \in i + 1..n : l[j].key < k
      <4> TAKE j \in i + 1..n
      <4>1. CASE j = i + 1
        BY <4>1, <3>1, <2>15
      <4>2. CASE j # i + 1
        <5>1. j \in 1..n /\ i + 1 < j
          BY <4>2, <2>2, <1>1
        <5>2. l[j].key < l[i + 1].key /\ l[j].key \in 0..MaxKey
          BY <5>1, <3>1, <1>1
        <5> QED BY <5>2, <3>1, <2>15, <1>1
      <4> QED BY <4>1, <4>2
    <3>4. (\A j \in i + 1..Len(l) : l[j].key < k) /\ i \in 0..Len(l)
      BY <3>3, <2>2, <1>1 DEF n
    <3> QED BY <3>2, <3>4, <2>6, InsertedGives
  <2>16. CASE k < Under(l[i]) /\ i # n /\ k <= l[i + 1].key
    <3>1. i + 1 \in 1..n /\ l[i + 1].key \in Int
      BY <2>16, <2>2, <2>7, <1>1
    <3>2. k >= l[i + 1].key
      BY <2>2, <2>16, <2>3 DEF EndsLoop, n
    <3>3. k \in Covered(l[i + 1])
      BY <3>1, <3>2, <2>16, <1>1 DEF Covered
    <3>4. Add(l, k) = l
      <4>1. ~(k > Under(l[i])) /\ k # Under(l[i]) /\ k # l[i + 1].key + 1 /\ ~(k > l[i + 1].key)
        BY <2>16, <2>2, <2>3, <3>1
      <4> QED BY <4>1, <2>4, <2>16, Zenon
    <3> QED BY <3>1, <3>3, <3>4, <1>2, <1>7
  <2>17. k > Under(l[i]) \/ k = Under(l[i]) \/ k < Under(l[i])
    BY <2>2, <2>3
  <2>18. i < n => k = l[i + 1].key + 1 \/ k > l[i + 1].key + 1 \/ k <= l[i + 1].key
    BY <2>7
  <2> QED BY <2>2, <2>10, <2>11, <2>12, <2>13, <2>14, <2>15, <2>16, <2>17, <2>18, <1>1
<1>8. l = Empty \/ k = l[1].key + 1 \/ k > l[1].key + 1 \/ k = l[1].key \/ k < l[1].key
  <2>1. l # Empty => 1 \in 1..n
    BY <1>1
  <2> QED BY <2>1, <1>1
<1> QED BY <1>3, <1>4, <1>5, <1>6, <1>7, <1>8

-----------------------------------------------------------------------------
(* Sequences *)

LEMMA FrontLast ==
  ASSUME NEW S, NEW s \in Seq(S), s # << >>
  PROVE  /\ Len(s) \in Nat \ {0} /\ Last(s) = s[Len(s)] /\ Last(s) \in S
         /\ Front(s) \in Seq(S) /\ Len(Front(s)) = Len(s) - 1
         /\ \A i \in 1..Len(s) - 1 : Front(s)[i] = s[i]
<1>1. Len(s) \in Nat \ {0}
  BY EmptySeq, LenProperties
<1>2. Last(s) = s[Len(s)] /\ Last(s) \in S
  BY <1>1, ElementOfSeq DEF Last
<1>3. /\ SubSeq(s, 1, Len(s) - 1) \in Seq(S) /\ Len(SubSeq(s, 1, Len(s) - 1)) = Len(s) - 1
      /\ \A i \in 1..Len(s) - 1 : SubSeq(s, 1, Len(s) - 1)[i] = s[i]
  <2>1. \A i \in 1..Len(s) - 1 : s[i] \in S
    BY <1>1, ElementOfSeq
  <2> DEFINE n == Len(s) - 1
  <2>2. n \in 0..Len(s) /\ n - 1 + 1 = n
    BY <1>1
  <2>3. /\ SubSeq(s, 1, n) \in Seq(S) /\ Len(SubSeq(s, 1, n)) = n
        /\ \A i \in 1..n : SubSeq(s, 1, n)[i] = s[i]
    <3> HIDE DEF n
    <3>1. \A i \in 1..n : 1 + i - 1 = i
      BY <2>2
    <3>2. 1 \in 1..Len(s) + 1 /\ n \in 1 - 1..Len(s)
      BY <2>2, <1>1
    <3> QED BY <2>2, <3>1, <3>2, SubSeqProperties
  <2> QED BY <2>3
<1> QED BY <1>1, <1>2, <1>3 DEF Front

LEMMA FrontReplaced ==
  ASSUME NEW S, NEW s \in Seq(S), s # << >>, NEW j \in S
  PROVE  /\ Append(Front(s), j) \in Seq(S) /\ Replaced(s, Append(Front(s), j), j)
         /\ Front(s) \o <<j>> \in Seq(S) /\ Replaced(s, Front(s) \o <<j>>, j)
<1> DEFINE f == Front(s)
<1>1. /\ Len(s) \in Nat \ {0} /\ f \in Seq(S) /\ Len(f) = Len(s) - 1
      /\ \A i \in 1..Len(s) - 1 : f[i] = s[i]
  BY FrontLast
<1> HIDE DEF f
<1>2. /\ Append(f, j) \in Seq(S) /\ Len(Append(f, j)) = Len(s)
      /\ Append(f, j)[Len(s)] = j /\ \A i \in 1..Len(s) - 1 : Append(f, j)[i] = f[i]
  BY <1>1, AppendProperties
<1>3. f \o <<j>> = Append(f, j)
  BY <1>1, AppendIsConcat
<1> QED BY <1>1, <1>2, <1>3 DEF Replaced, f

LEMMA FrontPushed ==
  ASSUME NEW S, NEW s \in Seq(S), s # << >>, NEW j \in S, NEW k \in S
  PROVE  Front(s) \o <<j, k>> \in Seq(S) /\ Pushed(s, Front(s) \o <<j, k>>, j, k)
<1> DEFINE f == Front(s)
           g == f \o <<j, k>>
<1>1. /\ Len(s) \in Nat \ {0} /\ f \in Seq(S) /\ Len(f) = Len(s) - 1
      /\ \A i \in 1..Len(s) - 1 : f[i] = s[i]
  BY FrontLast
<1>2. <<j, k>> \in Seq(S) /\ Len(<<j, k>>) = 2 /\ <<j, k>>[1] = j /\ <<j, k>>[2] = k
  OBVIOUS
<1> HIDE DEF f
<1>3. /\ g \in Seq(S) /\ Len(g) = Len(f) + 2
      /\ \A i \in 1..Len(f) + 2 : g[i] = IF i <= Len(f) THEN f[i] ELSE <<j, k>>[i - Len(f)]
  BY <1>1, <1>2, ConcatProperties
<1> DEFINE n == Len(s)
<1>3a. Len(g) = n + 1 /\ \A i \in 1..n + 1 : g[i] = IF i <= n - 1 THEN f[i] ELSE <<j, k>>[i - (n - 1)]
  <2>1. (n - 1) + 2 = n + 1 /\ Len(f) = n - 1
    BY <1>1
  <2> HIDE DEF g, n
  <2> QED BY <2>1, <1>3
<1> HIDE DEF g, n
<1>4. Len(g) = Len(s) + 1 /\ g[Len(s)] = j /\ g[Len(s) + 1] = k
  <2>0. n \in Nat \ {0}
    BY <1>1 DEF n
  <2>1. n \in 1..n + 1 /\ n + 1 \in 1..n + 1 /\ ~(n <= n - 1) /\ ~(n + 1 <= n - 1)
    BY <2>0
  <2>2. n - (n - 1) = 1 /\ (n + 1) - (n - 1) = 2
    BY <2>0
  <2>3. g[n] = <<j, k>>[1] /\ g[n + 1] = <<j, k>>[2]
    BY <2>1, <2>2, <1>3a
  <2> QED BY <2>3, <1>2, <1>3a DEF n
<1>5. \A i \in 1..Len(s) - 1 : g[i] = s[i]
  <2>1. n \in Nat \ {0} /\ \A i \in 1..n - 1 : f[i] = s[i]
    BY <1>1 DEF n
  <2>2. \A i \in 1..n - 1 : i \in 1..n + 1 /\ i <= n - 1
    BY <2>1
  <2> QED BY <2>1, <2>2, <1>3a DEF n
<1> QED BY <1>3, <1>4, <1>5 DEF Pushed, f, g

LEMMA FrontPopped ==
  ASSUME NEW S, NEW s \in Seq(S), s # << >>
  PROVE  Front(s) \in Seq(S) /\ Popped(s, Front(s))
BY FrontLast DEF Popped

-----------------------------------------------------------------------------
(* Walks and searches *)

LEMMA WalkFields ==
  ASSUME NEW w \in Walks
  PROVE  /\ w.kind = "walk" /\ w.pc \in {"check", "opening", "entry", "returned"}
         /\ w.addr \in 0..MaxKey /\ w.flags \in AnyFlags /\ w.action \in {"user", "named", "orphan"}
         /\ w.save \in BOOLEAN /\ w.list \in Lists /\ w.seen \in Seq(0..MaxKey)
         /\ w.frames \in Seq(FrameSet) /\ w.ret \in Returned
         /\ Len(w.frames) \in Nat /\ DOMAIN w.frames = 1..Len(w.frames)
         /\ (w.frames = << >> <=> Len(w.frames) = 0)
         /\ \A k \in 1..Len(w.frames) :
              /\ w.frames[k] \in FrameSet
              /\ w.frames[k].dir \in 0..MaxKey /\ w.frames[k].i \in Nat \ {0}
              /\ w.frames[k].bak \in BOOLEAN
<1>1. /\ w.kind = "walk" /\ w.pc \in {"check", "opening", "entry", "returned"}
      /\ w.addr \in 0..MaxKey /\ w.flags \in AnyFlags /\ w.action \in {"user", "named", "orphan"}
      /\ w.save \in BOOLEAN /\ w.list \in Lists /\ w.seen \in Seq(0..MaxKey)
      /\ w.frames \in Seq(FrameSet) /\ w.ret \in Returned
  BY DEF Walks
<1>2. Len(w.frames) \in Nat /\ DOMAIN w.frames = 1..Len(w.frames)
  BY <1>1, LenProperties
<1>3. w.frames = << >> <=> Len(w.frames) = 0
  BY <1>1, EmptySeq
<1>4. \A k \in 1..Len(w.frames) : w.frames[k] \in FrameSet
  BY <1>1, <1>2, ElementOfSeq
<1>5. \A f \in FrameSet : f.dir \in 0..MaxKey /\ f.i \in Nat \ {0} /\ f.bak \in BOOLEAN
  BY DEF FrameSet
<1> QED BY <1>1, <1>2, <1>3, <1>4, <1>5

LEMMA FrameGives ==
  ASSUME NEW d \in 0..MaxKey
  PROVE  Frame(d) \in FrameSet /\ Frame(d).dir = d /\ Frame(d).i = 1 /\ Frame(d).bak = FALSE
BY DEF Frame, FrameSet

LEMMA NextNameGives ==
  ASSUME NEW w \in Walks, w.frames # << >>
  PROVE  LET v == NextName(w)
             n == Len(w.frames)
         IN /\ v \in Walks /\ v.pc = "entry" /\ SameCall(w, v) /\ v.addr = w.addr
            /\ v.save = w.save /\ v.list = w.list /\ v.seen = w.seen /\ v.ret = w.ret
            /\ Len(v.frames) = n /\ SameFrames(w, v, n - 1)
            /\ v.frames[n].dir = w.frames[n].dir /\ v.frames[n].i = w.frames[n].i + 1
            /\ v.frames[n].bak = FALSE
<1> DEFINE s == w.frames
           n == Len(s)
           f == Onward(Last(s))
           g == Append(Front(s), f)
<1>1. s \in Seq(FrameSet) /\ n \in Nat \ {0} /\ Last(s) = s[n] /\ Last(s) \in FrameSet
  BY FrontLast, WalkFields
<1>2. f \in FrameSet /\ f.dir = s[n].dir /\ f.i = s[n].i + 1 /\ f.bak = FALSE
  <2> DEFINE l == Last(s)
  <2>1. l \in FrameSet /\ l = s[n] /\ l.i \in Nat
    BY <1>1 DEF FrameSet
  <2> HIDE DEF l
  <2>2. l.i + 1 \in Nat \ {0}
    BY <2>1
  <2>3. [l EXCEPT !.i = @ + 1, !.bak = FALSE] \in FrameSet
        /\ [l EXCEPT !.i = @ + 1, !.bak = FALSE].dir = l.dir
        /\ [l EXCEPT !.i = @ + 1, !.bak = FALSE].i = l.i + 1
        /\ [l EXCEPT !.i = @ + 1, !.bak = FALSE].bak = FALSE
    BY <2>1, <2>2 DEF FrameSet
  <2> QED BY <2>1, <2>3 DEF l, Onward
<1> HIDE DEF f, s
<1>3. g \in Seq(FrameSet) /\ Replaced(s, g, f)
  BY <1>1, <1>2, FrontReplaced DEF s
<1> HIDE DEF g
<1> DEFINE v == [w EXCEPT !.frames = g, !.pc = "entry"]
<1>4. /\ v \in Walks /\ v.pc = "entry" /\ v.flags = w.flags /\ v.action = w.action /\ v.addr = w.addr
      /\ v.save = w.save /\ v.list = w.list /\ v.seen = w.seen /\ v.ret = w.ret /\ v.frames = g
  BY <1>3 DEF Walks
<1>5. NextName(w) = v
  BY Zenon DEF NextName, g, f, s
<1> HIDE DEF v
<1>6. Len(g) = n /\ g[n] = f /\ \A k \in 1..n - 1 : g[k] = s[k]
  BY <1>3 DEF Replaced
<1> QED BY <1>2, <1>4, <1>5, <1>6 DEF SameCall, SameFrames, s

LEMMA BackAboveGives ==
  ASSUME NEW w \in Walks, NEW ret \in Returned, w.frames = << >> \/ w.seen # << >>
  PROVE  LET v == BackAbove(w, ret)
             n == Len(w.frames)
         IN /\ v \in Walks /\ SameCall(w, v) /\ v.addr = w.addr /\ v.list = w.list
            /\ Len(v.frames) = n /\ SameFrames(w, v, n - 1)
            /\ n = 0 => /\ v.pc = "returned" /\ v.ret = ret /\ v.frames = << >>
                        /\ v.save = w.save /\ v.seen = w.seen
            /\ n > 0 => /\ v.pc = "entry" /\ v.seen = Front(w.seen)
                        /\ v.frames[n].dir = w.frames[n].dir /\ v.frames[n].i = w.frames[n].i + 1
                        /\ v.frames[n].bak = FALSE
                        /\ v.save = IF w.addr = OrphanDir THEN w.frames[n].bak ELSE w.save
<1> DEFINE n == Len(w.frames)
<1>0. n \in Nat /\ (w.frames = << >> <=> n = 0)
  BY WalkFields
<1>1. CASE w.frames = << >>
  <2> DEFINE v == [w EXCEPT !.ret = ret, !.pc = "returned"]
  <2>1. /\ v \in Walks /\ v.flags = w.flags /\ v.action = w.action /\ v.addr = w.addr /\ v.list = w.list
        /\ v.frames = w.frames /\ v.pc = "returned" /\ v.ret = ret /\ v.save = w.save /\ v.seen = w.seen
    BY DEF Walks
  <2>2. BackAbove(w, ret) = v
    BY <1>1 DEF BackAbove
  <2> HIDE DEF v
  <2> QED BY <2>1, <2>2, <1>0, <1>1 DEF SameCall, SameFrames
<1>2. CASE w.frames # << >>
  <2> DEFINE save == IF w.addr = OrphanDir THEN Last(w.frames).bak ELSE w.save
             u == [w EXCEPT !.seen = Front(@), !.save = save]
             v == NextName(u)
  <2>1. Last(w.frames) = w.frames[n] /\ w.frames[n].bak \in BOOLEAN /\ w.frames \in Seq(FrameSet)
    <3>1. w.frames \in Seq(FrameSet) /\ n \in 1..n
      BY <1>0, <1>2, WalkFields
    <3> QED BY <3>1, <1>2, FrontLast, WalkFields
  <2>2. Front(w.seen) \in Seq(0..MaxKey) /\ save \in BOOLEAN
    <3>1. w.seen \in Seq(0..MaxKey) /\ w.save \in BOOLEAN
      BY WalkFields
    <3> QED BY <3>1, <2>1, <1>2, FrontLast
  <2>3. save = IF w.addr = OrphanDir THEN w.frames[n].bak ELSE w.save
    BY <2>1
  <2>4. BackAbove(w, ret) = v
    BY <1>2 DEF BackAbove
  <2> HIDE DEF save
  <2>5. /\ u \in Walks /\ u.flags = w.flags /\ u.action = w.action /\ u.addr = w.addr /\ u.list = w.list
        /\ u.frames = w.frames /\ u.seen = Front(w.seen) /\ u.save = save
    BY <2>2 DEF Walks
  <2> HIDE DEF u
  <2>6. /\ v \in Walks /\ v.pc = "entry" /\ SameCall(u, v) /\ v.addr = u.addr
        /\ v.save = u.save /\ v.list = u.list /\ v.seen = u.seen
        /\ Len(v.frames) = n /\ SameFrames(u, v, n - 1)
        /\ v.frames[n].dir = u.frames[n].dir /\ v.frames[n].i = u.frames[n].i + 1
        /\ v.frames[n].bak = FALSE
    <3>1. u \in Walks /\ u.frames # << >> /\ Len(u.frames) = n
      BY <2>5, <1>2
    <3> HIDE DEF n
    <3> QED BY <3>1, NextNameGives
  <2> HIDE DEF v
  <2> QED BY <2>3, <2>4, <2>5, <2>6, <1>0, <1>2 DEF SameCall, SameFrames
<1> QED BY <1>1, <1>2

LEMMA LeaveGives ==
  ASSUME NEW w \in Walks, NEW ret \in Returned, w.frames # << >>, Len(w.frames) = 1 \/ w.seen # << >>
  PROVE  LET v == Leave(w, ret)
             n == Len(w.frames) - 1
         IN /\ v \in Walks /\ SameCall(w, v) /\ v.list = w.list
            /\ Len(v.frames) = n /\ SameFrames(w, v, n - 1)
            /\ n = 0 => /\ v.pc = "returned" /\ v.ret = ret /\ v.frames = << >>
                        /\ v.save = w.save /\ v.seen = w.seen
            /\ n > 0 => /\ v.pc = "entry" /\ v.seen = Front(w.seen)
                        /\ v.frames[n].dir = w.frames[n].dir /\ v.frames[n].i = w.frames[n].i + 1
                        /\ v.frames[n].bak = FALSE
                        /\ v.save = IF w.frames[n + 1].dir = OrphanDir THEN w.frames[n].bak ELSE w.save
<1> DEFINE s == w.frames
           n == Len(s) - 1
           f == Front(s)
           u == [w EXCEPT !.frames = Front(@), !.addr = Last(w.frames).dir]
<1>1. /\ s \in Seq(FrameSet) /\ Len(s) \in Nat \ {0} /\ Last(s) = s[n + 1] /\ s[n + 1].dir \in 0..MaxKey
      /\ f \in Seq(FrameSet) /\ Len(f) = n /\ \A k \in 1..n : f[k] = s[k]
  <2>1. s \in Seq(FrameSet) /\ Len(s) \in Nat \ {0} /\ Len(s) = n + 1
    BY FrontLast, WalkFields
  <2>2. Last(s) = s[n + 1] /\ s[n + 1].dir \in 0..MaxKey
    <3>1. Len(s) \in 1..Len(s)
      BY <2>1
    <3> QED BY <3>1, <2>1, FrontLast, WalkFields
  <2> QED BY <2>1, <2>2, FrontLast
<1>2. /\ u \in Walks /\ u.flags = w.flags /\ u.action = w.action /\ u.list = w.list /\ u.frames = f
      /\ u.addr = s[n + 1].dir /\ u.save = w.save /\ u.seen = w.seen
  <2> HIDE DEF f
  <2>1. Last(w.frames).dir \in 0..MaxKey
    BY <1>1
  <2>2. u = [w EXCEPT !.frames = f, !.addr = Last(w.frames).dir]
    BY DEF f
  <2> HIDE DEF u
  <2> QED BY <2>1, <2>2, <1>1 DEF Walks
<1>3. Leave(w, ret) = BackAbove(u, ret)
  BY DEF Leave
<1>4. u.frames = << >> \/ u.seen # << >>
  <2>1. Len(u.frames) = 0 <=> u.frames = << >>
    BY <1>2, WalkFields
  <2> QED BY <2>1, <1>1, <1>2
<1> HIDE DEF u, f
<1> DEFINE v == BackAbove(u, ret)
<1>5. /\ v \in Walks /\ SameCall(u, v) /\ v.addr = u.addr /\ v.list = u.list
      /\ Len(v.frames) = n /\ SameFrames(u, v, n - 1)
      /\ n = 0 => /\ v.pc = "returned" /\ v.ret = ret /\ v.frames = << >>
                  /\ v.save = u.save /\ v.seen = u.seen
      /\ n > 0 => /\ v.pc = "entry" /\ v.seen = Front(u.seen)
                  /\ v.frames[n].dir = u.frames[n].dir /\ v.frames[n].i = u.frames[n].i + 1
                  /\ v.frames[n].bak = FALSE
                  /\ v.save = IF u.addr = OrphanDir THEN u.frames[n].bak ELSE u.save
  <2>1. Len(u.frames) = n /\ n \in Nat
    BY <1>1, <1>2
  <2> HIDE DEF n, s, v
  <2> DEFINE m == Len(u.frames)
             x == BackAbove(u, ret)
  <2>2. /\ x \in Walks /\ SameCall(u, x) /\ x.addr = u.addr /\ x.list = u.list
        /\ Len(x.frames) = m /\ SameFrames(u, x, m - 1)
        /\ m = 0 => /\ x.pc = "returned" /\ x.ret = ret /\ x.frames = << >>
                    /\ x.save = u.save /\ x.seen = u.seen
        /\ m > 0 => /\ x.pc = "entry" /\ x.seen = Front(u.seen)
                    /\ x.frames[m].dir = u.frames[m].dir /\ x.frames[m].i = u.frames[m].i + 1
                    /\ x.frames[m].bak = FALSE
                    /\ x.save = IF u.addr = OrphanDir THEN u.frames[m].bak ELSE u.save
    BY <1>2, <1>4, BackAboveGives
  <2> QED BY <2>1, <2>2 DEF v
<1> HIDE DEF v
<1>6. n > 0 => n \in 1..n
  BY <1>1
<1>7. \A k \in 1..n : u.frames[k] = w.frames[k]
  BY <1>1, <1>2
<1>8. \A k \in 1..n - 1 : k \in 1..n
  BY <1>1
<1>9. SameFrames(w, v, n - 1)
  BY <1>5, <1>7, <1>8 DEF SameFrames
<1> QED BY <1>2, <1>3, <1>5, <1>6, <1>7, <1>9 DEF SameCall, v

-----------------------------------------------------------------------------
(* The moves of a walk *)

LEMMA FrontOfAppend ==
  ASSUME NEW S, NEW s \in Seq(S), NEW x \in S
  PROVE  Append(s, x) \in Seq(S) /\ Append(s, x) # << >> /\ Front(Append(s, x)) = s
<1> DEFINE a == Append(s, x)
<1>1. /\ a \in Seq(S) /\ Len(a) = Len(s) + 1 /\ Len(s) \in Nat
      /\ \A i \in 1..Len(s) : a[i] = s[i]
  BY AppendProperties, LenProperties
<1> HIDE DEF a
<1>2. a # << >>
  BY <1>1, EmptySeq
<1>3. Front(a) \in Seq(S) /\ Len(Front(a)) = Len(s) /\ \A i \in 1..Len(s) : Front(a)[i] = a[i]
  BY <1>1, <1>2, FrontLast
<1>4. Front(a) = s
  BY <1>1, <1>3, SeqEqual
<1> QED BY <1>1, <1>2, <1>4 DEF a

LEMMA OpenedGives ==
  ASSUME NEW w \in Walks
  PROVE  /\ Opened(w) \in Walks /\ SameCall(w, Opened(w)) /\ Opened(w).pc = "entry"
         /\ Opened(w).save = w.save /\ Opened(w).list = w.list /\ Opened(w).seen = w.seen
         /\ Len(Opened(w).frames) = Len(w.frames) + 1
         /\ SameFrames(w, Opened(w), Len(w.frames))
         /\ Opened(w).frames[Len(w.frames) + 1] = Frame(w.addr)
<1> DEFINE g == Append(w.frames, Frame(w.addr))
           v == [w EXCEPT !.frames = g, !.pc = "entry"]
<1>1. w.frames \in Seq(FrameSet) /\ Frame(w.addr) \in FrameSet
  BY WalkFields, FrameGives
<1>2. /\ g \in Seq(FrameSet) /\ Len(g) = Len(w.frames) + 1 /\ g[Len(w.frames) + 1] = Frame(w.addr)
      /\ \A k \in 1..Len(w.frames) : g[k] = w.frames[k]
  BY <1>1, AppendProperties
<1> HIDE DEF g
<1>3. /\ v \in Walks /\ v.flags = w.flags /\ v.action = w.action /\ v.pc = "entry" /\ v.save = w.save
      /\ v.list = w.list /\ v.seen = w.seen /\ v.frames = g
  BY <1>2 DEF Walks
<1>4. Opened(w) = v
  BY Zenon DEF Opened, g
<1> HIDE DEF v
<1> QED BY <1>2, <1>3, <1>4 DEF SameCall, SameFrames

LEMMA AfterGives ==
  ASSUME NEW w \in Walks, w.frames # << >>, Len(w.frames) = 1 \/ w.seen # << >>, NEW e \in NameSet
  PROVE  \/ \E v \in Walks : AfterSkips(w, e) /\ After(w, e) = <<v>> /\ Skips(w, v)
         \/ \E v \in Walks : /\ Down(w, e) /\ e.addr \in Loadable(image) \ {OrphanDir}
                             /\ After(w, e) = <<v>> /\ Enters(w, v, e.addr)
         \/ \E v \in Walks : /\ Down(w, e) /\ e.addr = OrphanDir
                             /\ After(w, e) = <<v, SearchAfter(-1)>> /\ Opens(w, v)
         \/ \E v \in Walks : /\ GoesInto(image, e, w.flags) /\ ~IsLoop(w, e) /\ TooFarDown(w)
                             /\ After(w, e) = <<v>> /\ Leaves(w, v, "ERROR", w.seen)
<1> DEFINE n == Len(w.frames)
           seen == Append(w.seen, e.addr)
<1>1. e.addr \in 0..MaxKey
  BY DEF NameSet
<1>2. w.seen \in Seq(0..MaxKey) /\ n \in Nat \ {0}
  BY WalkFields
<1>3. seen \in Seq(0..MaxKey) /\ seen # << >> /\ Front(seen) = w.seen
  BY <1>1, <1>2, FrontOfAppend
<1> HIDE DEF n, seen
<1>4. CASE ~GoesInto(image, e, w.flags) \/ IsLoop(w, e)
  <2>1. After(w, e) = <<NextName(w)>> /\ AfterSkips(w, e)
    BY <1>4 DEF After, AfterSkips
  <2>2. NextName(w) \in Walks /\ Skips(w, NextName(w))
    BY NextNameGives DEF Skips
  <2> QED BY <2>1, <2>2
<1>5. CASE GoesInto(image, e, w.flags) /\ ~IsLoop(w, e) /\ TooFarDown(w)
  <2> DEFINE u == [w EXCEPT !.seen = seen]
  <2>1. /\ u \in Walks /\ u.flags = w.flags /\ u.action = w.action /\ u.save = w.save
        /\ u.list = w.list /\ u.frames = w.frames /\ u.seen = seen
    BY <1>3 DEF Walks
  <2>2. After(w, e) = <<Leave(u, "ERROR")>>
    BY <1>5 DEF After, seen
  <2> HIDE DEF u
  <2> DEFINE v == Leave(u, "ERROR")
  <2>3. "ERROR" \in Returned
    BY DEF Returned
  <2>4. v \in Walks /\ Leaves(u, v, "ERROR", Front(u.seen))
    BY <2>1, <2>3, <1>3, LeaveGives DEF Leaves
  <2>5. Leaves(w, v, "ERROR", w.seen)
    <3> HIDE DEF v
    <3> QED BY <2>1, <2>4, <1>3 DEF Leaves, SameCall, SameFrames
  <2> QED BY <2>2, <2>4, <2>5, <1>5
<1> DEFINE below == [w EXCEPT !.seen = seen, !.addr = e.addr]
<1>6. ASSUME Down(w, e)
      PROVE  /\ After(w, e) = Descend(w, e)
             /\ below \in Walks /\ below.flags = w.flags /\ below.action = w.action
             /\ below.save = w.save /\ below.list = w.list /\ below.frames = w.frames
             /\ below.seen = seen /\ below.addr = e.addr
  BY <1>1, <1>3, <1>6 DEF After, Down, Walks
<1>7. e.addr # OrphanDir => Descend(w, e) = <<Into(below)>>
  BY DEF Descend, seen
<1>8. CASE Down(w, e) /\ e.addr # OrphanDir /\ e.addr \in Loadable(image)
  <2>1. After(w, e) = <<Opened(below)>>
    BY <1>6, <1>7, <1>8 DEF Into, Loadable
  <2> HIDE DEF below
  <2> DEFINE v == Opened(below)
  <2>2. /\ v \in Walks /\ SameCall(below, v) /\ v.pc = "entry"
        /\ v.save = below.save /\ v.list = below.list /\ v.seen = below.seen
        /\ Len(v.frames) = Len(below.frames) + 1 /\ SameFrames(below, v, Len(below.frames))
        /\ v.frames[Len(below.frames) + 1] = Frame(below.addr)
    BY <1>6, <1>8, OpenedGives
  <2> HIDE DEF v
  <2>3. Enters(w, v, e.addr)
    BY <2>2, <1>6, <1>8 DEF Enters, SameCall, SameFrames, seen
  <2>4. After(w, e) = <<v>>
    BY <2>1 DEF v
  <2> QED BY <2>2, <2>3, <2>4, <1>8
<1>9. CASE Down(w, e) /\ e.addr # OrphanDir /\ e.addr \notin Loadable(image)
  <2>1. After(w, e) = <<BackAbove(below, "ERROR")>>
    BY <1>6, <1>7, <1>9 DEF Into, Loadable
  <2> HIDE DEF below
  <2> DEFINE v == BackAbove(below, "ERROR")
  <2>2. "ERROR" \in Returned
    BY DEF Returned
  <2>3. /\ v \in Walks /\ SameCall(below, v) /\ v.list = below.list
        /\ Len(v.frames) = Len(below.frames) /\ SameFrames(below, v, Len(below.frames) - 1)
        /\ Len(below.frames) > 0 =>
             /\ v.pc = "entry" /\ v.seen = Front(below.seen)
             /\ v.frames[Len(below.frames)].dir = below.frames[Len(below.frames)].dir
             /\ v.frames[Len(below.frames)].i = below.frames[Len(below.frames)].i + 1
             /\ v.frames[Len(below.frames)].bak = FALSE
             /\ v.save = IF below.addr = OrphanDir THEN below.frames[Len(below.frames)].bak ELSE below.save
    <3>1. below \in Walks /\ below.seen # << >>
      BY <1>6, <1>9, <1>3
    <3> QED BY <3>1, <2>2, BackAboveGives
  <2> HIDE DEF v
  <2>4. Len(w.frames) > 0
    BY <1>2 DEF n
  <2>5. Skips(w, v)
    BY <2>3, <2>4, <1>6, <1>9, <1>3 DEF Skips, SameCall, SameFrames
  <2>6. After(w, e) = <<v>> /\ AfterSkips(w, e)
    BY <2>1, <1>9 DEF v, AfterSkips, Down
  <2> QED BY <2>3, <2>5, <2>6
<1>10. CASE Down(w, e) /\ e.addr = OrphanDir
  <2> DEFINE s == w.frames
             f == Saving(Last(s), w.save)
             g == Append(Front(s), f)
             v == [below EXCEPT !.save = FALSE, !.pc = "opening", !.frames = g]
  <2>1. s \in Seq(FrameSet) /\ s # << >> /\ n = Len(s) /\ Last(s) = s[n] /\ Last(s) \in FrameSet
        /\ w.save \in BOOLEAN
    BY FrontLast, WalkFields DEF n
  <2>2. f \in FrameSet /\ f.dir = s[n].dir /\ f.i = s[n].i /\ f.bak = w.save
    BY <2>1 DEF Saving, FrameSet
  <2> HIDE DEF f
  <2>3. g \in Seq(FrameSet) /\ Replaced(s, g, f)
    BY <2>1, <2>2, FrontReplaced
  <2>4. After(w, e) = <<v, SearchAfter(-1)>>
    <3>1. Descend(w, e) = <<v, SearchAfter(-1)>>
      BY <1>10, Zenon DEF Descend, seen, g, f
    <3> QED BY <3>1, <1>6, <1>10
  <2> HIDE DEF g, below
  <2>5. /\ v \in Walks /\ v.flags = below.flags /\ v.action = below.action /\ v.pc = "opening"
        /\ v.save = FALSE /\ v.list = below.list /\ v.addr = below.addr /\ v.frames = g
        /\ v.seen = below.seen
    BY <1>6, <1>10, <2>3 DEF Walks
  <2> HIDE DEF v
  <2>6. Opens(w, v)
    BY <2>1, <2>2, <2>3, <2>5, <1>6, <1>10 DEF Opens, SameCall, SameFrames, Replaced, seen
  <2> QED BY <2>4, <2>5, <2>6, <1>10
<1> QED BY <1>4, <1>5, <1>8, <1>9, <1>10 DEF Down

-----------------------------------------------------------------------------
(* The stacks of the threads *)

LEMMA JobKinds ==
  ASSUME NEW j \in Jobs
  PROVE  \/ IsUser(j) /\ j \in UserWalks /\ j \in Walks /\ ~IsSearch(j) /\ ~IsNested(j)
         \/ IsNested(j) /\ j \in NestedWalks /\ j \in Walks /\ ~IsSearch(j) /\ ~IsUser(j)
         \/ IsSearch(j) /\ j \in Searches /\ ~IsUser(j) /\ ~IsNested(j)
<1>1. CASE j \in UserWalks
  BY <1>1 DEF UserWalks, Walks, IsUser, IsSearch, IsNested
<1>2. CASE j \in NestedWalks
  BY <1>2 DEF NestedWalks, Walks, IsUser, IsSearch, IsNested
<1>3. CASE j \in Searches
  BY <1>3 DEF Searches, IsUser, IsSearch, IsNested
<1> QED BY <1>1, <1>2, <1>3 DEF Jobs

LEMMA StackFacts ==
  ASSUME NEW s, StackOK(s)
  PROVE  /\ s \in Seq(Jobs) /\ Len(s) \in Nat /\ (s = << >> <=> Len(s) = 0)
         /\ \A i \in 1..Len(s) : s[i] \in Jobs
         /\ s # << >> => Last(s) = s[Len(s)] /\ Len(s) \in 1..Len(s)
<1>1. s \in Seq(Jobs)
  BY DEF StackOK
<1>2. Len(s) \in Nat /\ (s = << >> <=> Len(s) = 0) /\ \A i \in 1..Len(s) : s[i] \in Jobs
  BY <1>1, LenProperties, EmptySeq, ElementOfSeq
<1>3. s # << >> => Last(s) = s[Len(s)]
  BY <1>1, FrontLast
<1> QED BY <1>1, <1>2, <1>3

LEMMA ReplacedOK ==
  ASSUME NEW s, StackOK(s), s # << >>, NEW r \in Seq(Jobs), NEW j, Replaced(s, r, j),
         \/ IsUser(Last(s)) /\ IsUser(j)
         \/ IsNested(Last(s)) /\ IsNested(j)
         \/ IsSearch(Last(s)) /\ IsSearch(j)
  PROVE  StackOK(r)
<1> DEFINE n == Len(s)
<1>1. /\ n \in Nat \ {0} /\ Last(s) = s[n] /\ n \in 1..n /\ Len(r) = n /\ r[n] = j
      /\ \A i \in 1..n - 1 : r[i] = s[i]
  BY StackFacts DEF Replaced
<1>2. r[n] \in Jobs /\ s[n] \in Jobs
  BY <1>1, StackFacts, ElementOfSeq
<1>3. \A i \in 1..n : IsUser(r[i]) <=> IsUser(s[i])
  BY <1>1, <1>2, JobKinds
<1>4. \A i \in 1..n : IsSearch(r[i]) <=> IsSearch(s[i])
  BY <1>1, <1>2, JobKinds
<1>5. \A i \in 1..n : IsNested(r[i]) <=> IsNested(s[i])
  BY <1>1, <1>2, JobKinds
<1> HIDE DEF n
<1>6. ASSUME NEW i \in 1..n
      PROVE  /\ IsUser(r[i]) => i = 1
             /\ IsSearch(r[i]) => i = 1 \/ (i = 2 /\ IsUser(r[1]))
             /\ IsNested(r[i]) => i > 1 /\ i = n /\ IsSearch(r[i - 1])
  <2>1. /\ IsUser(s[i]) => i = 1
        /\ IsSearch(s[i]) => i = 1 \/ (i = 2 /\ IsUser(s[1]))
        /\ IsNested(s[i]) => i > 1 /\ i = n /\ IsSearch(s[i - 1])
    BY DEF StackOK, n
  <2>2. 1 \in 1..n /\ (i > 1 => i - 1 \in 1..n)
    BY <1>1
  <2> QED BY <2>1, <2>2, <1>3, <1>4, <1>5
<1>7. ASSUME NEW i \in 1..n, i < n
      PROVE  \/ IsUser(r[i]) /\ r[i].pc = "opening" /\ IsSearch(r[i + 1])
             \/ IsSearch(r[i]) /\ r[i].pc = "walking" /\ IsNested(r[i + 1])
  <2>1. \/ IsUser(s[i]) /\ s[i].pc = "opening" /\ IsSearch(s[i + 1])
        \/ IsSearch(s[i]) /\ s[i].pc = "walking" /\ IsNested(s[i + 1])
    BY <1>7 DEF StackOK, n
  <2>2. i + 1 \in 1..n /\ r[i] = s[i]
    BY <1>1, <1>7
  <2> QED BY <2>1, <2>2, <1>3, <1>4, <1>5
<1> QED BY <1>1, <1>6, <1>7 DEF StackOK

LEMMA PushedOK ==
  ASSUME NEW s, StackOK(s), s # << >>, NEW r \in Seq(Jobs), NEW j, NEW k, Pushed(s, r, j, k),
         \/ IsUser(Last(s)) /\ IsUser(j) /\ j.pc = "opening" /\ IsSearch(k)
         \/ IsSearch(Last(s)) /\ IsSearch(j) /\ j.pc = "walking" /\ IsNested(k)
  PROVE  StackOK(r)
<1> DEFINE n == Len(s)
<1>1. /\ n \in Nat \ {0} /\ Last(s) = s[n] /\ n \in 1..n /\ Len(r) = n + 1 /\ r[n] = j /\ r[n + 1] = k
      /\ \A i \in 1..n - 1 : r[i] = s[i]
  BY StackFacts DEF Pushed
<1>2. r[n] \in Jobs /\ s[n] \in Jobs /\ r[n + 1] \in Jobs
  <2>1. n \in 1..n + 1 /\ n + 1 \in 1..n + 1 /\ n \in 1..n
    BY <1>1
  <2> QED BY <2>1, <1>1, StackFacts, ElementOfSeq
<1>3. \A i \in 1..n : IsUser(r[i]) <=> IsUser(s[i])
  BY <1>1, <1>2, JobKinds
<1>4. \A i \in 1..n : IsSearch(r[i]) <=> IsSearch(s[i])
  BY <1>1, <1>2, JobKinds
<1>5. \A i \in 1..n : IsNested(r[i]) <=> IsNested(s[i])
  BY <1>1, <1>2, JobKinds
<1> HIDE DEF n
<1>6. \A i \in 1..n :
        /\ IsUser(s[i]) => i = 1
        /\ IsSearch(s[i]) => i = 1 \/ (i = 2 /\ IsUser(s[1]))
        /\ IsNested(s[i]) => i > 1 /\ i = n /\ IsSearch(s[i - 1])
        /\ i < n => \/ IsUser(s[i]) /\ s[i].pc = "opening" /\ IsSearch(s[i + 1])
                    \/ IsSearch(s[i]) /\ s[i].pc = "walking" /\ IsNested(s[i + 1])
  BY DEF StackOK, n
<1>7. ~IsNested(s[n])
  BY <1>1, <1>2, JobKinds
<1>8. ASSUME NEW i \in 1..n + 1
      PROVE  /\ IsUser(r[i]) => i = 1
             /\ IsSearch(r[i]) => i = 1 \/ (i = 2 /\ IsUser(r[1]))
             /\ IsNested(r[i]) => i > 1 /\ i = n + 1 /\ IsSearch(r[i - 1])
  <2>1. CASE i \in 1..n
    <3>1. 1 \in 1..n /\ ~IsNested(r[i])
      BY <2>1, <1>1, <1>5, <1>6, <1>7
    <3> QED BY <2>1, <3>1, <1>3, <1>4, <1>6
  <2>2. CASE i = n + 1
    <3>1. r[i] = k /\ r[i - 1] = j /\ 1 \in 1..n
      BY <2>2, <1>1
    <3>2. CASE IsSearch(k)
      <4>1. IsUser(s[n]) /\ IsUser(j)
        BY <3>1, <3>2, <1>1, <1>2, JobKinds
      <4>2. n = 1 /\ i = 2 /\ IsUser(r[1])
        BY <4>1, <1>1, <1>6, <2>2
      <4>3. ~IsUser(k) /\ ~IsNested(k)
        BY <3>2, <1>1, <1>2, JobKinds
      <4> QED BY <4>2, <4>3, <3>1
    <3>3. CASE ~IsSearch(k)
      <4>1. IsSearch(j) /\ IsNested(k) /\ ~IsUser(k)
        BY <3>3, <1>1, <1>2, JobKinds
      <4> QED BY <4>1, <3>1, <3>3, <2>2, <1>1
    <3> QED BY <3>2, <3>3
  <2> QED BY <2>1, <2>2, <1>1
<1>9. ASSUME NEW i \in 1..n + 1, i < n + 1
      PROVE  \/ IsUser(r[i]) /\ r[i].pc = "opening" /\ IsSearch(r[i + 1])
             \/ IsSearch(r[i]) /\ r[i].pc = "walking" /\ IsNested(r[i + 1])
  <2>1. CASE i = n
    BY <2>1, <1>1
  <2>2. CASE i < n
    <3>1. i \in 1..n /\ i + 1 \in 1..n /\ r[i] = s[i]
      BY <2>2, <1>1
    <3> QED BY <3>1, <2>2, <1>3, <1>4, <1>5, <1>6
  <2> QED BY <2>1, <2>2, <1>1, <1>9
<1> QED BY <1>1, <1>8, <1>9 DEF StackOK

LEMMA PoppedOK ==
  ASSUME NEW s, StackOK(s), s # << >>
  PROVE  StackOK(Front(s)) /\ Popped(s, Front(s))
<1> DEFINE n == Len(s) - 1
           r == Front(s)
<1>1. /\ r \in Seq(Jobs) /\ Len(r) = n /\ n \in Nat /\ Popped(s, r)
      /\ \A i \in 1..n : r[i] = s[i]
  BY StackFacts, FrontPopped DEF Popped
<1> HIDE DEF r
<1>2. \A i \in 1..n : i \in 1..Len(s) /\ i < Len(s) /\ (i > 1 => i - 1 \in 1..n) /\ 1 \in 1..n
  BY <1>1
<1>3. \A i \in 1..n : /\ IsUser(s[i]) => i = 1
                      /\ IsSearch(s[i]) => i = 1 \/ (i = 2 /\ IsUser(s[1]))
                      /\ ~IsNested(s[i])
  <2> TAKE i \in 1..n
  <2>1. i # Len(s) /\ i \in 1..Len(s)
    BY <1>1
  <2> QED BY <2>1 DEF StackOK
<1>4. \A i \in 1..n : i < n =>
        \/ IsUser(s[i]) /\ s[i].pc = "opening" /\ IsSearch(s[i + 1])
        \/ IsSearch(s[i]) /\ s[i].pc = "walking" /\ IsNested(s[i + 1])
  BY <1>2 DEF StackOK
<1>5. \A i \in 1..n : i < n => i + 1 \in 1..n
  BY <1>1
<1> HIDE DEF n
<1> QED BY <1>1, <1>2, <1>3, <1>4, <1>5 DEF StackOK, r

-----------------------------------------------------------------------------
(* The file system *)

LEMMA ImageFacts ==
  ASSUME disk \in DOMAIN Images
  PROVE  /\ DOMAIN image.names \subseteq Addresses /\ DOMAIN image.meta \subseteq Addresses
         /\ \A d \in DOMAIN image.names : image.names[d] \in Seq(NameSet)
         /\ \A a \in DOMAIN image.meta : image.meta[a].dir \in BOOLEAN /\ image.meta[a].alloc \in BOOLEAN
         /\ Deleted(image) \subseteq Addresses /\ Addresses \subseteq 0..MaxKey
         /\ OrphanDir \notin Addresses /\ Root \in Addresses /\ OrphanDir \in 0..MaxKey
<1>1. IsOf(image.names, Seq(NameSet)) /\ IsOf(image.meta, [dir : BOOLEAN, alloc : BOOLEAN])
  BY ImagesAssumption DEF image
<1>2. DOMAIN image.names \subseteq Addresses /\ DOMAIN image.meta \subseteq Addresses
  BY <1>1 DEF IsOf
<1>3. \A d \in DOMAIN image.names : image.names[d] \in Seq(NameSet)
  BY <1>1 DEF IsOf
<1>4. \A a \in DOMAIN image.meta : image.meta[a] \in [dir : BOOLEAN, alloc : BOOLEAN]
  BY <1>1 DEF IsOf
<1>5. Deleted(image) \subseteq Addresses
  BY <1>2 DEF Deleted
<1>6. Root \in Addresses /\ OrphanDir \in 0..MaxKey
  BY ImagesAssumption, DirTreeAssumption DEF Addresses
<1> QED BY <1>2, <1>3, <1>4, <1>5, <1>6 DEF Addresses

\* The names that a walk goes through in a directory are those it holds.
LEMMA NamesFacts ==
  ASSUME disk \in DOMAIN Images, NEW d \in DOMAIN image.names
  PROVE  /\ Names(d) \in Seq(NameSet)
         /\ ToSet(Names(d)) = ToSet(image.names[d])
<1>1. d # OrphanDir /\ image.names[d] \in Seq(NameSet)
  BY ImageFacts
<1>2. Names(d) = [image.names EXCEPT ![Root] = PrioritizeDirNames(@)][d]
  BY <1>1 DEF Names, Listed, image
<1>3. CASE d = Root
  <2>1. Names(d) = PrioritizeDirNames(image.names[d])
    BY <1>2, <1>3
  <2> QED BY <2>1, <1>1, PrioritizedNames
<1>4. CASE d # Root
  BY <1>1, <1>2, <1>4
<1> QED BY <1>3, <1>4

LEMMA OrphanNamesFacts ==
  ASSUME disk \in DOMAIN Images, orphan_dir \in Seq(Deleted(image))
  PROVE  /\ Names(OrphanDir) \in Seq(NameSet) /\ Len(Names(OrphanDir)) = Len(orphan_dir)
         /\ \A i \in 1..Len(orphan_dir) : Names(OrphanDir)[i] = OrphanName(orphan_dir[i])
<1>1. Len(orphan_dir) \in Nat /\ DOMAIN orphan_dir = 1..Len(orphan_dir)
  BY LenProperties
<1>2. \A i \in 1..Len(orphan_dir) : orphan_dir[i] \in 0..MaxKey
  BY <1>1, ElementOfSeq, ImageFacts
<1>3. \A a \in 0..MaxKey : OrphanName(a) \in NameSet
  BY DEF OrphanName, NameSet
<1>4. Names(OrphanDir) = [i \in 1..Len(orphan_dir) |-> OrphanName(orphan_dir[i])]
  BY <1>1 DEF Names
<1> DEFINE n == Len(orphan_dir)
           s == Names(OrphanDir)
<1> HIDE DEF n, s
<1>5. s = [i \in 1..n |-> s[i]] /\ \A i \in 1..n : s[i] = OrphanName(orphan_dir[i]) /\ s[i] \in NameSet
  BY <1>2, <1>3, <1>4 DEF s, n
<1>6. n \in Nat
  BY <1>1 DEF n
<1>7. s \in Seq(NameSet) /\ Len(s) = n
  BY <1>5, <1>6
<1> QED BY <1>5, <1>7 DEF s, n

-----------------------------------------------------------------------------
(* The type invariant *)

\* A step of thread t, by what it does to the stacks and to what is shared.
LEMMA TypeStep ==
  ASSUME TypeInv, NEW t \in Threads, disk' = disk, CallerOK',
         SharedOK(image, list_inum_named', orphan_dir', orphan_dir_lock'),
         NEW r, NEW b \in Returned,
         stack' = [stack EXCEPT ![t] = r], back' = [back EXCEPT ![t] = b],
         ThreadOK(image, orphan_dir', orphan_dir_lock', t, r, b),
         orphan_dir # NULL => orphan_dir' = orphan_dir,
         \A u \in Threads \ {t} :
           orphan_dir_lock = u => orphan_dir_lock' = u /\ orphan_dir' = orphan_dir
  PROVE  TypeInv'
<1>1. image' = image
  BY DEF image
<1>2. r \in Seq(Jobs)
  BY DEF ThreadOK, StackOK
<1>3. stack' \in [Threads -> Seq(Jobs)] /\ back' \in [Threads -> Returned] /\ disk' \in DOMAIN Images
  BY <1>2 DEF TypeInv
<1>4. ASSUME NEW u \in Threads
      PROVE  ThreadOK(image, orphan_dir', orphan_dir_lock', u, stack'[u], back'[u])
  <2>1. CASE u = t
    <3>1. stack'[u] = r /\ back'[u] = b
      BY <2>1 DEF TypeInv
    <3> QED BY <2>1, <3>1
  <2>2. CASE u # t
    <3>1. stack'[u] = stack[u] /\ back'[u] = back[u]
      BY <2>2 DEF TypeInv
    <3>2. ThreadOK(image, orphan_dir, orphan_dir_lock, u, stack[u], back[u])
      BY DEF TypeInv
    <3>3. StackOK(stack[u]) /\ FindsOrphans(stack[u], back[u], orphan_dir')
      BY <3>2 DEF ThreadOK, FindsOrphans
    <3>4. ASSUME NEW i \in 1..Len(stack[u])
          PROVE  JobOK(image, orphan_dir', orphan_dir_lock', u, stack[u][i])
      <4>1. JobOK(image, orphan_dir, orphan_dir_lock, u, stack[u][i])
        BY <3>2 DEF ThreadOK
      <4>2. WalkOK(image, orphan_dir, stack[u][i]) => WalkOK(image, orphan_dir', stack[u][i])
        BY DEF WalkOK
      <4>3. SearchOK(image, orphan_dir, orphan_dir_lock, u, stack[u][i])
              => SearchOK(image, orphan_dir', orphan_dir_lock', u, stack[u][i])
        BY <2>2 DEF SearchOK
      <4> QED BY <4>1, <4>2, <4>3 DEF JobOK
    <3> QED BY <3>1, <3>3, <3>4 DEF ThreadOK
  <2> QED BY <2>1, <2>2
<1> QED BY <1>1, <1>3, <1>4 DEF TypeInv

\* The moves keep the walk as it is described.
LEMMA SkipsOK ==
  ASSUME NEW im, NEW od, NEW w \in Walks, WalkOK(im, od, w), w.pc \in {"entry", "opening"},
         NEW v \in Walks, Skips(w, v)
  PROVE  WalkOK(im, od, v)
<1> DEFINE n == Len(w.frames)
<1>1. n \in Nat \ {0} /\ Len(v.frames) = n /\ v.frames # << >> /\ Len(w.seen) \in Nat
  BY WalkFields, LenProperties DEF WalkOK, Skips
<1>2. \A i \in 1..n : v.frames[i].dir = w.frames[i].dir
  <2> TAKE i \in 1..n
  <2>1. i \in 1..n - 1 \/ i = n
    BY <1>1
  <2> QED BY <2>1 DEF Skips, SameFrames
<1>3. \A i \in 1..n : w.frames[i].dir \in Loadable(im) \/ (w.frames[i].dir = OrphanDir /\ od # NULL)
  BY DEF WalkOK
<1>4. v.seen = w.seen /\ v.pc = "entry" /\ Pending(v) = 0 /\ Pending(w) >= 0 /\ Pending(w) \in Nat
  BY DEF Skips, Pending
<1>5. OnSeen(v)
  <2>1. ASSUME NEW i \in 2..n
        PROVE  \E j \in 1..Len(w.seen) :
                 w.seen[j] = v.frames[i].dir /\ j + (n - i) + Pending(v) <= Len(w.seen)
    <3>1. PICK j \in 1..Len(w.seen) :
            w.seen[j] = w.frames[i].dir /\ j + (n - i) + Pending(w) <= Len(w.seen)
      BY DEF WalkOK, OnSeen
    <3>2. i \in 1..n
      BY <1>1
    <3>3. j + (n - i) + Pending(v) <= Len(w.seen)
      <4> HIDE DEF n
      <4> QED BY <1>1, <1>4, <3>1
    <3> QED BY <3>1, <3>2, <3>3, <1>2
  <2> QED BY <2>1, <1>1, <1>4 DEF OnSeen
<1> HIDE DEF n
<1> QED BY <1>1, <1>2, <1>3, <1>4, <1>5 DEF WalkOK

LEMMA EntersOK ==
  ASSUME NEW im, NEW od, NEW w \in Walks, WalkOK(im, od, w), w.pc \in {"entry", "opening"},
         NEW v \in Walks, NEW d \in 0..MaxKey, d \in Loadable(im) \/ (d = OrphanDir /\ od # NULL),
         \/ Enters(w, v, d) /\ w.pc = "entry"
         \/ /\ w.pc = "opening" /\ d = OrphanDir /\ v.seen = w.seen /\ v.pc = "entry"
            /\ Len(v.frames) = Len(w.frames) + 1 /\ SameFrames(w, v, Len(w.frames))
            /\ v.frames[Len(w.frames) + 1] = Frame(d)
  PROVE  WalkOK(im, od, v)
<1> DEFINE n == Len(w.frames)
           l == Len(v.seen)
<1>1. n \in Nat /\ v.pc = "entry" /\ Len(v.frames) = n + 1 /\ v.frames # << >> /\ Pending(v) = 0
  BY WalkFields DEF Enters, Pending
<1>2. \A i \in 1..n : v.frames[i].dir = w.frames[i].dir
  BY DEF Enters, SameFrames
<1>3. v.frames[n + 1].dir = d
  BY FrameGives DEF Enters
<1>4. \A i \in 1..n : w.frames[i].dir \in Loadable(im) \/ (w.frames[i].dir = OrphanDir /\ od # NULL)
  BY DEF WalkOK
<1>5. /\ l \in Nat /\ l > 0 /\ v.seen[l] = d
      /\ Len(w.seen) + 1 = l + Pending(w) /\ Pending(w) \in {0, 1} /\ Len(w.seen) \in Nat
      /\ \A j \in 1..Len(w.seen) : v.seen[j] = w.seen[j]
  <2>1. w.seen \in Seq(0..MaxKey) /\ Len(w.seen) \in Nat
    BY WalkFields, LenProperties
  <2>2. CASE Enters(w, v, d) /\ w.pc = "entry"
    BY <2>1, <2>2, AppendProperties DEF Enters, Pending
  <2>3. CASE w.pc = "opening" /\ d = OrphanDir /\ v.seen = w.seen
    BY <2>1, <2>3 DEF WalkOK, Pending
  <2> QED BY <2>2, <2>3
<1>6. OnSeen(v)
  <2>1. ASSUME NEW i \in 2..n + 1
        PROVE  \E j \in 1..l : v.seen[j] = v.frames[i].dir /\ j + ((n + 1) - i) + Pending(v) <= l
    <3>1. CASE i = n + 1
      <4>1. v.seen[l] = v.frames[i].dir /\ l + ((n + 1) - i) + Pending(v) <= l /\ l \in 1..l
        BY <3>1, <1>1, <1>3, <1>5
      <4> QED BY <4>1
    <3>2. CASE i # n + 1
      <4>1. i \in 2..n /\ i \in 1..n
        BY <3>2, <1>1
      <4>2. PICK j \in 1..Len(w.seen) :
              w.seen[j] = w.frames[i].dir /\ j + (n - i) + Pending(w) <= Len(w.seen)
        BY <4>1 DEF WalkOK, OnSeen
      <4> HIDE DEF n, l
      <4>3. j + ((n + 1) - i) + Pending(v) <= l /\ j \in 1..l
        BY <1>1, <1>5, <4>1, <4>2
      <4> QED BY <4>1, <4>2, <4>3, <1>2, <1>5
    <3> QED BY <3>1, <3>2
  <2> QED BY <2>1, <1>1 DEF OnSeen
<1>7. \A i \in 1..n + 1 : v.frames[i].dir \in Loadable(im) \/ (v.frames[i].dir = OrphanDir /\ od # NULL)
  <2> TAKE i \in 1..n + 1
  <2>1. i \in 1..n \/ i = n + 1
    BY <1>1
  <2> QED BY <2>1, <1>2, <1>3, <1>4
<1> HIDE DEF n, l
<1> QED BY <1>1, <1>6, <1>7 DEF WalkOK

LEMMA OpensOK ==
  ASSUME NEW im, NEW od, NEW w \in Walks, WalkOK(im, od, w), w.pc = "entry",
         NEW v \in Walks, Opens(w, v), OrphanDir \in 0..MaxKey
  PROVE  WalkOK(im, od, v)
<1> DEFINE n == Len(w.frames)
           l == Len(w.seen)
<1>1. n \in Nat \ {0} /\ Len(v.frames) = n /\ v.frames # << >> /\ v.pc = "opening" /\ v.addr = OrphanDir
  BY WalkFields DEF WalkOK, Opens
<1>2. \A i \in 1..n : v.frames[i].dir = w.frames[i].dir
  <2> TAKE i \in 1..n
  <2>1. i \in 1..n - 1 \/ i = n
    BY <1>1
  <2> QED BY <2>1 DEF Opens, SameFrames
<1>3. \A i \in 1..n : w.frames[i].dir \in Loadable(im) \/ (w.frames[i].dir = OrphanDir /\ od # NULL)
  BY DEF WalkOK
<1>4. /\ l \in Nat /\ Len(v.seen) = l + 1 /\ v.seen[l + 1] = OrphanDir /\ Pending(v) = 1 /\ Pending(w) = 0
      /\ \A j \in 1..l : v.seen[j] = w.seen[j]
  <2>1. w.seen \in Seq(0..MaxKey) /\ l \in Nat
    BY WalkFields, LenProperties
  <2> QED BY <2>1, AppendProperties DEF Opens, Pending
<1>5. OnSeen(v)
  <2>1. ASSUME NEW i \in 2..n
        PROVE  \E j \in 1..l + 1 : v.seen[j] = v.frames[i].dir /\ j + (n - i) + Pending(v) <= l + 1
    <3>1. PICK j \in 1..l : w.seen[j] = w.frames[i].dir /\ j + (n - i) + Pending(w) <= l
      BY DEF WalkOK, OnSeen
    <3>2. i \in 1..n
      BY <1>1
    <3> HIDE DEF n, l
    <3>3. j + (n - i) + Pending(v) <= l + 1 /\ j \in 1..l + 1
      BY <1>1, <1>4, <3>1
    <3> QED BY <3>1, <3>2, <3>3, <1>2, <1>4
  <2> QED BY <2>1, <1>1, <1>4 DEF OnSeen
<1> HIDE DEF n, l
<1> QED BY <1>1, <1>2, <1>3, <1>4, <1>5 DEF WalkOK

LEMMA LeavesOK ==
  ASSUME NEW im, NEW od, NEW w \in Walks, WalkOK(im, od, w), w.pc = "entry",
         NEW v \in Walks, NEW ret, NEW seen, Leaves(w, v, ret, seen),
         Len(w.frames) > 1 => seen = w.seen \/ seen = Front(w.seen)
  PROVE  WalkOK(im, od, v)
<1> DEFINE n == Len(w.frames) - 1
<1>1. n \in Nat /\ Len(v.frames) = n /\ (v.frames = << >> <=> n = 0) /\ Len(w.frames) = n + 1
  <2>1. Len(w.frames) \in Nat /\ Len(w.frames) # 0
    BY WalkFields DEF WalkOK
  <2>2. Len(v.frames) = Len(w.frames) - 1
    BY DEF Leaves
  <2>3. v.frames = << >> <=> Len(v.frames) = 0
    BY WalkFields
  <2> QED BY <2>1, <2>2, <2>3
<1>2. \A i \in 1..n : v.frames[i].dir = w.frames[i].dir
  <2> TAKE i \in 1..n
  <2>1. i \in 1..n - 1 \/ (i = n /\ n > 0)
    BY <1>1
  <2> QED BY <2>1 DEF Leaves, SameFrames
<1>3. \A i \in 1..n : w.frames[i].dir \in Loadable(im) \/ (w.frames[i].dir = OrphanDir /\ od # NULL)
  BY <1>1 DEF WalkOK
<1>4. v.pc = IF n = 0 THEN "returned" ELSE "entry"
  BY <1>1 DEF Leaves
<1>5. n > 0 => v.seen = seen
  BY DEF Leaves
<1>6. OnSeen(v)
  <2>1. CASE n = 0
    BY <2>1, <1>1 DEF OnSeen
  <2>2. CASE n > 0
    <3>1. PICK k \in 1..Len(w.seen) : k + ((n + 1) - (n + 1)) + Pending(w) <= Len(w.seen)
      <4>1. n + 1 \in 2..n + 1
        BY <2>2, <1>1
      <4> QED BY <4>1, <1>1 DEF WalkOK, OnSeen
    <3>2. w.seen \in Seq(0..MaxKey) /\ w.seen # << >> /\ Len(w.seen) \in Nat
      BY <3>1, WalkFields, LenProperties
    <3>3. Len(Front(w.seen)) = Len(w.seen) - 1 /\ \A j \in 1..Len(w.seen) - 1 : Front(w.seen)[j] = w.seen[j]
      BY <3>2, FrontLast
    <3>4. /\ Len(seen) >= Len(w.seen) - 1 /\ Len(seen) \in Nat
          /\ \A j \in 1..Len(w.seen) - 1 : j \in 1..Len(seen) /\ seen[j] = w.seen[j]
      <4>1. seen = w.seen \/ seen = Front(w.seen)
        BY <2>2, <1>1
      <4> QED BY <4>1, <3>2, <3>3
    <3>5. Pending(w) = 0 /\ Pending(v) = 0 /\ v.seen = seen
      BY <2>2, <1>4, <1>5 DEF Pending
    <3>6. ASSUME NEW i \in 2..n
          PROVE  \E j \in 1..Len(seen) : seen[j] = v.frames[i].dir /\ j + (n - i) + Pending(v) <= Len(seen)
      <4>1. PICK j \in 1..Len(w.seen) :
              w.seen[j] = w.frames[i].dir /\ j + ((n + 1) - i) + Pending(w) <= Len(w.seen)
        <5>1. i \in 2..Len(w.frames)
          BY <1>1
        <5> QED BY <5>1, <1>1 DEF WalkOK, OnSeen
      <4>2. i \in 1..n
        BY <1>1
      <4> HIDE DEF n
      <4>3. j \in 1..Len(w.seen) - 1 /\ j + (n - i) + Pending(v) <= Len(seen)
        <5> DEFINE l == Len(w.seen)
                   m == Len(seen)
        <5>1. /\ l \in Nat /\ m \in Nat /\ m >= l - 1 /\ j \in 1..l /\ j + ((n + 1) - i) + 0 <= l
              /\ n \in Nat /\ i \in 1..n
          BY <1>1, <3>2, <3>4, <3>5, <4>1, <4>2
        <5> HIDE DEF l, m
        <5>2. j \in 1..l - 1 /\ j + (n - i) + 0 <= m
          BY <5>1
        <5> QED BY <5>2, <3>5 DEF l, m
      <4> QED BY <4>1, <4>2, <4>3, <1>2, <3>4
    <3> QED BY <3>5, <3>6, <1>1 DEF OnSeen
  <2> QED BY <2>1, <2>2, <1>1
<1> HIDE DEF n
<1> QED BY <1>1, <1>2, <1>3, <1>4, <1>6 DEF WalkOK

-----------------------------------------------------------------------------
(* A step of a thread, by what it does to its stack *)

LEMMA ThreadFacts ==
  ASSUME TypeInv, NEW t \in Threads
  PROVE  /\ ThreadOK(image, orphan_dir, orphan_dir_lock, t, stack[t], back[t])
         /\ StackOK(stack[t]) /\ disk \in DOMAIN Images
         /\ stack[t] \in Seq(Jobs) /\ back[t] \in Returned
         /\ stack \in [Threads -> Seq(Jobs)] /\ back \in [Threads -> Returned]
         /\ SharedOK(image, list_inum_named, orphan_dir, orphan_dir_lock)
BY DEF TypeInv, ThreadOK

LEMMA TopFacts ==
  ASSUME TypeInv, NEW t \in Threads, NEW k \in {"walk", "search"}, NEW p, At(t, k, p)
  PROVE  /\ stack[t] # << >> /\ Len(stack[t]) \in Nat \ {0}
         /\ Top(t) = stack[t][Len(stack[t])] /\ Top(t) = Last(stack[t])
         /\ Top(t) \in Jobs /\ Top(t).kind = k /\ Top(t).pc = p
         /\ k = "walk" => /\ Top(t) \in Walks /\ WalkOK(image, orphan_dir, Top(t))
                          /\ IsUser(Top(t)) \/ IsNested(Top(t))
         /\ k = "search" => /\ Top(t) \in Searches /\ IsSearch(Top(t))
                            /\ SearchOK(image, orphan_dir, orphan_dir_lock, t, Top(t))
<1> DEFINE s == stack[t]
           j == Top(t)
<1>1. s # << >> /\ j = Last(s) /\ j.kind = k /\ j.pc = p
  BY DEF At, Top
<1>2. StackOK(s) /\ \A i \in 1..Len(s) : JobOK(image, orphan_dir, orphan_dir_lock, t, s[i])
  BY ThreadFacts DEF ThreadOK
<1>3. j = s[Len(s)] /\ Len(s) \in 1..Len(s) /\ Len(s) \in Nat \ {0} /\ s[Len(s)] \in Jobs
  BY <1>1, <1>2, StackFacts
<1>4. JobOK(image, orphan_dir, orphan_dir_lock, t, j)
  BY <1>2, <1>3
<1>5. \/ IsUser(j) /\ j \in Walks /\ ~IsSearch(j)
      \/ IsNested(j) /\ j \in Walks /\ ~IsSearch(j)
      \/ IsSearch(j) /\ j \in Searches
  BY <1>3, JobKinds
<1> HIDE DEF s, j
<1>6. k = "walk" => j \in Walks /\ WalkOK(image, orphan_dir, j) /\ (IsUser(j) \/ IsNested(j))
  BY <1>1, <1>4, <1>5 DEF JobOK, IsSearch
<1>7. k = "search" => j \in Searches /\ IsSearch(j) /\ SearchOK(image, orphan_dir, orphan_dir_lock, t, j)
  BY <1>1, <1>4, <1>5 DEF JobOK, IsUser, IsNested
<1> QED BY <1>1, <1>3, <1>6, <1>7 DEF s, j

LEMMA GoesOnOK ==
  ASSUME TypeInv, NEW t \in Threads, stack[t] # << >>, disk' = disk, CallerOK',
         UNCHANGED <<list_inum_named, orphan_dir>>,
         orphan_dir_lock' = orphan_dir_lock \/ (orphan_dir_lock = NULL /\ orphan_dir_lock' = t),
         NEW j \in Jobs, SameKind(Last(stack[t]), j), GoesOn(t, j),
         JobOK(image, orphan_dir, orphan_dir_lock', t, j), IsUser(j) => j.pc # "opening"
  PROVE  TypeInv'
<1> DEFINE s == stack[t]
           r == Append(Front(s), j)
           n == Len(s)
           lock == orphan_dir_lock'
<1>1. StackOK(s) /\ s \in Seq(Jobs) /\ n \in Nat \ {0} /\ back[t] \in Returned
      /\ back \in [Threads -> Returned]
  BY ThreadFacts, FrontLast
<1>2. r \in Seq(Jobs) /\ Replaced(s, r, j)
  BY <1>1, FrontReplaced
<1>3. stack' = [stack EXCEPT ![t] = r] /\ back' = back
  BY DEF GoesOn
<1>3a. back' = [back EXCEPT ![t] = back[t]]
  BY <1>1, <1>3
<1> HIDE DEF r
<1>4. StackOK(r)
  BY <1>1, <1>2, ReplacedOK DEF SameKind
<1>5. Len(r) = n /\ r[n] = j /\ \A i \in 1..n - 1 : r[i] = s[i]
  BY <1>2 DEF Replaced
<1>6. ASSUME NEW i \in 1..n
      PROVE  JobOK(image, orphan_dir, lock, t, r[i])
  <2>1. CASE i = n
    BY <2>1, <1>5
  <2>2. CASE i # n
    <3>1. i \in 1..n - 1
      BY <2>2, <1>1
    <3>2. JobOK(image, orphan_dir, orphan_dir_lock, t, s[i])
      BY ThreadFacts DEF ThreadOK
    <3>3. SearchOK(image, orphan_dir, orphan_dir_lock, t, s[i]) => SearchOK(image, orphan_dir, lock, t, s[i])
      BY DEF SearchOK
    <3> QED BY <3>1, <3>2, <3>3, <1>5 DEF JobOK
  <2> QED BY <2>1, <2>2
<1>7. Last(r) = j
  <2>1. r # << >>
    BY <1>1, <1>2, <1>5, EmptySeq
  <2> QED BY <2>1, <1>2, <1>5, FrontLast
<1>8. FindsOrphans(r, back[t], orphan_dir)
  BY <1>7 DEF FindsOrphans
<1>9. ThreadOK(image, orphan_dir, lock, t, r, back[t])
  BY <1>4, <1>5, <1>6, <1>8 DEF ThreadOK
<1>10. SharedOK(image, list_inum_named, orphan_dir, orphan_dir_lock)
  BY ThreadFacts
<1>11. SharedOK(image, list_inum_named', orphan_dir', lock)
  BY <1>10 DEF SharedOK
<1>12. \A u \in Threads \ {t} : orphan_dir_lock = u => lock = u /\ orphan_dir' = orphan_dir
  BY CallsAssumption
<1> QED BY <1>1, <1>3, <1>3a, <1>9, <1>11, <1>12, TypeStep

LEMMA StartsOK ==
  ASSUME TypeInv, NEW t \in Threads, NEW s, StackOK(s), s # << >>, disk' = disk, CallerOK',
         UNCHANGED <<orphan_dir, orphan_dir_lock, back>>, list_inum_named' \in Lists,
         \A i \in 1..Len(s) - 1 : JobOK(image, orphan_dir, orphan_dir_lock, t, s[i]),
         NEW j \in Jobs, NEW k \in Jobs,
         \/ IsUser(Last(s)) /\ IsUser(j) /\ j.pc = "opening" /\ IsSearch(k)
         \/ IsSearch(Last(s)) /\ IsSearch(j) /\ j.pc = "walking" /\ IsNested(k),
         stack' = [stack EXCEPT ![t] = Front(s) \o <<j, k>>],
         JobOK(image, orphan_dir, orphan_dir_lock, t, j),
         JobOK(image, orphan_dir, orphan_dir_lock, t, k)
  PROVE  TypeInv'
<1> DEFINE r == Front(s) \o <<j, k>>
           n == Len(s)
<1>1. s \in Seq(Jobs) /\ n \in Nat \ {0} /\ back[t] \in Returned /\ back \in [Threads -> Returned]
  BY ThreadFacts, FrontLast DEF StackOK
<1>2. r \in Seq(Jobs) /\ Pushed(s, r, j, k)
  BY <1>1, FrontPushed
<1>3. back' = [back EXCEPT ![t] = back[t]]
  BY <1>1
<1>4. StackOK(r)
  BY <1>2, PushedOK
<1> HIDE DEF r
<1>5. Len(r) = n + 1 /\ r[n] = j /\ r[n + 1] = k /\ \A i \in 1..n - 1 : r[i] = s[i]
  BY <1>2 DEF Pushed
<1>6. ASSUME NEW i \in 1..n + 1
      PROVE  JobOK(image, orphan_dir, orphan_dir_lock, t, r[i])
  <2>1. i \in 1..n - 1 \/ i = n \/ i = n + 1
    BY <1>1
  <2> QED BY <2>1, <1>5
<1>7. Last(r) = k
  <2>1. r # << >>
    BY <1>1, <1>2, <1>5, EmptySeq
  <2> QED BY <2>1, <1>2, <1>5, FrontLast
<1>8. ~IsUser(k)
  BY JobKinds
<1>9. ThreadOK(image, orphan_dir, orphan_dir_lock, t, r, back[t])
  BY <1>4, <1>5, <1>6, <1>7, <1>8 DEF ThreadOK, FindsOrphans
<1>10. SharedOK(image, list_inum_named, orphan_dir, orphan_dir_lock)
  BY ThreadFacts
<1>11. SharedOK(image, list_inum_named', orphan_dir', orphan_dir_lock')
  BY <1>10 DEF SharedOK
<1>12. stack' = [stack EXCEPT ![t] = r]
  BY DEF r
<1> DEFINE b == back[t]
<1>13. /\ b \in Returned /\ back' = [back EXCEPT ![t] = b]
       /\ ThreadOK(image, orphan_dir', orphan_dir_lock', t, r, b)
  BY <1>1, <1>3, <1>9
<1>14. /\ orphan_dir # NULL => orphan_dir' = orphan_dir
       /\ \A v \in Threads \ {t} : orphan_dir_lock = v => orphan_dir_lock' = v /\ orphan_dir' = orphan_dir
  OBVIOUS
<1> HIDE DEF n, b
<1> QED BY <1>11, <1>12, <1>13, <1>14, TypeStep

LEMMA ReturnsOK ==
  ASSUME TypeInv, NEW t \in Threads, stack[t] # << >>, disk' = disk, CallerOK',
         NEW b \in Returned, Returns(t, b),
         SharedOK(image, list_inum_named', orphan_dir', orphan_dir_lock'),
         \/ IsSearch(Last(stack[t])) /\ (b # "ERROR" => orphan_dir' # NULL)
         \/ IsUser(Last(stack[t])) /\ UNCHANGED <<orphan_dir, orphan_dir_lock>>
         \/ IsNested(Last(stack[t])) /\ UNCHANGED <<orphan_dir, orphan_dir_lock>>,
         orphan_dir # NULL => orphan_dir' = orphan_dir,
         \A u \in Threads \ {t} :
           orphan_dir_lock = u => orphan_dir_lock' = u /\ orphan_dir' = orphan_dir
  PROVE  TypeInv'
<1> DEFINE s == stack[t]
           r == Front(s)
           n == Len(s)
           od == orphan_dir'
           lock == orphan_dir_lock'
<1>1. StackOK(s) /\ s \in Seq(Jobs) /\ n \in Nat \ {0} /\ Last(s) = s[n] /\ s[n] \in Jobs
  BY ThreadFacts, FrontLast
<1>2. StackOK(r) /\ Popped(s, r) /\ r \in Seq(Jobs)
  BY <1>1, PoppedOK DEF StackOK
<1>3. Len(r) = n - 1 /\ \A i \in 1..n - 1 : r[i] = s[i]
  BY <1>2 DEF Popped
<1>4. \A i \in 1..n : s[i] \in Jobs /\ JobOK(image, orphan_dir, orphan_dir_lock, t, s[i])
  BY <1>1, ThreadFacts, StackFacts DEF ThreadOK
<1>5. stack' = [stack EXCEPT ![t] = r] /\ back' = [back EXCEPT ![t] = b]
  BY DEF Returns
<1> HIDE DEF r
<1>6. ASSUME NEW i \in 1..n - 1
      PROVE  JobOK(image, od, lock, t, s[i])
  <2>1. i \in 1..n /\ i < n
    BY <1>1
  <2>2. CASE IsSearch(s[n])
    <3>1. ~IsNested(s[n]) /\ ~IsUser(s[n])
      BY <2>2, <1>1, JobKinds
    <3>2. n = 2 /\ IsUser(s[1])
      <4>1. n \in 1..n /\ n # 1
        BY <2>1, <1>1
      <4> QED BY <4>1, <2>2, <1>1 DEF StackOK
    <3>3. i = 1
      BY <3>2
    <3>4. ~IsSearch(s[i])
      BY <3>2, <3>3, <1>4, <2>1, JobKinds
    <3>5. WalkOK(image, orphan_dir, s[i]) => WalkOK(image, od, s[i])
      BY DEF WalkOK
    <3> QED BY <3>4, <3>5, <1>4, <2>1 DEF JobOK, IsSearch
  <2>3. CASE UNCHANGED <<orphan_dir, orphan_dir_lock>>
    BY <2>1, <2>3, <1>4
  <2> QED BY <2>2, <2>3, <1>1
<1>7. FindsOrphans(r, b, od)
  <2> SUFFICES ASSUME r # << >>, IsUser(Last(r)), Last(r).pc = "opening", b # "ERROR"
               PROVE  od # NULL
    BY DEF FindsOrphans
  <2>1. Len(r) \in Nat \ {0} /\ Last(r) = r[Len(r)]
    BY <1>2, FrontLast
  <2>2. n > 1 /\ Last(r) = s[n - 1] /\ n - 1 \in 1..n
    BY <2>1, <1>1, <1>3
  <2>3. IsUser(s[n - 1]) /\ ~IsSearch(s[n - 1])
    BY <2>2, <1>4, JobKinds
  <2>4. IsSearch(s[n])
    <3>1. (n - 1) + 1 = n /\ n - 1 < n
      BY <1>1
    <3> QED BY <3>1, <2>2, <2>3, <1>1 DEF StackOK
  <2>5. ~IsUser(s[n]) /\ ~IsNested(s[n])
    BY <2>4, <1>1, JobKinds
  <2> QED BY <2>4, <2>5, <1>1
<1>8. ThreadOK(image, od, lock, t, r, b)
  BY <1>2, <1>3, <1>6, <1>7 DEF ThreadOK
<1> QED BY <1>5, <1>8, TypeStep

-----------------------------------------------------------------------------
(* The steps of a walk *)

LEMMA WalkIsJob ==
  ASSUME NEW w \in Walks, w \in Jobs, NEW v \in Walks, SameCall(w, v), IsUser(w) \/ v.pc # "opening"
  PROVE  v \in Jobs /\ SameKind(w, v) /\ (IsUser(w) <=> IsUser(v)) /\ (IsNested(w) <=> IsNested(v))
<1>1. w.kind = "walk" /\ v.kind = "walk" /\ v.action = w.action /\ v.flags = w.flags
  BY WalkFields DEF SameCall
<1>2. CASE w.action = "user"
  BY <1>1, <1>2 DEF IsUser, IsNested, UserWalks, Jobs, SameKind
<1>3. CASE w.action # "user"
  <2>1. w \in NestedWalks
    BY <1>1, <1>3, JobKinds DEF IsUser, IsSearch
  <2> QED BY <2>1, <1>1, <1>3 DEF IsUser, IsNested, NestedWalks, Jobs, SameKind
<1> QED BY <1>2, <1>3

\* In a directory below another the walk has seen something.
LEMMA InDirFacts ==
  ASSUME NEW w \in Walks, NEW im, NEW od, WalkOK(im, od, w), w.pc \in {"entry", "opening"}
  PROVE  /\ w.frames # << >> /\ Len(w.frames) \in Nat \ {0}
         /\ Last(w.frames) = w.frames[Len(w.frames)] /\ Len(w.frames) \in 1..Len(w.frames)
         /\ Len(w.frames) = 1 \/ w.seen # << >>
<1>1. w.frames # << >> /\ Len(w.frames) \in Nat \ {0} /\ w.frames \in Seq(FrameSet)
  BY WalkFields DEF WalkOK
<1>2. Last(w.frames) = w.frames[Len(w.frames)]
  BY <1>1, FrontLast
<1>3. ASSUME Len(w.frames) # 1
      PROVE  w.seen # << >>
  <2>1. Len(w.frames) \in 2..Len(w.frames)
    <3> DEFINE n == Len(w.frames)
    <3>1. n \in Nat \ {0} /\ n # 1
      BY <1>1, <1>3
    <3> HIDE DEF n
    <3>2. n \in 2..n
      BY <3>1
    <3> QED BY <3>2 DEF n
  <2>2. PICK j \in 1..Len(w.seen) : TRUE
    BY <2>1 DEF WalkOK, OnSeen
  <2>3. w.seen \in Seq(0..MaxKey) /\ Len(w.seen) # 0
    BY <2>2, WalkFields, LenProperties
  <2> QED BY <2>3, EmptySeq
<1> QED BY <1>1, <1>2, <1>3

LEMMA NameFacts ==
  ASSUME TypeInv, NEW t \in Threads, AtName(t)
  PROVE  /\ Name(t) \in NameSet /\ Name(t).addr \in 0..MaxKey
         /\ Name(t) \in ToSet(Names(Dir(t).dir))
         /\ Dir(t) = Top(t).frames[Len(Top(t).frames)]
         /\ Top(t).frames # << >>
         /\ Len(Top(t).frames) = 1 \/ Top(t).seen # << >>
<1>0. At(t, "walk", "entry") /\ Dir(t).i <= Len(Names(Dir(t).dir))
  BY DEF AtName, InDir
<1> DEFINE w == Top(t)
           d == Dir(t).dir
<1>1. w \in Walks /\ WalkOK(image, orphan_dir, w) /\ w.pc = "entry"
  BY <1>0, TopFacts
<1>2. /\ w.frames # << >> /\ Dir(t) = w.frames[Len(w.frames)] /\ Len(w.frames) \in 1..Len(w.frames)
      /\ Len(w.frames) = 1 \/ w.seen # << >>
  BY <1>1, InDirFacts DEF Dir
<1>3. d \in Loadable(image) \/ (d = OrphanDir /\ orphan_dir # NULL)
  BY <1>1, <1>2 DEF WalkOK
<1>4. Names(d) \in Seq(NameSet)
  <2>1. SharedOK(image, list_inum_named, orphan_dir, orphan_dir_lock) /\ disk \in DOMAIN Images
    BY ThreadFacts
  <2>2. CASE d \in Loadable(image)
    BY <2>1, <2>2, NamesFacts DEF Loadable
  <2>3. CASE d = OrphanDir /\ orphan_dir # NULL
    BY <2>1, <2>3, OrphanNamesFacts DEF SharedOK
  <2> QED BY <1>3, <2>2, <2>3
<1>5. Dir(t).i \in 1..Len(Names(d))
  <2>1. Dir(t).i \in Nat \ {0}
    BY <1>1, <1>2, WalkFields
  <2>2. Len(Names(d)) \in Nat
    BY <1>4, LenProperties
  <2> QED BY <2>1, <2>2, <1>0
<1>6. Name(t) \in NameSet
  BY <1>4, <1>5, ElementOfSeq DEF Name
<1>7. Name(t) \in ToSet(Names(d))
  BY <1>4, <1>5, LenProperties DEF Name, ToSet
<1> QED BY <1>2, <1>6, <1>7 DEF NameSet

LEMMA CallsBackOK ==
  ASSUME TypeInv, NEW t \in Threads, AtName(t), NEW answer, CallsBack(t, answer)
  PROVE  CallerOK'
<1>1. CallerOK /\ Name(t).addr \in 0..MaxKey
  BY NameFacts DEF TypeInv
<1>2. given' \in [Threads -> SUBSET (0..MaxKey)]
  BY <1>1 DEF CallerOK, CallsBack
<1>3. refused' \subseteq Threads
  BY <1>1 DEF CallerOK, CallsBack
<1> QED BY <1>1, <1>2, <1>3 DEF CallerOK, CallsBack

LEMMA CallerStays ==
  ASSUME TypeInv, UNCHANGED caller
  PROVE  CallerOK'
BY DEF TypeInv, CallerOK, caller

\* The first directory of a walk is opened, or the walk is over.
LEMMA IntoGives ==
  ASSUME NEW w \in Walks, w.frames = << >>, NEW save \in BOOLEAN
  PROVE  LET v == Into([w EXCEPT !.save = save]) IN
         /\ v \in Walks /\ SameCall(w, v) /\ v.save = save /\ v.list = w.list /\ v.seen = w.seen
         /\ w.addr \in Loadable(image) =>
              v.pc = "entry" /\ Len(v.frames) = 1 /\ v.frames[1] = Frame(w.addr)
         /\ w.addr \notin Loadable(image) =>
              v.pc = "returned" /\ v.frames = << >> /\ v.ret = "ERROR"
<1> DEFINE u == [w EXCEPT !.save = save]
           v == Into(u)
<1>1. /\ u \in Walks /\ u.flags = w.flags /\ u.action = w.action /\ u.save = save /\ u.list = w.list
      /\ u.seen = w.seen /\ u.frames = << >> /\ u.addr = w.addr
  BY DEF Walks
<1> HIDE DEF u
<1>2. Len(u.frames) = 0
  BY <1>1, WalkFields
<1>3. CASE w.addr \in Loadable(image)
  <2>1. v = Opened(u)
    BY <1>1, <1>3 DEF Into, Loadable
  <2> HIDE DEF v
  <2>2. /\ v \in Walks /\ SameCall(u, v) /\ v.pc = "entry"
        /\ v.save = u.save /\ v.list = u.list /\ v.seen = u.seen
        /\ Len(v.frames) = 0 + 1 /\ v.frames[0 + 1] = Frame(u.addr)
    BY <2>1, <1>1, <1>2, OpenedGives
  <2>3. 0 + 1 = 1
    OBVIOUS
  <2> QED BY <2>2, <2>3, <1>1, <1>3 DEF SameCall, v, u
<1>4. CASE w.addr \notin Loadable(image)
  <2>1. v = BackAbove(u, "ERROR")
    BY <1>1, <1>4 DEF Into, Loadable
  <2> HIDE DEF v
  <2>2. "ERROR" \in Returned
    BY DEF Returned
  <2>3. /\ v \in Walks /\ SameCall(u, v) /\ v.list = u.list
        /\ v.pc = "returned" /\ v.ret = "ERROR" /\ v.frames = << >> /\ v.save = u.save /\ v.seen = u.seen
    BY <2>1, <2>2, <1>1, <1>2, BackAboveGives
  <2> QED BY <2>3, <1>1, <1>4 DEF SameCall, v, u
<1> QED BY <1>3, <1>4

LEMMA CheckNamedOK ==
  ASSUME TypeInv, NEW t \in Threads, CheckNamed(t)
  PROVE  TypeInv'
<1> DEFINE w == Top(t)
           save == list_inum_named = Empty /\ w.addr = Root /\ "RECURSE" \in w.flags
           v == Into([w EXCEPT !.save = save])
<1>1. At(t, "walk", "check")
  BY DEF CheckNamed
<1>2. /\ w \in Walks /\ WalkOK(image, orphan_dir, w) /\ w.pc = "check" /\ w = Last(stack[t])
      /\ stack[t] # << >> /\ w \in Jobs /\ (IsUser(w) \/ IsNested(w))
  BY <1>1, TopFacts
<1>3. w.frames = << >> /\ w.addr \in 0..MaxKey
  BY <1>2, WalkFields DEF WalkOK
<1>4. GoesOn(t, v) /\ disk' = disk /\ UNCHANGED shared /\ UNCHANGED caller
  BY Zenon DEF CheckNamed
<1> HIDE DEF w
<1>5. save \in BOOLEAN
  OBVIOUS
<1> HIDE DEF save
<1>6. /\ v \in Walks /\ SameCall(w, v) /\ v.save = save /\ v.list = w.list /\ v.seen = w.seen
      /\ w.addr \in Loadable(image) =>
           v.pc = "entry" /\ Len(v.frames) = 1 /\ v.frames[1] = Frame(w.addr)
      /\ w.addr \notin Loadable(image) =>
           v.pc = "returned" /\ v.frames = << >> /\ v.ret = "ERROR"
  BY <1>2, <1>3, <1>5, IntoGives
<1> HIDE DEF v
<1>7. WalkOK(image, orphan_dir, v)
  <2>1. CASE w.addr \in Loadable(image)
    <3>0. Frame(w.addr).dir = w.addr
      BY <1>3, FrameGives
    <3>1. Len(v.frames) = 1 /\ v.frames[1].dir = w.addr /\ v.pc = "entry" /\ v.frames # << >>
      <4>1. Len(v.frames) = 1 /\ v.frames[1] = Frame(w.addr) /\ v.pc = "entry"
        BY <2>1, <1>6
      <4>2. v.frames # << >>
        BY <4>1, <1>6, WalkFields
      <4> QED BY <4>1, <4>2, <3>0
    <3>2. OnSeen(v)
      BY <3>1 DEF OnSeen
    <3> QED BY <2>1, <3>1, <3>2 DEF WalkOK
  <2>2. CASE w.addr \notin Loadable(image)
    <3>1. v.frames = << >> /\ Len(v.frames) = 0 /\ v.pc = "returned"
      BY <2>2, <1>6, WalkFields
    <3>2. OnSeen(v)
      BY <3>1 DEF OnSeen
    <3> QED BY <3>1, <3>2 DEF WalkOK
  <2> QED BY <2>1, <2>2
<1>8. v.pc # "opening"
  BY <1>6
<1>9. v \in Jobs /\ SameKind(w, v) /\ v.kind = "walk"
  BY <1>2, <1>6, <1>8, WalkIsJob, WalkFields
<1>10. JobOK(image, orphan_dir, orphan_dir_lock, t, v)
  BY <1>7, <1>9 DEF JobOK
<1>11. UNCHANGED <<list_inum_named, orphan_dir>> /\ orphan_dir_lock' = orphan_dir_lock /\ CallerOK'
  BY <1>4, CallerStays DEF shared
<1>12. SameKind(Last(stack[t]), v)
  BY <1>2, <1>9
<1>13. JobOK(image, orphan_dir, orphan_dir_lock', t, v)
  BY <1>10, <1>11
<1> QED BY <1>2, <1>4, <1>8, <1>9, <1>11, <1>12, <1>13, GoesOnOK

\* A walk goes on as v, which is well-formed.
LEMMA WalkGoesOn ==
  ASSUME TypeInv, NEW t \in Threads, NEW p, At(t, "walk", p), disk' = disk, UNCHANGED shared, CallerOK',
         NEW v \in Walks, GoesOn(t, v), SameCall(Top(t), v), WalkOK(image, orphan_dir, v),
         v.pc # "opening"
  PROVE  TypeInv'
<1> DEFINE w == Top(t)
<1>1. w \in Walks /\ w \in Jobs /\ w = Last(stack[t]) /\ stack[t] # << >>
  BY TopFacts
<1> HIDE DEF w
<1>2. v \in Jobs /\ SameKind(w, v) /\ v.kind = "walk"
  BY <1>1, WalkIsJob, WalkFields DEF w
<1>3. UNCHANGED <<list_inum_named, orphan_dir>> /\ orphan_dir_lock' = orphan_dir_lock
  BY DEF shared
<1>4. JobOK(image, orphan_dir, orphan_dir_lock', t, v)
  BY <1>2, <1>3 DEF JobOK, IsSearch
<1> QED BY <1>1, <1>2, <1>3, <1>4, GoesOnOK

LEMMA ResumesGives ==
  ASSUME NEW w \in Walks, w.frames # << >>, w.seen # << >>, w.addr = OrphanDir
  PROVE  BackAbove(w, "ERROR") \in Walks /\ Resumes(w, BackAbove(w, "ERROR"))
<1> DEFINE n == Len(w.frames)
           v == BackAbove(w, "ERROR")
<1>1. n \in Nat /\ n > 0
  BY WalkFields
<1>2. "ERROR" \in Returned
  BY DEF Returned
<1>3. /\ v \in Walks /\ SameCall(w, v) /\ v.addr = w.addr /\ v.list = w.list
      /\ Len(v.frames) = n /\ SameFrames(w, v, n - 1)
      /\ n > 0 => /\ v.pc = "entry" /\ v.seen = Front(w.seen)
                  /\ v.frames[n].dir = w.frames[n].dir /\ v.frames[n].i = w.frames[n].i + 1
                  /\ v.frames[n].bak = FALSE
                  /\ v.save = IF w.addr = OrphanDir THEN w.frames[n].bak ELSE w.save
  <2> HIDE DEF v
  <2> QED BY <1>2, BackAboveGives, Zenon DEF v
<1> HIDE DEF v, n
<1> QED BY <1>1, <1>3 DEF Resumes, v, n

LEMMA OrphanDirOpenedGives ==
  ASSUME TypeInv, NEW t \in Threads, OrphanDirOpened(t)
  PROVE  LET w == Top(t) IN
         /\ At(t, "walk", "opening") /\ disk' = disk /\ UNCHANGED shared /\ UNCHANGED caller
         /\ w \in Walks /\ WalkOK(image, orphan_dir, w) /\ w.pc = "opening" /\ IsUser(w)
         /\ w.frames # << >> /\ Len(w.frames) \in Nat \ {0} /\ OrphanDir \in 0..MaxKey
         /\ w.seen \in Seq(0..MaxKey) /\ Len(w.seen) > 0 /\ w.seen # << >>
         /\ \E v \in Walks :
              /\ GoesOn(t, v)
              /\ \/ back[t] = "ERROR" /\ Resumes(w, v)
                 \/ orphan_dir # NULL /\ Looks(w, v)
<1> DEFINE w == Top(t)
           v == IF back[t] = "ERROR" THEN BackAbove(w, "ERROR") ELSE Opened(w)
<1>1. At(t, "walk", "opening")
  BY DEF OrphanDirOpened
<1>2. /\ w \in Walks /\ WalkOK(image, orphan_dir, w) /\ w.pc = "opening" /\ w = Last(stack[t])
      /\ stack[t] # << >> /\ w \in Jobs /\ (IsUser(w) \/ IsNested(w))
  BY <1>1, TopFacts
<1>3. GoesOn(t, v) /\ disk' = disk /\ UNCHANGED shared /\ UNCHANGED caller
  BY DEF OrphanDirOpened
<1>4. /\ w.frames # << >> /\ Len(w.frames) \in Nat \ {0} /\ w.addr = OrphanDir /\ OrphanDir \in 0..MaxKey
      /\ w.seen \in Seq(0..MaxKey) /\ Len(w.seen) > 0 /\ w.seen # << >>
  <2>1. w.seen \in Seq(0..MaxKey) /\ Len(w.seen) > 0 /\ w.addr = OrphanDir /\ w.addr \in 0..MaxKey
    BY <1>2, WalkFields DEF WalkOK
  <2> QED BY <2>1, <1>2, InDirFacts, EmptySeq
<1>5. IsUser(w)
  <2>1. w \in Jobs /\ (IsNested(w) => w \in NestedWalks)
    BY <1>2, JobKinds
  <2> QED BY <2>1, <1>2 DEF NestedWalks
<1>6. back[t] # "ERROR" => orphan_dir # NULL
  <2>1. FindsOrphans(stack[t], back[t], orphan_dir)
    BY ThreadFacts DEF ThreadOK
  <2> QED BY <2>1, <1>2, <1>5 DEF FindsOrphans
<1> HIDE DEF w, v
<1>7. CASE back[t] = "ERROR"
  <2>1. v = BackAbove(w, "ERROR")
    BY <1>7 DEF v
  <2>2. v \in Walks /\ Resumes(w, v)
    BY <2>1, <1>2, <1>4, ResumesGives
  <2> QED BY <2>2, <1>1, <1>2, <1>3, <1>4, <1>5, <1>7 DEF w
<1>8. CASE back[t] # "ERROR"
  <2>1. v = Opened(w)
    BY <1>8 DEF v
  <2>2. v \in Walks /\ Looks(w, v)
    BY <2>1, <1>2, <1>4, OpenedGives DEF Looks
  <2> QED BY <2>2, <1>1, <1>2, <1>3, <1>4, <1>5, <1>6, <1>8 DEF w
<1> QED BY <1>7, <1>8

LEMMA OrphanDirOpenedOK ==
  ASSUME TypeInv, NEW t \in Threads, OrphanDirOpened(t)
  PROVE  TypeInv'
<1> DEFINE w == Top(t)
<1>1. /\ At(t, "walk", "opening") /\ disk' = disk /\ UNCHANGED shared /\ UNCHANGED caller
      /\ w \in Walks /\ WalkOK(image, orphan_dir, w) /\ w.pc = "opening"
      /\ w.frames # << >> /\ Len(w.frames) \in Nat \ {0} /\ OrphanDir \in 0..MaxKey
      /\ w.seen \in Seq(0..MaxKey) /\ Len(w.seen) > 0 /\ w.seen # << >>
  BY OrphanDirOpenedGives
<1>2. PICK v \in Walks :
        /\ GoesOn(t, v)
        /\ \/ back[t] = "ERROR" /\ Resumes(w, v)
           \/ orphan_dir # NULL /\ Looks(w, v)
  BY OrphanDirOpenedGives
<1> HIDE DEF w
<1>3. CASE Resumes(w, v)
  <2> DEFINE n == Len(w.frames)
  <2>1. /\ SameCall(w, v) /\ Len(v.frames) = n /\ SameFrames(w, v, n - 1)
        /\ v.pc = "entry" /\ v.seen = Front(w.seen)
        /\ v.frames[n].dir = w.frames[n].dir
    BY <1>3 DEF Resumes
  <2>2. WalkOK(image, orphan_dir, v)
    <3> HIDE DEF n
    <3>1. v.frames # << >> /\ n \in Nat \ {0} /\ Len(w.frames) = n
      BY <2>1, <1>1, WalkFields DEF n
    <3>2. \A i \in 1..n : v.frames[i].dir = w.frames[i].dir
      <4> TAKE i \in 1..n
      <4>1. i \in 1..n - 1 \/ i = n
        BY <3>1
      <4> QED BY <4>1, <2>1 DEF SameFrames
    <3>3. /\ Len(Front(w.seen)) = Len(w.seen) - 1 /\ Len(w.seen) \in Nat
          /\ \A j \in 1..Len(w.seen) - 1 : Front(w.seen)[j] = w.seen[j]
      BY <1>1, FrontLast
    <3>4. Pending(w) = 1 /\ Pending(v) = 0
      BY <1>1, <2>1 DEF Pending
    <3>5. ASSUME NEW i \in 2..n
          PROVE  \E j \in 1..Len(v.seen) : v.seen[j] = v.frames[i].dir /\ j + (n - i) + Pending(v) <= Len(v.seen)
      <4>1. PICK j \in 1..Len(w.seen) :
              w.seen[j] = w.frames[i].dir /\ j + (n - i) + Pending(w) <= Len(w.seen)
        BY <1>1, <3>1 DEF WalkOK, OnSeen
      <4>2. i \in 1..n /\ v.seen = Front(w.seen)
        BY <3>1, <2>1
      <4>3. j \in 1..Len(w.seen) - 1 /\ j + (n - i) + Pending(v) <= Len(v.seen)
        BY <4>1, <4>2, <3>1, <3>3, <3>4
      <4> QED BY <4>1, <4>2, <4>3, <3>2, <3>3
    <3>6. OnSeen(v)
      BY <3>5, <2>1 DEF OnSeen
    <3>7. \A i \in 1..n : w.frames[i].dir \in Loadable(image) \/ (w.frames[i].dir = OrphanDir /\ orphan_dir # NULL)
      BY <1>1, <3>1 DEF WalkOK
    <3> QED BY <2>1, <3>1, <3>2, <3>6, <3>7 DEF WalkOK
  <2>3. v.pc # "opening" /\ CallerOK'
    BY <2>1, <1>1, CallerStays
  <2> QED BY <2>1, <2>2, <2>3, <1>1, <1>2, WalkGoesOn DEF w
<1>4. CASE orphan_dir # NULL /\ Looks(w, v)
  <2>1. /\ SameCall(w, v) /\ v.pc = "entry" /\ v.seen = w.seen
        /\ Len(v.frames) = Len(w.frames) + 1 /\ SameFrames(w, v, Len(w.frames))
        /\ v.frames[Len(w.frames) + 1] = Frame(OrphanDir)
    BY <1>4 DEF Looks
  <2>2. WalkOK(image, orphan_dir, v)
    BY <2>1, <1>1, <1>4, EntersOK
  <2>3. v.pc # "opening" /\ CallerOK'
    BY <2>1, <1>1, CallerStays
  <2> QED BY <2>1, <2>2, <2>3, <1>1, <1>2, WalkGoesOn DEF w
<1> QED BY <1>2, <1>3, <1>4

LEMMA LeaveOK ==
  ASSUME TypeInv, NEW t \in Threads, InDir(t), NEW ret \in Returned, GoesOn(t, Leave(Top(t), ret)),
         disk' = disk, UNCHANGED shared, CallerOK'
  PROVE  /\ TypeInv'
         /\ Leave(Top(t), ret) \in Walks
         /\ Leaves(Top(t), Leave(Top(t), ret), ret, Front(Top(t).seen))
<1> DEFINE w == Top(t)
           v == Leave(w, ret)
<1>1. At(t, "walk", "entry")
  BY DEF InDir
<1>2. w \in Walks /\ WalkOK(image, orphan_dir, w) /\ w.pc = "entry"
  BY <1>1, TopFacts
<1>3. Len(w.frames) = 1 \/ w.seen # << >>
  BY <1>2, InDirFacts
<1>4. w.frames # << >>
  BY <1>2, InDirFacts
<1>5. v \in Walks /\ Leaves(w, v, ret, Front(w.seen))
  <2> HIDE DEF w
  <2> QED BY <1>2, <1>3, <1>4, LeaveGives DEF Leaves
<1> HIDE DEF v
<1>6. WalkOK(image, orphan_dir, v)
  BY <1>2, <1>5, LeavesOK
<1>7. v.pc # "opening"
  <2> DEFINE n == Len(w.frames) - 1
  <2>1. n \in Nat
    BY <1>2, InDirFacts
  <2> HIDE DEF n
  <2>2. n = 0 \/ n > 0
    BY <2>1
  <2> QED BY <2>2, <1>5 DEF Leaves, n
<1>8. SameCall(w, v) /\ GoesOn(t, v)
  BY <1>5 DEF Leaves, v
<1>9. TypeInv'
  BY <1>1, <1>5, <1>6, <1>7, <1>8, WalkGoesOn
<1> QED BY <1>5, <1>9 DEF v

LEMMA DirEndsOK ==
  ASSUME TypeInv, NEW t \in Threads, DirEnds(t)
  PROVE  TypeInv'
<1>1. InDir(t) /\ GoesOn(t, Leave(Top(t), "CONT")) /\ disk' = disk /\ UNCHANGED shared /\ "CONT" \in Returned
  BY DEF DirEnds, Returned
<1>2. CallerOK'
  BY CallerStays DEF DirEnds
<1> QED BY <1>1, <1>2, LeaveOK

LEMMA CallbackFailsOK ==
  ASSUME TypeInv, NEW t \in Threads, CallbackFails(t)
  PROVE  TypeInv'
<1>1. AtName(t) /\ CallsBack(t, "ERROR") /\ GoesOn(t, Leave(Top(t), "ERROR")) /\ disk' = disk
      /\ UNCHANGED shared /\ "ERROR" \in Returned
  BY DEF CallbackFails, Returned
<1>2. CallerOK' /\ InDir(t)
  BY <1>1, CallsBackOK DEF AtName
<1> QED BY <1>1, <1>2, LeaveOK

\* The list that is not there yet is one.
EmptyIsList == Empty \in Lists

LEMMA EmptyList == EmptyIsList /\ Len(Empty) = 0 /\ Elements(Empty) = {}
<1>1. Empty \in Seq(Buckets) /\ Len(Empty) = 0
  BY EmptySeq DEF Empty
<1>2. Empty \in Lists
  BY <1>1 DEF Lists
<1> QED BY <1>1, <1>2, ElementsAreKeys DEF EmptyIsList

LEMMA StoppedGives ==
  ASSUME NEW w \in Walks
  PROVE  /\ Stopped(w) \in Walks /\ SameCall(w, Stopped(w)) /\ Stopped(w).frames = << >>
         /\ Stopped(w).ret = "STOP" /\ Stopped(w).pc = "returned" /\ Stopped(w).save = FALSE
         /\ Stopped(w).list \in {w.list, Empty}
<1> DEFINE l == IF w.save THEN Empty ELSE w.list
           v == [w EXCEPT !.frames = << >>, !.ret = "STOP", !.pc = "returned", !.list = l, !.save = FALSE]
<1>1. << >> \in Seq(FrameSet) /\ l \in Lists /\ "STOP" \in Returned
  BY EmptySeq, EmptyList, WalkFields DEF EmptyIsList, Returned
<1>2. Stopped(w) = v
  BY DEF Stopped
<1> HIDE DEF l
<1>3. /\ v \in Walks /\ v.flags = w.flags /\ v.action = w.action /\ v.frames = << >> /\ v.ret = "STOP"
      /\ v.pc = "returned" /\ v.save = FALSE /\ v.list = l
  BY <1>1 DEF Walks
<1>4. l \in {w.list, Empty}
  BY DEF l
<1> QED BY <1>2, <1>3, <1>4 DEF SameCall

LEMMA CallbackStopsOK ==
  ASSUME TypeInv, NEW t \in Threads, CallbackStops(t)
  PROVE  TypeInv'
<1> DEFINE w == Top(t)
           v == Stopped(w)
<1>1. AtName(t) /\ CallsBack(t, "STOP") /\ GoesOn(t, v) /\ disk' = disk /\ UNCHANGED shared
  BY DEF CallbackStops, Stopped
<1>2. CallerOK' /\ At(t, "walk", "entry")
  BY <1>1, CallsBackOK DEF AtName, InDir
<1>3. w \in Walks
  BY <1>2, TopFacts
<1>4. v \in Walks /\ SameCall(w, v) /\ v.frames = << >> /\ v.pc = "returned"
  BY <1>3, StoppedGives
<1> HIDE DEF v
<1>5. WalkOK(image, orphan_dir, v)
  <2>1. Len(v.frames) = 0
    BY <1>4, WalkFields
  <2> QED BY <2>1, <1>4 DEF WalkOK, OnSeen
<1> QED BY <1>1, <1>2, <1>4, <1>5, WalkGoesOn

LEMMA EndWalkOK ==
  ASSUME TypeInv, NEW t \in Threads, EndWalk(t)
  PROVE  TypeInv'
<1> DEFINE w == Top(t)
<1>1. /\ w \in Walks /\ w = Last(stack[t]) /\ stack[t] # << >> /\ (IsUser(w) \/ IsNested(w))
      /\ w.list \in Lists /\ w.ret \in Returned
  BY TopFacts, WalkFields DEF EndWalk
<1>2. Returns(t, w.ret) /\ UNCHANGED <<orphan_dir, orphan_dir_lock>> /\ disk' = disk
  BY DEF EndWalk
<1>3. CallerOK'
  BY CallerStays DEF EndWalk
<1>4. SharedOK(image, list_inum_named, orphan_dir, orphan_dir_lock)
  BY ThreadFacts
<1>5. list_inum_named' \in Lists
  BY <1>1, <1>4 DEF EndWalk, SaveInumNamed, SharedOK
<1>6. SharedOK(image, list_inum_named', orphan_dir', orphan_dir_lock')
  BY <1>2, <1>4, <1>5 DEF SharedOK
<1>7. orphan_dir' = orphan_dir /\ orphan_dir_lock' = orphan_dir_lock
  BY <1>2
<1> QED BY <1>1, <1>2, <1>3, <1>6, <1>7, ReturnsOK

-----------------------------------------------------------------------------
(* A name is visited *)

LEMMA CollectedGives ==
  ASSUME NEW w \in Walks, NEW e \in NameSet
  PROVE  /\ Collected(w, e) \in Walks /\ Amended(w, Collected(w, e)) /\ Collected(w, e).save = w.save
         /\ Collects(w, e) => /\ Elements(Collected(w, e).list) = Elements(w.list) \union {e.addr}
                              /\ Collected(w, e).list # Empty
         /\ ~Collects(w, e) => Collected(w, e).list = w.list
<1>1. CASE ~Collects(w, e)
  BY <1>1 DEF Collected, Amended, SameCall
<1>2. CASE Collects(w, e)
  <2> DEFINE l == Add(w.list, e.addr)
             v == [w EXCEPT !.list = l]
  <2>1. e.addr \in 0..MaxKey /\ w.list \in Lists
    BY WalkFields DEF NameSet
  <2>2. l \in Lists /\ l # Empty /\ Elements(l) = Elements(w.list) \union {e.addr}
    BY <2>1, AddGives
  <2>3. Collected(w, e) = v
    BY <1>2 DEF Collected
  <2> HIDE DEF l
  <2>4. /\ v \in Walks /\ v.kind = w.kind /\ v.pc = w.pc /\ v.addr = w.addr /\ v.flags = w.flags
        /\ v.action = w.action /\ v.seen = w.seen /\ v.frames = w.frames /\ v.ret = w.ret
        /\ v.save = w.save /\ v.list = l
    BY <2>2 DEF Walks
  <2> HIDE DEF v
  <2> QED BY <1>2, <2>2, <2>3, <2>4 DEF Amended, SameCall
<1> QED BY <1>1, <1>2

LEMMA SavedEarlyGives ==
  ASSUME NEW w \in Walks
  PROVE  /\ SavedEarly(w) \in Walks /\ Amended(w, SavedEarly(w)) /\ SavedEarly(w).save = FALSE
         /\ SavedEarly(w).list = Empty
<1> DEFINE v == SavedEarly(w)
<1>1. Empty \in Lists
  BY EmptyList DEF EmptyIsList
<1> HIDE DEF v
<1>2. /\ v \in Walks /\ v.kind = w.kind /\ v.pc = w.pc /\ v.addr = w.addr /\ v.flags = w.flags
      /\ v.action = w.action /\ v.seen = w.seen /\ v.frames = w.frames /\ v.ret = w.ret
      /\ v.save = FALSE /\ v.list = Empty
  BY <1>1 DEF Walks, SavedEarly, v
<1> QED BY <1>2 DEF Amended, SameCall, v

LEMMA AmendedOK ==
  ASSUME NEW im, NEW od, NEW w, NEW v, WalkOK(im, od, w), Amended(w, v)
  PROVE  WalkOK(im, od, v)
BY DEF WalkOK, Amended, OnSeen, Pending

LEMMA RememberingGives ==
  ASSUME TypeInv, NEW t \in Threads, NEW p, At(t, "walk", p), NEW e \in NameSet
  PROVE  \E s \in Seq(Jobs) :
           /\ StackOK(s) /\ s # << >> /\ Len(s) = Len(stack[t]) /\ Last(s) = Top(t)
           /\ Front(s) = Remembering(t, Front(stack[t]), e)
           /\ ~Remembers(Top(t), e) => s = stack[t]
           /\ Remembers(Top(t), e) =>
                /\ Len(s) > 1 /\ IsSearch(stack[t][Len(s) - 1])
                /\ Told(stack[t][Len(s) - 1], s[Len(s) - 1], e.addr)
                /\ \A i \in 1..Len(s) : i # Len(s) - 1 => s[i] = stack[t][i]
<1> DEFINE s == stack[t]
           n == Len(s)
           w == Top(t)
<1>1. /\ s # << >> /\ n \in Nat \ {0} /\ w = s[n] /\ w = Last(s) /\ w \in Walks /\ w \in Jobs
      /\ IsUser(w) \/ IsNested(w)
  BY TopFacts
<1>2. StackOK(s) /\ s \in Seq(Jobs)
  BY ThreadFacts
<1>3. CASE ~Remembers(w, e)
  <2>1. Remembering(t, Front(s), e) = Front(s)
    BY <1>3, Zenon DEF Remembering, Remembers
  <2> QED BY <2>1, <1>1, <1>2, <1>3
<1>4. CASE Remembers(w, e)
  <2>1. IsNested(w)
    BY <1>1, <1>4 DEF Remembers, IsUser
  <2>2. n > 1 /\ IsSearch(s[n - 1]) /\ n \in 1..n /\ n - 1 \in 1..n
    <3>1. n \in 1..n
      BY <1>1
    <3>2. n > 1 /\ IsSearch(s[n - 1])
      BY <3>1, <2>1, <1>1, <1>2 DEF StackOK
    <3> QED BY <3>1, <3>2, <1>1
  <2> DEFINE f == Front(s)
             j == Last(f)
             k == [j EXCEPT !.subdirs = Add(@, e.addr)]
             g == Front(f) \o <<k>>
             r == Append(g, w)
  <2>3. /\ f \in Seq(Jobs) /\ Len(f) = n - 1 /\ f # << >> /\ j = s[n - 1]
        /\ \A i \in 1..n - 1 : f[i] = s[i]
    <3>1. f \in Seq(Jobs) /\ Len(f) = n - 1 /\ \A i \in 1..n - 1 : f[i] = s[i]
      BY <1>1, <1>2, FrontLast
    <3> HIDE DEF f
    <3>2. f # << >>
      BY <3>1, <2>2, <1>1, EmptySeq
    <3>3. Last(f) = f[n - 1] /\ n - 1 \in 1..n - 1
      <4>1. Last(f) = f[Len(f)]
        BY <3>1, <3>2, FrontLast
      <4> HIDE DEF n
      <4>2. n - 1 \in 1..n - 1
        BY <2>2, <1>1
      <4> QED BY <4>1, <4>2, <3>1
    <3> QED BY <3>1, <3>2, <3>3
  <2>4. s[n - 1] \in Jobs /\ j \in Searches
    BY <2>2, <2>3, <1>2, StackFacts, JobKinds
  <2>5. e.addr \in 0..MaxKey /\ j.subdirs \in Lists
    BY <2>4 DEF NameSet, Searches
  <2>6. Remembering(t, Front(s), e) = g
    BY <1>4, Zenon DEF Remembering, Remembers
  <2> HIDE DEF j, f
  <2>7. Told(j, k, e.addr) /\ IsSearch(k) /\ k \in Jobs
    <3> DEFINE l == Add(j.subdirs, e.addr)
    <3>1. l \in Lists /\ Elements(l) = Elements(j.subdirs) \union {e.addr}
      BY <2>5, AddGives
    <3> HIDE DEF l
    <3>2. k = [j EXCEPT !.subdirs = l]
      BY DEF l
    <3> HIDE DEF k
    <3>3. /\ k \in Searches /\ k.pc = j.pc /\ k.names = j.names /\ k.next = j.next
          /\ k.subdirs = l /\ k.kind = "search"
      BY <2>4, <3>1, <3>2 DEF Searches
    <3> QED BY <3>1, <3>3 DEF Told, IsSearch, Jobs
  <2> HIDE DEF k
  <2>8. g \in Seq(Jobs) /\ Replaced(f, g, k)
    BY <2>3, <2>7, FrontReplaced
  <2>9. Len(g) = n - 1 /\ g[n - 1] = k /\ \A i \in 1..n - 2 : g[i] = s[i]
    <3>1. n - 1 - 1 = n - 2 /\ \A i \in 1..n - 2 : i \in 1..n - 1
      BY <1>1
    <3> QED BY <2>3, <2>8, <3>1 DEF Replaced
  <2> HIDE DEF g
  <2>10. /\ r \in Seq(Jobs) /\ r # << >> /\ Front(r) = g /\ Len(r) = n /\ r[n] = w
         /\ \A i \in 1..n - 1 : r[i] = g[i]
    <3>1. Len(r) = (n - 1) + 1 /\ r[(n - 1) + 1] = w /\ \A i \in 1..n - 1 : r[i] = g[i]
      BY <2>8, <2>9, <1>1, AppendProperties
    <3>2. (n - 1) + 1 = n
      BY <1>1
    <3>3. r \in Seq(Jobs) /\ r # << >> /\ Front(r) = g
      BY <2>8, <1>1, FrontOfAppend
    <3> QED BY <3>1, <3>2, <3>3
  <2> HIDE DEF r
  <2>11. Last(r) = w
    BY <2>10, FrontLast
  <2>12. r[n - 1] = k /\ \A i \in 1..n : i # n - 1 => r[i] = s[i]
    <3>1. n - 1 \in 1..n - 1
      BY <2>2, <1>1
    <3>2. ASSUME NEW i \in 1..n, i # n - 1
          PROVE  r[i] = s[i]
      <4>1. i = n \/ (i \in 1..n - 1 /\ i \in 1..n - 2)
        BY <3>2, <1>1
      <4> QED BY <4>1, <2>9, <2>10, <1>1
    <3> QED BY <3>1, <3>2, <2>9, <2>10
  <2>13. StackOK(r)
    <3> HIDE DEF n, s, w
    <3>1. \A i \in 1..n : /\ IsUser(r[i]) <=> IsUser(s[i])
                          /\ IsSearch(r[i]) <=> IsSearch(s[i])
                          /\ IsNested(r[i]) <=> IsNested(s[i])
                          /\ r[i].pc = s[i].pc
      <4> TAKE i \in 1..n
      <4>1. CASE i = n - 1
        <5>1. IsSearch(r[i]) /\ IsSearch(s[i]) /\ r[i].pc = s[i].pc
          BY <4>1, <2>2, <2>3, <2>7, <2>12 DEF Told
        <5> QED BY <5>1, <2>7, <4>1, <2>4, <2>12, JobKinds
      <4>2. CASE i # n - 1
        BY <4>2, <2>12
      <4> QED BY <4>1, <4>2
    <3>2. \A i \in 1..n : 1 \in 1..n /\ (i > 1 => i - 1 \in 1..n) /\ (i < n => i + 1 \in 1..n)
      BY <1>1
    <3>3. \A i \in 1..n :
            /\ IsUser(s[i]) => i = 1
            /\ IsSearch(s[i]) => i = 1 \/ (i = 2 /\ IsUser(s[1]))
            /\ IsNested(s[i]) => i > 1 /\ i = n /\ IsSearch(s[i - 1])
            /\ i < n => \/ IsUser(s[i]) /\ s[i].pc = "opening" /\ IsSearch(s[i + 1])
                        \/ IsSearch(s[i]) /\ s[i].pc = "walking" /\ IsNested(s[i + 1])
      BY <1>2 DEF StackOK, n
    <3>4. ASSUME NEW i \in 1..n
          PROVE  /\ IsUser(r[i]) => i = 1
                 /\ IsSearch(r[i]) => i = 1 \/ (i = 2 /\ IsUser(r[1]))
                 /\ IsNested(r[i]) => i > 1 /\ i = n /\ IsSearch(r[i - 1])
      BY <3>1, <3>2, <3>3
    <3>5. ASSUME NEW i \in 1..n, i < n
          PROVE  \/ IsUser(r[i]) /\ r[i].pc = "opening" /\ IsSearch(r[i + 1])
                 \/ IsSearch(r[i]) /\ r[i].pc = "walking" /\ IsNested(r[i + 1])
      BY <3>1, <3>2, <3>3, <3>5
    <3> QED BY <2>10, <3>4, <3>5 DEF StackOK
  <2> QED BY <2>2, <2>3, <2>6, <2>7, <2>10, <2>11, <2>12, <2>13, <1>4
<1> QED BY <1>3, <1>4

LEMMA VisitedGives ==
  ASSUME NEW w \in Walks, NEW e \in NameSet, NEW last \in BOOLEAN
  PROVE  /\ Visited(w, e, last) \in Walks /\ Amended(w, Visited(w, e, last))
         /\ IsEarly(w, e, last) <=> w.save /\ e.addr = OrphanDir /\ last
         /\ Visited(w, e, last).save = (w.save /\ ~IsEarly(w, e, last))
<1>1. IsEarly(w, e, last) <=> w.save /\ e.addr = OrphanDir /\ last
  BY CollectedGives DEF IsEarly, IsSavedEarly
<1>2. CASE IsEarly(w, e, last)
  <2>1. Visited(w, e, last) = SavedEarly(Collected(w, e))
    BY <1>2 DEF Visited
  <2>2. /\ SavedEarly(Collected(w, e)) \in Walks /\ SavedEarly(Collected(w, e)).save = FALSE
        /\ Amended(Collected(w, e), SavedEarly(Collected(w, e)))
    BY CollectedGives, SavedEarlyGives
  <2>3. Amended(w, SavedEarly(Collected(w, e)))
    BY <2>2, CollectedGives DEF Amended, SameCall
  <2> QED BY <1>1, <1>2, <2>1, <2>2, <2>3
<1>3. CASE ~IsEarly(w, e, last)
  <2>1. Visited(w, e, last) = Collected(w, e) /\ w.save \in BOOLEAN
    BY <1>3, WalkFields DEF Visited
  <2> QED BY <1>1, <1>3, <2>1, CollectedGives
<1> QED BY <1>2, <1>3

LEMMA VisitGives ==
  ASSUME TypeInv, NEW t \in Threads, VisitName(t)
  PROVE  LET w == Top(t)
             e == Name(t)
             u == Visited(w, e, IsLastName(t)) IN
         /\ AtName(t) /\ CallsBack(t, "CONT") /\ e \in NameSet
         /\ w \in Walks /\ w.pc = "entry" /\ w.frames # << >> /\ (Len(w.frames) = 1 \/ w.seen # << >>)
         /\ IF IsEarly(w, e, IsLastName(t)) THEN SaveInumNamed(Collected(w, e).list)
            ELSE UNCHANGED list_inum_named
         /\ stack' = [stack EXCEPT ![t] = Remembering(t, Front(stack[t]), e) \o After(u, e)]
         /\ disk' = disk /\ UNCHANGED <<orphan_dir, orphan_dir_lock, back>>
<1>1. AtName(t) /\ CallsBack(t, "CONT") /\ disk' = disk /\ UNCHANGED <<orphan_dir, orphan_dir_lock, back>>
  BY DEF VisitName
<1>2. At(t, "walk", "entry")
  BY <1>1 DEF AtName, InDir
<1>3. Top(t) \in Walks /\ Top(t).pc = "entry" /\ Name(t) \in NameSet /\ Top(t).frames # << >>
      /\ (Len(Top(t).frames) = 1 \/ Top(t).seen # << >>)
  BY <1>1, <1>2, TopFacts, NameFacts
<1>4. IF IsEarly(Top(t), Name(t), IsLastName(t)) THEN SaveInumNamed(Collected(Top(t), Name(t)).list)
      ELSE UNCHANGED list_inum_named
  BY DEF VisitName, IsEarly, IsLastName
<1>5. stack' = [stack EXCEPT ![t] = Remembering(t, Front(stack[t]), Name(t))
                                      \o After(Visited(Top(t), Name(t), IsLastName(t)), Name(t))]
  BY Zenon DEF VisitName, IsEarly, IsLastName, Visited, SavedEarly
<1> QED BY <1>1, <1>3, <1>4, <1>5

\* What is above the last job goes on as it is.
LEMMA ReplacesOK ==
  ASSUME TypeInv, NEW t \in Threads, NEW s, StackOK(s), s # << >>, disk' = disk, CallerOK',
         UNCHANGED <<orphan_dir, orphan_dir_lock, back>>, list_inum_named' \in Lists,
         \A i \in 1..Len(s) - 1 : JobOK(image, orphan_dir, orphan_dir_lock, t, s[i]),
         NEW j \in Jobs, SameKind(Last(s), j), IsUser(j) => j.pc # "opening",
         stack' = [stack EXCEPT ![t] = Front(s) \o <<j>>],
         JobOK(image, orphan_dir, orphan_dir_lock, t, j)
  PROVE  TypeInv'
<1> DEFINE r == Front(s) \o <<j>>
           n == Len(s)
<1>1. s \in Seq(Jobs) /\ n \in Nat \ {0} /\ back[t] \in Returned /\ back \in [Threads -> Returned]
  BY ThreadFacts, FrontLast DEF StackOK
<1>2. r \in Seq(Jobs) /\ Replaced(s, r, j)
  BY <1>1, FrontReplaced
<1>3. back' = [back EXCEPT ![t] = back[t]]
  BY <1>1
<1>4. StackOK(r)
  BY <1>2, ReplacedOK DEF SameKind
<1> HIDE DEF r
<1>5. Len(r) = n /\ r[n] = j /\ \A i \in 1..n - 1 : r[i] = s[i]
  BY <1>2 DEF Replaced
<1>6. ASSUME NEW i \in 1..n
      PROVE  JobOK(image, orphan_dir, orphan_dir_lock, t, r[i])
  <2>1. i \in 1..n - 1 \/ i = n
    BY <1>1
  <2> QED BY <2>1, <1>5
<1>7. Last(r) = j
  <2>1. r # << >>
    BY <1>1, <1>2, <1>5, EmptySeq
  <2> QED BY <2>1, <1>2, <1>5, FrontLast
<1>8. ThreadOK(image, orphan_dir, orphan_dir_lock, t, r, back[t])
  BY <1>4, <1>5, <1>6, <1>7 DEF ThreadOK, FindsOrphans
<1>9. SharedOK(image, list_inum_named, orphan_dir, orphan_dir_lock)
  BY ThreadFacts
<1>10. SharedOK(image, list_inum_named', orphan_dir', orphan_dir_lock')
  BY <1>9 DEF SharedOK
<1>11. stack' = [stack EXCEPT ![t] = r]
  BY DEF r
<1>12. /\ ThreadOK(image, orphan_dir', orphan_dir_lock', t, r, back[t]) /\ orphan_dir' = orphan_dir
       /\ orphan_dir_lock' = orphan_dir_lock
  BY <1>8
<1>13. \A v \in Threads \ {t} : orphan_dir_lock = v => orphan_dir_lock' = v /\ orphan_dir' = orphan_dir
  BY <1>12
<1> DEFINE b == back[t]
<1>14. /\ b \in Returned /\ back' = [back EXCEPT ![t] = b]
       /\ ThreadOK(image, orphan_dir', orphan_dir_lock', t, r, b)
  BY <1>1, <1>3, <1>12
<1> HIDE DEF n, b
<1>15. orphan_dir # NULL => orphan_dir' = orphan_dir
  BY <1>12
<1> QED BY <1>10, <1>11, <1>13, <1>14, <1>15, TypeStep

LEMMA SearchAfterGives ==
  ASSUME NEW a \in Int
  PROVE  /\ SearchAfter(a) \in Searches /\ SearchAfter(a) \in Jobs /\ IsSearch(SearchAfter(a))
         /\ SearchAfter(a).pc = "lock" /\ SearchAfter(a).names = << >> /\ SearchAfter(a).next = a
         /\ SearchAfter(a).subdirs = Empty
         /\ \A im, od, lock, t : JobOK(im, od, lock, t, SearchAfter(a))
<1> DEFINE j == SearchAfter(a)
<1>1. Empty \in Lists /\ << >> \in Seq(0..MaxKey)
  BY EmptyList, EmptySeq DEF EmptyIsList
<1>2. /\ j \in Searches /\ j.kind = "search" /\ j.pc = "lock" /\ j.names = << >> /\ j.next = a
      /\ j.subdirs = Empty
  BY <1>1 DEF SearchAfter, Searches
<1> HIDE DEF j
<1>3. ASSUME NEW im, NEW od, NEW lock, NEW t
      PROVE  JobOK(im, od, lock, t, j)
  <2>1. << >> \in Seq(Deleted(im))
    BY EmptySeq
  <2> QED BY <2>1, <1>2 DEF JobOK, SearchOK
<1> QED BY <1>2, <1>3 DEF Jobs, IsSearch, j

LEMMA VisitNameOK ==
  ASSUME TypeInv, NEW t \in Threads, VisitName(t)
  PROVE  TypeInv'
<1> DEFINE w == Top(t)
           e == Name(t)
           u == Visited(w, e, IsLastName(t))
<1>1. /\ AtName(t) /\ CallsBack(t, "CONT") /\ e \in NameSet
      /\ w \in Walks /\ w.pc = "entry" /\ w.frames # << >> /\ (Len(w.frames) = 1 \/ w.seen # << >>)
      /\ IF IsEarly(w, e, IsLastName(t)) THEN SaveInumNamed(Collected(w, e).list)
         ELSE UNCHANGED list_inum_named
      /\ stack' = [stack EXCEPT ![t] = Remembering(t, Front(stack[t]), e) \o After(u, e)]
      /\ disk' = disk /\ UNCHANGED <<orphan_dir, orphan_dir_lock, back>>
  BY VisitGives
<1>2. At(t, "walk", "entry") /\ CallerOK'
  BY <1>1, CallsBackOK DEF AtName, InDir
<1>3. /\ WalkOK(image, orphan_dir, w) /\ w \in Jobs /\ (IsUser(w) \/ IsNested(w))
  BY <1>2, TopFacts
<1>4. PICK s \in Seq(Jobs) :
        /\ StackOK(s) /\ s # << >> /\ Len(s) = Len(stack[t]) /\ Last(s) = w
        /\ Front(s) = Remembering(t, Front(stack[t]), e)
        /\ ~Remembers(w, e) => s = stack[t]
        /\ Remembers(w, e) =>
             /\ Len(s) > 1 /\ IsSearch(stack[t][Len(s) - 1])
             /\ Told(stack[t][Len(s) - 1], s[Len(s) - 1], e.addr)
             /\ \A i \in 1..Len(s) : i # Len(s) - 1 => s[i] = stack[t][i]
  BY <1>1, <1>2, RememberingGives
<1> HIDE DEF w, e
<1>5. u \in Walks /\ Amended(w, u)
  <2>1. IsLastName(t) \in BOOLEAN
    BY DEF IsLastName
  <2> QED BY <2>1, <1>1, VisitedGives
<1> HIDE DEF u
<1>6. /\ u.pc = "entry" /\ u.frames # << >> /\ (Len(u.frames) = 1 \/ u.seen # << >>)
      /\ WalkOK(image, orphan_dir, u) /\ SameCall(w, u)
  BY <1>1, <1>3, <1>5, AmendedOK DEF Amended
<1>7. ASSUME NEW i \in 1..Len(s) - 1
      PROVE  JobOK(image, orphan_dir, orphan_dir_lock, t, s[i])
  <2>1. i \in 1..Len(stack[t]) /\ i \in 1..Len(s) /\ Len(s) \in Nat
    BY <1>4, LenProperties
  <2>2. JobOK(image, orphan_dir, orphan_dir_lock, t, stack[t][i])
    BY <2>1, ThreadFacts DEF ThreadOK
  <2>3. CASE s[i] = stack[t][i]
    BY <2>2, <2>3
  <2>4. CASE s[i] # stack[t][i]
    <3>1. i = Len(s) - 1 /\ IsSearch(stack[t][i]) /\ Told(stack[t][i], s[i], e.addr)
      BY <2>1, <2>4, <1>4
    <3>2. s[i].kind = "search" /\ SearchOK(image, orphan_dir, orphan_dir_lock, t, s[i])
      BY <2>2, <3>1 DEF Told, Searches, JobOK, SearchOK, IsSearch
    <3> QED BY <3>2 DEF JobOK
  <2> QED BY <2>3, <2>4
<1>8. list_inum_named' \in Lists
  <2>1. list_inum_named \in Lists
    BY ThreadFacts DEF SharedOK
  <2>2. Collected(w, e).list \in Lists
    BY <1>1, CollectedGives, WalkFields
  <2> QED BY <2>1, <2>2, <1>1 DEF SaveInumNamed
<1>9. ASSUME NEW v \in Walks, SameCall(u, v), WalkOK(image, orphan_dir, v), v.pc # "opening",
             After(u, e) = <<v>>
      PROVE  TypeInv'
  <2>1. SameCall(w, v)
    BY <1>6, <1>9 DEF SameCall
  <2>2. v \in Jobs /\ SameKind(w, v) /\ v.kind = "walk"
    BY <2>1, <1>1, <1>3, <1>9, WalkIsJob, WalkFields
  <2>3. JobOK(image, orphan_dir, orphan_dir_lock, t, v)
    BY <2>2, <1>9 DEF JobOK
  <2>4. stack' = [stack EXCEPT ![t] = Front(s) \o <<v>>]
    BY <1>1, <1>4, <1>9
  <2>5. SameKind(Last(s), v)
    BY <2>2, <1>4
  <2> QED BY <2>2, <2>3, <2>4, <2>5, <1>1, <1>2, <1>4, <1>7, <1>8, <1>9, ReplacesOK
<1>10. CASE \E v \in Walks : AfterSkips(u, e) /\ After(u, e) = <<v>> /\ Skips(u, v)
  <2>1. PICK v \in Walks : After(u, e) = <<v>> /\ Skips(u, v)
    BY <1>10
  <2>2. WalkOK(image, orphan_dir, v) /\ v.pc # "opening" /\ SameCall(u, v)
    BY <2>1, <1>5, <1>6, SkipsOK DEF Skips
  <2> QED BY <2>1, <2>2, <1>9
<1>11. CASE \E v \in Walks : /\ Down(u, e) /\ e.addr \in Loadable(image) \ {OrphanDir}
                             /\ After(u, e) = <<v>> /\ Enters(u, v, e.addr)
  <2>1. PICK v \in Walks : /\ e.addr \in Loadable(image) \ {OrphanDir}
                           /\ After(u, e) = <<v>> /\ Enters(u, v, e.addr)
    BY <1>11
  <2>2. e.addr \in 0..MaxKey
    BY <1>1 DEF NameSet
  <2>3. WalkOK(image, orphan_dir, v) /\ v.pc # "opening" /\ SameCall(u, v)
    BY <2>1, <2>2, <1>5, <1>6, EntersOK DEF Enters
  <2> QED BY <2>1, <2>3, <1>9
<1>12. CASE \E v \in Walks : /\ Down(u, e) /\ e.addr = OrphanDir
                             /\ After(u, e) = <<v, SearchAfter(-1)>> /\ Opens(u, v)
  <2>1. PICK v \in Walks : After(u, e) = <<v, SearchAfter(-1)>> /\ Opens(u, v)
    BY <1>12
  <2>2. OrphanDir \in 0..MaxKey /\ SameCall(w, v) /\ v.pc = "opening"
    BY <2>1, <1>6, ImageFacts, ThreadFacts DEF Opens, SameCall
  <2>3. WalkOK(image, orphan_dir, v)
    BY <2>1, <2>2, <1>5, <1>6, OpensOK
  <2>4. IsUser(w)
    <3> SUFFICES ASSUME IsNested(w) PROVE FALSE
      BY <1>3
    <3>1. w \in NestedWalks
      BY <1>3, JobKinds
    <3>2. u.flags = Search
      BY <3>1, <1>6 DEF NestedWalks, SameCall
    <3>3. GoesInto(image, e, u.flags) /\ e.addr = OrphanDir
      BY <1>12 DEF Down
    <3> QED BY <3>2, <3>3 DEF GoesInto, Search
  <2>5. v \in Jobs /\ IsUser(v) /\ v.kind = "walk"
    BY <2>2, <2>4, <1>1, <1>3, WalkIsJob, WalkFields
  <2>6. JobOK(image, orphan_dir, orphan_dir_lock, t, v)
    BY <2>3, <2>5 DEF JobOK
  <2>7. /\ SearchAfter(-1) \in Jobs /\ IsSearch(SearchAfter(-1))
        /\ JobOK(image, orphan_dir, orphan_dir_lock, t, SearchAfter(-1))
    BY SearchAfterGives
  <2>8. stack' = [stack EXCEPT ![t] = Front(s) \o <<v, SearchAfter(-1)>>]
    BY <2>1, <1>1, <1>4
  <2>9. IsUser(Last(s)) /\ IsUser(v) /\ v.pc = "opening" /\ IsSearch(SearchAfter(-1))
    BY <2>2, <2>4, <2>5, <2>7, <1>4
  <2>10. disk' = disk /\ UNCHANGED <<orphan_dir, orphan_dir_lock, back>> /\ StackOK(s) /\ s # << >>
    BY <1>1, <1>4
  <2> DEFINE k == SearchAfter(-1)
  <2> HIDE DEF w, k
  <2> QED BY <2>5, <2>6, <2>7, <2>8, <2>9, <2>10, <1>2, <1>7, <1>8, StartsOK DEF k
<1>13. CASE \E v \in Walks : /\ GoesInto(image, e, u.flags) /\ ~IsLoop(u, e) /\ TooFarDown(u)
                             /\ After(u, e) = <<v>> /\ Leaves(u, v, "ERROR", u.seen)
  <2>1. PICK v \in Walks : After(u, e) = <<v>> /\ Leaves(u, v, "ERROR", u.seen)
    BY <1>13
  <2>2. WalkOK(image, orphan_dir, v) /\ SameCall(u, v)
    BY <2>1, <1>5, <1>6, LeavesOK DEF Leaves
  <2>3. v.pc # "opening"
    <3> DEFINE n == Len(u.frames) - 1
    <3>1. n \in Nat
      BY <1>5, <1>6, InDirFacts
    <3> HIDE DEF n
    <3>2. n = 0 \/ n > 0
      BY <3>1
    <3> QED BY <3>2, <2>1 DEF Leaves, n
  <2> QED BY <2>1, <2>2, <2>3, <1>9
<1> QED BY <1>1, <1>5, <1>6, <1>10, <1>11, <1>12, <1>13, AfterGives

-----------------------------------------------------------------------------
(* The names of the orphan directory *)

\* s has kept the names that are not in subdirs, and has no others.
Thinned(names, subdirs, s) ==
  /\ Distinct(names) => Distinct(s)
  /\ \A i \in 1..Len(s) : Has(names, s[i])
  /\ \A i \in 1..Len(names) : Has(s, names[i]) \/ names[i] \in Elements(subdirs)

DropsAt(s, i, subdirs) == IF i < Len(s) /\ Find(subdirs, s[i]) THEN DropName(s, i) ELSE s

LEMMA DropsGive ==
  ASSUME NEW S, S \subseteq Int, NEW names \in Seq(S), NEW subdirs \in Lists,
         NEW s \in Seq(S), Thinned(names, subdirs, s), NEW i \in Nat \ {0}
  PROVE  DropsAt(s, i, subdirs) \in Seq(S) /\ Thinned(names, subdirs, DropsAt(s, i, subdirs))
<1> DEFINE n == Len(s)
           d == DropName(s, i)
<1>1. CASE ~(i < n /\ Find(subdirs, s[i]))
  <2>1. DropsAt(s, i, subdirs) = s
    BY <1>1, Zenon DEF DropsAt
  <2> QED BY <2>1
<1>2. CASE i < n /\ Find(subdirs, s[i])
  <2>1. n \in Nat /\ i \in 1..n - 1 /\ i \in 1..n /\ n \in 1..n /\ DOMAIN s = 1..n /\ s # << >>
    BY <1>2, LenProperties, EmptySeq
  <2>2. Last(s) = s[n] /\ s[n] \in S /\ \A k \in 1..n : s[k] \in S
    BY <2>1, FrontLast, ElementOfSeq
  <2> DEFINE r == [s EXCEPT ![i] = Last(s)]
  <2>3. /\ r \in Seq(S) /\ Len(r) = n /\ r # << >>
        /\ \A k \in 1..n : r[k] = IF k = i THEN s[n] ELSE s[k]
    BY <2>1, <2>2, ExceptSeq, EmptySeq
  <2> HIDE DEF r
  <2>4. Front(r) \in Seq(S) /\ Len(Front(r)) = n - 1 /\ \A k \in 1..n - 1 : Front(r)[k] = r[k]
    BY <2>3, FrontLast
  <2>5. d = Front(r)
    BY DEF DropName, r
  <2> HIDE DEF d
  <2>6. /\ d \in Seq(S) /\ Len(d) = n - 1
        /\ \A k \in 1..n - 1 : d[k] = IF k = i THEN s[n] ELSE s[k]
    <3>1. \A k \in 1..n - 1 : k \in 1..n
      BY <2>1
    <3> QED BY <3>1, <2>3, <2>4, <2>5
  <2> HIDE DEF n
  <2>7. Distinct(s) => Distinct(d)
    <3>1. \A k \in 1..n - 1 : k \in 1..n /\ k # n
      BY <2>1
    <3>2. ASSUME Distinct(s), NEW k \in 1..n - 1, NEW m \in 1..n - 1, d[k] = d[m]
          PROVE  k = m
      <4>1. \A x, y \in 1..n : s[x] = s[y] => x = y
        BY <3>2 DEF Distinct, n
      <4>2. CASE k = i
        BY <4>1, <4>2, <3>1, <3>2, <2>1, <2>6
      <4>3. CASE k # i
        BY <4>1, <4>3, <3>1, <3>2, <2>1, <2>6
      <4> QED BY <4>2, <4>3
    <3> QED BY <3>2, <2>6 DEF Distinct
  <2>8. \A k \in 1..n - 1 : Has(names, d[k])
    <3> TAKE k \in 1..n - 1
    <3>1. k \in 1..n /\ (d[k] = s[n] \/ d[k] = s[k])
      BY <2>1, <2>6
    <3> QED BY <3>1, <2>1 DEF Thinned, n
  <2>9. \A k \in 1..n : Has(d, s[k]) \/ s[k] \in Elements(subdirs)
    <3> TAKE k \in 1..n
    <3>1. CASE k = i
      <4>1. s[i] \in Int
        BY <2>1, <2>2
      <4> QED BY <4>1, <3>1, <1>2, FindIsMember
    <3>2. CASE k # i /\ k = n
      <4>1. d[i] = s[n]
        BY <2>1, <2>6
      <4> QED BY <4>1, <3>2, <2>1, <2>6 DEF Has
    <3>3. CASE k # i /\ k # n
      <4>1. k \in 1..n - 1 /\ d[k] = s[k]
        BY <3>3, <2>1, <2>6
      <4> QED BY <4>1, <2>6 DEF Has
    <3> QED BY <3>1, <3>2, <3>3
  <2>10. ASSUME NEW k \in 1..Len(names)
         PROVE  Has(d, names[k]) \/ names[k] \in Elements(subdirs)
    <3>1. Has(s, names[k]) \/ names[k] \in Elements(subdirs)
      BY DEF Thinned
    <3> QED BY <3>1, <2>9 DEF Has, n
  <2>11. Thinned(names, subdirs, d)
    BY <2>6, <2>7, <2>8, <2>10 DEF Thinned
  <2>12. DropsAt(s, i, subdirs) = d
    BY <1>2, Zenon DEF DropsAt, n, d
  <2> QED BY <2>6, <2>11, <2>12
<1> QED BY <1>1, <1>2

LEMMA DeDupedGives ==
  ASSUME NEW S, S \subseteq Int, NEW names \in Seq(S), NEW subdirs \in Lists
  PROVE  DeDuped(names, subdirs) \in Seq(S) /\ Thinned(names, subdirs, DeDuped(names, subdirs))
<1> DEFINE N == Len(names)
           K == {s \in Seq(S) : Thinned(names, subdirs, s)}
           G(g, n) == /\ g \in [0..n -> K] /\ g[0] = names
                      /\ \A i \in 1..n : g[i] = DropsAt(g[i - 1], i, subdirs)
           T == {n \in 0..N : \E g : G(g, n)}
           P(g) == g = [i \in 0..N |-> IF i = 0 THEN names ELSE DropsAt(g[i - 1], i, subdirs)]
           kept == CHOOSE g : P(g)
<1>0. N \in Nat
  BY LenProperties
<1>00. names \in K
  <2>1. \A i \in 1..Len(names) : Has(names, names[i])
    BY DEF Has
  <2> QED BY <2>1 DEF Thinned
<1>000. \A s \in K, i \in Nat \ {0} : DropsAt(s, i, subdirs) \in K
  BY DropsGive
<1> HIDE DEF N, K
<1>1. 0 \in T
  <2>1. G([i \in 0..0 |-> names], 0)
    BY <1>00
  <2> HIDE DEF G
  <2>2. 0 \in 0..N
    BY <1>0
  <2> QED BY <2>1, <2>2
<1>2. ASSUME NEW n \in 0..(N - 1), n \in T PROVE n + 1 \in T
  <2>1. PICK g : G(g, n)
    BY <1>2
  <2>2. n \in Nat /\ n + 1 \in 1..N /\ n + 1 \in Nat \ {0} /\ n \in 0..n
    BY <1>0
  <2>3. g[n] \in K /\ DropsAt(g[n], n + 1, subdirs) \in K
    BY <2>1, <2>2, <1>000
  <2> DEFINE x == DropsAt(g[n], n + 1, subdirs)
             h == [i \in 0..(n + 1) |-> IF i = n + 1 THEN x ELSE g[i]]
  <2> HIDE DEF x
  <2>4. h \in [0..(n + 1) -> K] /\ h[0] = names
    BY <2>1, <2>2, <2>3 DEF x
  <2>5. ASSUME NEW i \in 1..(n + 1) PROVE h[i] = DropsAt(h[i - 1], i, subdirs)
    <3>1. CASE i = n + 1
      <4>1. i - 1 = n /\ n \in 0..n + 1 /\ n # n + 1
        BY <3>1, <2>2
      <4>2. h[i - 1] = g[n] /\ h[i] = x
        BY <3>1, <4>1, <2>2
      <4> QED BY <3>1, <4>2 DEF x
    <3>2. CASE i # n + 1
      <4>1. i \in 1..n /\ i \in 0..n + 1 /\ i - 1 \in 0..n + 1 /\ i - 1 # n + 1
        BY <3>2, <2>2
      <4>2. h[i] = g[i] /\ h[i - 1] = g[i - 1]
        BY <3>2, <4>1
      <4> QED BY <4>1, <4>2, <2>1
    <3> QED BY <3>1, <3>2
  <2>6. G(h, n + 1)
    BY <2>4, <2>5
  <2> HIDE DEF h, G
  <2> QED BY <2>2, <2>6, <1>0
<1>3. PICK g : G(g, N)
  <2> HIDE DEF G
  <2>1. \A n \in 0..N : n \in T
    <3> HIDE DEF T
    <3> QED BY <1>0, <1>1, <1>2, CountingUp
  <2> QED BY <2>1, <1>0
<1>4. P(g)
  <2>1. g = [i \in 0..N |-> g[i]]
    BY <1>3
  <2>2. \A i \in 0..N : g[i] = IF i = 0 THEN names ELSE DropsAt(g[i - 1], i, subdirs)
    BY <1>3, <1>0
  <2> QED BY <2>1, <2>2
<1>5. P(kept)
  <2> HIDE DEF P
  <2> QED BY <1>4
<1>6. DeDuped(names, subdirs) = kept[N]
  BY DEF DeDuped, DropsAt, N
<1>7. kept[0] = names /\ \A i \in 1..N : kept[i] = DropsAt(kept[i - 1], i, subdirs)
  <2> HIDE DEF kept
  <2>1. \A i \in 0..N : kept[i] = IF i = 0 THEN names ELSE DropsAt(kept[i - 1], i, subdirs)
    BY <1>5
  <2>2. \A i \in 1..N : i \in 0..N /\ i # 0 /\ 0 \in 0..N
    BY <1>0
  <2>3. 0 \in 0..N
    BY <1>0
  <2> QED BY <2>1, <2>2, <2>3
<1> HIDE DEF kept
<1>8. kept[N] \in K
  <2> DEFINE E == {n \in 0..N : kept[n] \in K}
  <2>1. 0 \in E
    BY <1>0, <1>00, <1>7
  <2>2. ASSUME NEW n \in 0..(N - 1), n \in E PROVE n + 1 \in E
    <3>1. n + 1 \in 1..N /\ (n + 1) - 1 = n /\ n + 1 \in Nat \ {0} /\ n + 1 \in 0..N
      BY <1>0
    <3> QED BY <3>1, <2>2, <1>000, <1>7
  <2> HIDE DEF E
  <2>3. \A n \in 0..N : n \in E
    BY <1>0, <2>1, <2>2, CountingUp
  <2>4. N \in E
    BY <2>3, <1>0
  <2> QED BY <2>4 DEF E
<1> QED BY <1>6, <1>8 DEF K

-----------------------------------------------------------------------------
(* The steps of a search *)

LEMMA SearchTop ==
  ASSUME TypeInv, NEW t \in Threads, NEW p, At(t, "search", p)
  PROVE  /\ stack[t] # << >> /\ Top(t) = Last(stack[t]) /\ Last(stack[t]) \in Searches
         /\ IsSearch(Last(stack[t])) /\ Last(stack[t]).pc = p
         /\ p # "lock" => orphan_dir_lock = t /\ orphan_dir = NULL
<1>1. /\ stack[t] # << >> /\ Top(t) = Last(stack[t]) /\ Top(t) \in Searches /\ IsSearch(Top(t))
      /\ Top(t).pc = p /\ SearchOK(image, orphan_dir, orphan_dir_lock, t, Top(t))
  BY TopFacts
<1> QED BY <1>1 DEF SearchOK

LEMMA SearchMoves ==
  ASSUME TypeInv, NEW t \in Threads, NEW p, At(t, "search", p)
  PROVE  LET j == Top(t) IN
         /\ stack[t] # << >> /\ j = Last(stack[t]) /\ j \in Searches /\ j \in Jobs /\ IsSearch(j)
         /\ ~IsUser(j) /\ ~IsNested(j) /\ j.pc = p
         /\ j.names \in Seq(0..MaxKey) /\ j.names \in Seq(Deleted(image)) /\ j.subdirs \in Lists
         /\ j.next \in Int /\ (p # "lock" => orphan_dir_lock = t /\ orphan_dir = NULL)
         /\ \A q \in {"load", "metas", "walking"} :
              LET k == [j EXCEPT !.pc = q] IN
              /\ k \in Searches /\ k \in Jobs /\ IsSearch(k) /\ ~IsUser(k) /\ k.pc = q
              /\ k.names = j.names /\ k.subdirs = j.subdirs /\ k.next = j.next /\ k.kind = "search"
<1> DEFINE j == Top(t)
<1>1. /\ stack[t] # << >> /\ j = Last(stack[t]) /\ j \in Searches /\ j \in Jobs /\ IsSearch(j)
      /\ j.pc = p /\ SearchOK(image, orphan_dir, orphan_dir_lock, t, j)
  BY TopFacts
<1>2. ~IsUser(j) /\ ~IsNested(j)
  BY <1>1, JobKinds
<1> HIDE DEF j
<1>3. /\ j.names \in Seq(0..MaxKey) /\ j.names \in Seq(Deleted(image)) /\ j.subdirs \in Lists
      /\ j.next \in Int /\ (p # "lock" => orphan_dir_lock = t /\ orphan_dir = NULL)
  BY <1>1 DEF Searches, SearchOK
<1>4. ASSUME NEW q \in {"load", "metas", "walking"}, NEW k, k = [j EXCEPT !.pc = q]
      PROVE  /\ k \in Searches /\ k \in Jobs /\ IsSearch(k) /\ ~IsUser(k) /\ k.pc = q
             /\ k.names = j.names /\ k.subdirs = j.subdirs /\ k.next = j.next /\ k.kind = "search"
  <2>1. /\ k \in Searches /\ k.pc = q /\ k.kind = "search"
        /\ k.names = j.names /\ k.subdirs = j.subdirs /\ k.next = j.next
    BY <1>1, <1>4 DEF Searches
  <2> QED BY <2>1 DEF Jobs, IsSearch, IsUser
<1> QED BY <1>1, <1>2, <1>3, <1>4 DEF j

\* A search goes on as k.
LEMMA SearchGoesOn ==
  ASSUME TypeInv, NEW t \in Threads, NEW p, At(t, "search", p), disk' = disk, UNCHANGED caller,
         UNCHANGED <<list_inum_named, orphan_dir>>,
         \/ orphan_dir_lock' = orphan_dir_lock /\ p # "lock"
         \/ orphan_dir_lock = NULL /\ orphan_dir_lock' = t /\ orphan_dir = NULL,
         NEW k \in Searches, GoesOn(t, k), k.names \in Seq(Deleted(image))
  PROVE  TypeInv'
<1>1. stack[t] # << >> /\ IsSearch(Last(stack[t])) /\ (p # "lock" => orphan_dir_lock = t /\ orphan_dir = NULL)
  BY SearchTop
<1>2. k \in Jobs /\ IsSearch(k) /\ k.kind = "search" /\ ~IsUser(k)
  BY DEF Jobs, Searches, IsSearch, IsUser
<1>3. SearchOK(image, orphan_dir, orphan_dir_lock', t, k)
  BY <1>1 DEF SearchOK
<1>4. JobOK(image, orphan_dir, orphan_dir_lock', t, k)
  BY <1>2, <1>3 DEF JobOK
<1>5. orphan_dir_lock' = orphan_dir_lock \/ (orphan_dir_lock = NULL /\ orphan_dir_lock' = t)
  OBVIOUS
<1>6. SameKind(Last(stack[t]), k)
  BY <1>1, <1>2 DEF SameKind
<1> QED BY <1>1, <1>2, <1>4, <1>5, <1>6, CallerStays, GoesOnOK

LEMMA NewWalk ==
  ASSUME NEW a \in 0..MaxKey, NEW flags \in AnyFlags, NEW action \in {"user", "named", "orphan"}
  PROVE  WalkGives(a, flags, action)
<1> DEFINE w == Walk(a, flags, action)
<1>1. Empty \in Lists /\ << >> \in Seq(0..MaxKey) /\ << >> \in Seq(FrameSet)
  BY EmptyList, EmptySeq DEF EmptyIsList
<1>2. /\ w \in Walks /\ w.flags = flags /\ w.kind = "walk" /\ w.action = action /\ w.addr = a
      /\ w.frames = << >> /\ w.pc = "check" /\ w.save = FALSE /\ w.list = Empty /\ w.seen = << >>
  BY <1>1 DEF Walk, Walks, Returned
<1> HIDE DEF w
<1>3. Len(w.frames) = 0
  BY <1>2, WalkFields
<1>4. \A im, od : a # OrphanDir => WalkOK(im, od, w)
  BY <1>2, <1>3 DEF WalkOK, OnSeen
<1> QED BY <1>2, <1>4 DEF WalkGives, w

LEMMA SearchStarts ==
  ASSUME TypeInv, NEW t \in Threads, NEW p, At(t, "search", p), p # "lock", disk' = disk,
         UNCHANGED shared, UNCHANGED caller,
         NEW k \in Searches, k.pc = "walking", k.names \in Seq(Deleted(image)),
         NEW a \in Addresses, NEW action \in {"named", "orphan"},
         Starts(t, k, Walk(a, Search, action))
  PROVE  TypeInv'
<1> DEFINE w == Walk(a, Search, action)
           s == stack[t]
<1>1. s # << >> /\ IsSearch(Last(s)) /\ orphan_dir_lock = t /\ orphan_dir = NULL
  BY SearchTop
<1>2. k \in Jobs /\ IsSearch(k) /\ k.kind = "search" /\ ~IsUser(k)
  BY DEF Jobs, Searches, IsSearch, IsUser
<1>3. JobOK(image, orphan_dir, orphan_dir_lock, t, k)
  BY <1>1, <1>2 DEF JobOK, SearchOK
<1>4. a \in 0..MaxKey /\ a # OrphanDir /\ Search \in AnyFlags
  BY ImageFacts, ThreadFacts DEF Search, AnyFlags
<1>5. WalkGives(a, Search, action)
  BY <1>4, NewWalk
<1>6. w \in Jobs /\ IsNested(w) /\ JobOK(image, orphan_dir, orphan_dir_lock, t, w)
  <2>1. /\ w \in Walks /\ w.flags = Search /\ w.kind = "walk" /\ w.action = action /\ w.pc = "check"
        /\ WalkOK(image, orphan_dir, w)
    BY <1>4, <1>5 DEF WalkGives
  <2> HIDE DEF w
  <2> QED BY <2>1 DEF Jobs, NestedWalks, IsNested, JobOK
<1>7. StackOK(s) /\ list_inum_named \in Lists
  BY ThreadFacts DEF SharedOK
<1>8. \A i \in 1..Len(s) - 1 : JobOK(image, orphan_dir, orphan_dir_lock, t, s[i])
  <2>1. \A i \in 1..Len(s) : JobOK(image, orphan_dir, orphan_dir_lock, t, s[i])
    BY ThreadFacts DEF ThreadOK
  <2>2. Len(s) \in Nat
    BY <1>7, StackFacts
  <2> QED BY <2>1, <2>2
<1>9. /\ stack' = [stack EXCEPT ![t] = Front(s) \o <<k, w>>]
      /\ UNCHANGED <<orphan_dir, orphan_dir_lock, back>> /\ list_inum_named' = list_inum_named
  BY DEF Starts, shared
<1> HIDE DEF s, w
<1>10. CallerOK'
  BY CallerStays
<1> QED BY <1>1, <1>2, <1>3, <1>6, <1>7, <1>8, <1>9, <1>10, StartsOK

\* The search is over.
LEMMA SearchReturns ==
  ASSUME TypeInv, NEW t \in Threads, NEW p, At(t, "search", p), disk' = disk, UNCHANGED caller,
         list_inum_named' = list_inum_named, NEW b \in Returned, Returns(t, b),
         \/ p # "lock" /\ orphan_dir_lock' = NULL
         \/ p = "lock" /\ orphan_dir_lock' = orphan_dir_lock /\ orphan_dir' = orphan_dir,
         orphan_dir' = orphan_dir \/ orphan_dir' \in Seq(Deleted(image)),
         b # "ERROR" => orphan_dir' # NULL
  PROVE  TypeInv'
<1>1. stack[t] # << >> /\ IsSearch(Last(stack[t])) /\ (p # "lock" => orphan_dir_lock = t /\ orphan_dir = NULL)
  BY SearchTop
<1>2. SharedOK(image, list_inum_named, orphan_dir, orphan_dir_lock)
  BY ThreadFacts
<1>3. SharedOK(image, list_inum_named', orphan_dir', orphan_dir_lock')
  BY <1>2 DEF SharedOK
<1>4. orphan_dir # NULL => orphan_dir' = orphan_dir
  BY <1>1
<1>5. \A u \in Threads \ {t} : orphan_dir_lock = u => orphan_dir_lock' = u /\ orphan_dir' = orphan_dir
  BY <1>1
<1> QED BY <1>1, <1>3, <1>4, <1>5, CallerStays, ReturnsOK

LEMMA TakeOrphanLockOK ==
  ASSUME TypeInv, NEW t \in Threads, TakeOrphanLock(t)
  PROVE  TypeInv'
<1>1. /\ At(t, "search", "lock") /\ orphan_dir_lock = NULL /\ disk' = disk /\ UNCHANGED caller
      /\ list_inum_named' = list_inum_named /\ orphan_dir' = orphan_dir
  BY DEF TakeOrphanLock
<1>2. CASE orphan_dir # NULL
  <2>1. Returns(t, "CONT") /\ orphan_dir_lock' = orphan_dir_lock /\ "CONT" \in Returned
    BY <1>2 DEF TakeOrphanLock, Returned
  <2> QED BY <2>1, <1>1, <1>2, SearchReturns
<1>3. CASE orphan_dir = NULL
  <2> DEFINE k == [Top(t) EXCEPT !.pc = "load"]
  <2>1. GoesOn(t, k) /\ orphan_dir_lock' = t
    BY <1>3 DEF TakeOrphanLock
  <2>2. Top(t).names \in Seq(Deleted(image)) /\ k \in Searches /\ k.names = Top(t).names
    BY <1>1, SearchMoves
  <2> HIDE DEF k
  <2> QED BY <2>1, <2>2, <1>1, <1>3, SearchGoesOn
<1> QED BY <1>2, <1>3

LEMMA LoadInumNamedOK ==
  ASSUME TypeInv, NEW t \in Threads, LoadInumNamed(t)
  PROVE  TypeInv'
<1>1. At(t, "search", "load") /\ disk' = disk /\ UNCHANGED caller /\ UNCHANGED shared
  BY DEF LoadInumNamed
<1>2. CASE list_inum_named # Empty
  <2> DEFINE k == [Top(t) EXCEPT !.pc = "metas"]
  <2>1. GoesOn(t, k)
    BY <1>2 DEF LoadInumNamed
  <2>2. Top(t).names \in Seq(Deleted(image)) /\ k \in Searches /\ k.names = Top(t).names
    BY <1>1, SearchMoves
  <2> HIDE DEF k
  <2>3. UNCHANGED <<list_inum_named, orphan_dir>> /\ orphan_dir_lock' = orphan_dir_lock
    BY <1>1 DEF shared
  <2> QED BY <2>1, <2>2, <2>3, <1>1, SearchGoesOn
<1>3. CASE list_inum_named = Empty
  <2> DEFINE k == [Top(t) EXCEPT !.pc = "walking"]
  <2>1. Starts(t, k, Walk(Root, Search, "named"))
    BY <1>3 DEF LoadInumNamed
  <2>2. Top(t).names \in Seq(Deleted(image)) /\ k \in Searches /\ k.names = Top(t).names /\ k.pc = "walking"
    BY <1>1, SearchMoves
  <2> HIDE DEF k
  <2>3. Root \in Addresses
    BY ImageFacts, ThreadFacts
  <2> QED BY <2>1, <2>2, <2>3, <1>1, SearchStarts
<1> QED BY <1>2, <1>3

LEMMA SearchFailsOK ==
  ASSUME TypeInv, NEW t \in Threads, NEW p, At(t, "search", p), p # "lock", SearchFails(t)
  PROVE  TypeInv'
<1>1. /\ Returns(t, "ERROR") /\ orphan_dir_lock' = NULL /\ disk' = disk /\ UNCHANGED caller
      /\ list_inum_named' = list_inum_named /\ orphan_dir' = orphan_dir /\ "ERROR" \in Returned
  BY DEF SearchFails, Returned
<1> QED BY <1>1, SearchReturns

LEMMA WalkedOK ==
  ASSUME TypeInv, NEW t \in Threads, Walked(t)
  PROVE  TypeInv'
<1>1. At(t, "search", "walking")
  BY DEF Walked
<1>2. CASE back[t] = "ERROR"
  <2>1. SearchFails(t)
    BY <1>2 DEF Walked
  <2> QED BY <2>1, <1>1, SearchFailsOK
<1>3. CASE back[t] # "ERROR"
  <2> DEFINE k == [Top(t) EXCEPT !.pc = "metas"]
  <2>1. GoesOn(t, k) /\ disk' = disk /\ UNCHANGED caller /\ UNCHANGED shared
    BY <1>3 DEF Walked
  <2>2. Top(t).names \in Seq(Deleted(image)) /\ k \in Searches /\ k.names = Top(t).names
    BY <1>1, SearchMoves
  <2> HIDE DEF k
  <2>3. UNCHANGED <<list_inum_named, orphan_dir>> /\ orphan_dir_lock' = orphan_dir_lock
    BY <2>1 DEF shared
  <2> QED BY <2>1, <2>2, <2>3, <1>1, SearchGoesOn
<1> QED BY <1>2, <1>3

LEMMA MetaWalkFailsOK ==
  ASSUME TypeInv, NEW t \in Threads, MetaWalkFails(t)
  PROVE  TypeInv'
<1>1. At(t, "search", "metas") /\ SearchFails(t)
  BY DEF MetaWalkFails
<1> QED BY <1>1, SearchFailsOK

\* The next of the deleted files is the least of those ahead.
LEMMA NextAhead ==
  ASSUME disk \in DOMAIN Images, NEW t, Ahead(t) # {}
  PROVE  /\ Min(Ahead(t)) \in Ahead(t) /\ Min(Ahead(t)) \in Deleted(image)
         /\ \A a \in Ahead(t) : Min(Ahead(t)) <= a
<1> DEFINE A == Ahead(t)
           R == OpToRel(<, Nat)
<1>1. A \subseteq Deleted(image) /\ A \subseteq Nat
  <2>1. Deleted(image) \subseteq Nat
    BY ImageFacts DEF Addresses
  <2> QED BY <2>1 DEF Ahead
<1>2. IsWellFoundedOn(R, Nat)
  BY NatLessThanWellFounded, Zenon
<1>3. \A x, y \in Nat : x < y => <<x, y>> \in R
  BY Zenon DEF OpToRel
<1> HIDE DEF A, R
<1>4. PICK m \in A : \A a \in A : <<a, m>> \notin R
  BY <1>1, <1>2, WFMin DEF A
<1>5. ASSUME NEW a \in A PROVE m <= a
  <2>1. a \in Nat /\ m \in Nat /\ ~(a < m)
    BY <1>1, <1>3, <1>4
  <2> QED BY <2>1
<1>6. Min(A) \in A /\ \A a \in A : Min(A) <= a
  <2>1. \E x \in A : \A y \in A : x <= y
    BY <1>5
  <2> QED BY <2>1 DEF Min
<1> QED BY <1>1, <1>6 DEF A

LEMMA ListingGives ==
  ASSUME disk \in DOMAIN Images, NEW j \in Searches, j.names \in Seq(Deleted(image)),
         NEW a \in Deleted(image)
  PROVE  /\ Listing(j, a) \in Searches /\ Listing(j, a).pc = j.pc /\ Listing(j, a).next = a
         /\ Listing(j, a).names = Append(j.names, a) /\ Listing(j, a).subdirs = j.subdirs
         /\ Listing(j, a).names \in Seq(Deleted(image))
         /\ Passing(j, a) \in Searches /\ Passing(j, a).pc = j.pc /\ Passing(j, a).next = a
         /\ Passing(j, a).names = j.names /\ Passing(j, a).subdirs = j.subdirs
<1> DEFINE s == Append(j.names, a)
           k == [j EXCEPT !.names = s, !.next = a]
           l == [j EXCEPT !.next = a]
<1>1. a \in 0..MaxKey /\ a \in Int
  BY ImageFacts
<1>2. j.names \in Seq(0..MaxKey)
  BY DEF Searches
<1>3. s \in Seq(0..MaxKey) /\ s \in Seq(Deleted(image))
  BY <1>1, <1>2, AppendProperties
<1> HIDE DEF s
<1>4. k \in Searches /\ k.pc = j.pc /\ k.next = a /\ k.names = s /\ k.subdirs = j.subdirs
  BY <1>1, <1>3 DEF Searches
<1>5. l \in Searches /\ l.pc = j.pc /\ l.next = a /\ l.names = j.names /\ l.subdirs = j.subdirs
  BY <1>1 DEF Searches
<1>6. Listing(j, a) = k /\ Passing(j, a) = l
  BY DEF Listing, Passing, s
<1> HIDE DEF k, l
<1> QED BY <1>3, <1>4, <1>5, <1>6 DEF s

LEMMA FindOrphanGives ==
  ASSUME TypeInv, NEW t \in Threads, FindOrphan(t)
  PROVE  LET j == Top(t)
             a == Min(Ahead(t)) IN
         /\ At(t, "search", "metas") /\ a \in Ahead(t) /\ a \in Deleted(image) /\ \A b \in Ahead(t) : a <= b
         /\ disk' = disk /\ UNCHANGED shared /\ UNCHANGED caller
         /\ \/ IsKnown(j, a) /\ GoesOn(t, Passing(j, a))
            \/ ~IsKnown(j, a) /\ ~image.meta[a].dir /\ GoesOn(t, Listing(j, a))
            \/ /\ ~IsKnown(j, a) /\ image.meta[a].dir
               /\ Starts(t, [Listing(j, a) EXCEPT !.pc = "walking"], Walk(a, Search, "orphan"))
<1>1. At(t, "search", "metas") /\ Ahead(t) # {} /\ disk' = disk /\ UNCHANGED shared /\ UNCHANGED caller
  BY DEF FindOrphan
<1>2. disk \in DOMAIN Images
  BY ThreadFacts
<1>3. IsKnown(Top(t), Min(Ahead(t))) => GoesOn(t, Passing(Top(t), Min(Ahead(t))))
  BY DEF FindOrphan, Passing
<1>4. ~IsKnown(Top(t), Min(Ahead(t))) /\ image.meta[Min(Ahead(t))].dir =>
        Starts(t, [Listing(Top(t), Min(Ahead(t))) EXCEPT !.pc = "walking"],
               Walk(Min(Ahead(t)), Search, "orphan"))
  BY Zenon DEF FindOrphan, Listing
<1>5. ~IsKnown(Top(t), Min(Ahead(t))) /\ ~image.meta[Min(Ahead(t))].dir =>
        GoesOn(t, Listing(Top(t), Min(Ahead(t))))
  BY Zenon DEF FindOrphan, Listing
<1> QED BY <1>1, <1>2, <1>3, <1>4, <1>5, NextAhead

LEMMA FindOrphanOK ==
  ASSUME TypeInv, NEW t \in Threads, FindOrphan(t)
  PROVE  TypeInv'
<1> DEFINE j == Top(t)
           a == Min(Ahead(t))
<1>1. /\ At(t, "search", "metas") /\ a \in Deleted(image) /\ disk' = disk
      /\ UNCHANGED shared /\ UNCHANGED caller
      /\ \/ GoesOn(t, Passing(j, a))
         \/ GoesOn(t, Listing(j, a))
         \/ Starts(t, [Listing(j, a) EXCEPT !.pc = "walking"], Walk(a, Search, "orphan"))
  BY FindOrphanGives
<1>2. j \in Searches /\ j.names \in Seq(Deleted(image)) /\ disk \in DOMAIN Images
  BY <1>1, SearchMoves, ThreadFacts
<1> HIDE DEF j, a
<1>3. /\ Listing(j, a) \in Searches /\ Listing(j, a).names \in Seq(Deleted(image))
      /\ Passing(j, a) \in Searches /\ Passing(j, a).names = j.names
  BY <1>1, <1>2, ListingGives
<1>4. /\ UNCHANGED <<list_inum_named, orphan_dir>> /\ orphan_dir_lock' = orphan_dir_lock
  BY <1>1 DEF shared
<1>5. CASE GoesOn(t, Passing(j, a))
  BY <1>1, <1>2, <1>3, <1>4, <1>5, SearchGoesOn
<1>6. CASE GoesOn(t, Listing(j, a))
  BY <1>1, <1>2, <1>3, <1>4, <1>6, SearchGoesOn
<1>7. CASE Starts(t, [Listing(j, a) EXCEPT !.pc = "walking"], Walk(a, Search, "orphan"))
  <2> DEFINE l == Listing(j, a)
             k == [l EXCEPT !.pc = "walking"]
  <2> HIDE DEF l
  <2>1. k \in Searches /\ k.pc = "walking" /\ k.names = l.names
    BY <1>3 DEF l, Searches
  <2>2. Starts(t, k, Walk(a, Search, "orphan")) /\ l.names \in Seq(Deleted(image))
    BY <1>3, <1>7 DEF l
  <2> HIDE DEF k
  <2>3. a \in Addresses
    BY <1>1, <1>2, ImageFacts
  <2> QED BY <2>1, <2>2, <2>3, <1>1, SearchStarts
<1> QED BY <1>1, <1>5, <1>6, <1>7

LEMMA SearchEndsOK ==
  ASSUME TypeInv, NEW t \in Threads, SearchEnds(t)
  PROVE  TypeInv'
<1> DEFINE j == Top(t)
<1>1. /\ At(t, "search", "metas") /\ disk' = disk /\ UNCHANGED caller /\ list_inum_named' = list_inum_named
      /\ orphan_dir' = DeDuped(j.names, j.subdirs) /\ orphan_dir_lock' = NULL
      /\ Returns(t, "CONT") /\ "CONT" \in Returned
  BY DEF SearchEnds, Returned
<1>2. j.names \in Seq(Deleted(image)) /\ j.subdirs \in Lists
  BY <1>1, SearchMoves
<1>3. Deleted(image) \subseteq 0..MaxKey
  BY ImageFacts, ThreadFacts
<1> HIDE DEF j
<1>4. orphan_dir' \in Seq(Deleted(image))
  <2>1. Deleted(image) \subseteq Int
    BY <1>3
  <2> QED BY <2>1, <1>1, <1>2, DeDupedGives
<1>5. orphan_dir' # NULL
  <2>1. orphan_dir' \in Seq(0..MaxKey)
    BY <1>3, <1>4, SeqMonotonic
  <2> QED BY <2>1, CallsAssumption
<1> QED BY <1>1, <1>4, <1>5, SearchReturns

-----------------------------------------------------------------------------
(* The calls, and all steps *)

LEMMA SingletonStack ==
  ASSUME NEW j \in Jobs, ~IsNested(j), j.pc \notin {"opening", "walking"}
  PROVE  StackOK(<<j>>) /\ Len(<<j>>) = 1 /\ <<j>>[1] = j /\ <<j>> # << >> /\ Last(<<j>>) = j
<1> DEFINE s == <<j>>
<1>1. s \in Seq(Jobs) /\ Len(s) = 1 /\ s[1] = j /\ s # << >>
  OBVIOUS
<1>2. Last(s) = s[1]
  BY <1>1, FrontLast
<1> HIDE DEF s
<1>3. \A i \in 1..Len(s) : i = 1 /\ s[i] = j
  BY <1>1
<1>4. ASSUME NEW i \in 1..Len(s)
      PROVE  /\ IsUser(s[i]) => i = 1
             /\ IsSearch(s[i]) => i = 1 \/ (i = 2 /\ IsUser(s[1]))
             /\ ~IsNested(s[i]) /\ ~(i < Len(s))
  BY <1>1, <1>3
<1> QED BY <1>1, <1>2, <1>4 DEF StackOK, s

LEMMA NewCallOK ==
  ASSUME TypeInv, NEW t \in Threads, NEW flags \in WalkFlags \union {NoWalk}, NewCall(t, flags),
         NEW j \in Jobs, ~IsNested(j), j.pc \notin {"opening", "walking"},
         JobOK(image, orphan_dir, orphan_dir_lock, t, j),
         stack' = [stack EXCEPT ![t] = <<j>>]
  PROVE  TypeInv'
<1>1. /\ StackOK(<<j>>) /\ Len(<<j>>) = 1 /\ <<j>>[1] = j /\ Last(<<j>>) = j
  BY SingletonStack
<1>2. /\ disk' = disk /\ UNCHANGED shared /\ back' = back
  BY DEF NewCall
<1>3. CallerOK'
  <2>1. CallerOK /\ calls[t] < MaxCalls /\ MaxCalls \in Nat
    BY CallsAssumption DEF TypeInv, NewCall
  <2>2. calls' = [calls EXCEPT ![t] = calls[t] + 1] /\ calls[t] \in 0..MaxCalls
    BY <2>1 DEF NewCall, CallerOK
  <2>3. calls' \in [Threads -> 0..MaxCalls]
    <3>1. calls[t] + 1 \in 0..MaxCalls
      BY <2>1, <2>2
    <3> QED BY <3>1, <2>1, <2>2 DEF CallerOK
  <2>4. call' \in [Threads -> WalkFlags \union {NoWalk}]
    BY <2>1 DEF NewCall, CallerOK
  <2>5. given' \in [Threads -> SUBSET (0..MaxKey)]
    BY <2>1 DEF NewCall, CallerOK
  <2>6. refused' \subseteq Threads
    BY <2>1 DEF NewCall, CallerOK
  <2> QED BY <2>3, <2>4, <2>5, <2>6 DEF CallerOK
<1> DEFINE s == <<j>>
           b == back[t]
<1>4. ThreadOK(image, orphan_dir, orphan_dir_lock, t, s, b)
  <2> HIDE DEF s
  <2>1. \A i \in 1..Len(s) : s[i] = j
    BY <1>1 DEF s
  <2>2. FindsOrphans(s, b, orphan_dir)
    BY <1>1 DEF FindsOrphans, s
  <2> QED BY <2>1, <2>2, <1>1 DEF ThreadOK, s
<1>5. b \in Returned /\ back' = [back EXCEPT ![t] = b] /\ stack' = [stack EXCEPT ![t] = s]
  BY <1>2, ThreadFacts
<1>6. SharedOK(image, list_inum_named', orphan_dir', orphan_dir_lock')
  BY <1>2, ThreadFacts DEF shared
<1>7. orphan_dir' = orphan_dir /\ orphan_dir_lock' = orphan_dir_lock
  BY <1>2 DEF shared
<1>8. ThreadOK(image, orphan_dir', orphan_dir_lock', t, s, b)
  BY <1>4, <1>7
<1> HIDE DEF s, b
<1> QED BY <1>2, <1>3, <1>5, <1>6, <1>7, <1>8, TypeStep

LEMMA WalkDirectoriesOK ==
  ASSUME TypeInv, NEW t \in Threads, NEW flags \in WalkFlags, WalkDirectories(t, flags)
  PROVE  TypeInv'
<1> DEFINE w == Walk(Root, flags, "user")
<1>1. Root \in 0..MaxKey /\ Root # OrphanDir /\ flags \in AnyFlags
  BY ImageFacts, ThreadFacts, CallsAssumption DEF AnyFlags
<1>2. WalkGives(Root, flags, "user")
  BY <1>1, NewWalk
<1>3. w \in Walks /\ w.kind = "walk" /\ w.action = "user" /\ w.pc = "check" /\ WalkOK(image, orphan_dir, w)
  BY <1>1, <1>2 DEF WalkGives
<1>4. NewCall(t, flags) /\ stack' = [stack EXCEPT ![t] = <<w>>]
  BY DEF WalkDirectories
<1> HIDE DEF w
<1>5. w \in Jobs /\ ~IsNested(w) /\ JobOK(image, orphan_dir, orphan_dir_lock, t, w)
      /\ w.pc \notin {"opening", "walking"}
  BY <1>3 DEF Jobs, UserWalks, IsNested, JobOK
<1>6. flags \in WalkFlags \union {NoWalk}
  OBVIOUS
<1> QED BY <1>4, <1>5, <1>6, NewCallOK

LEMMA OpenOrphanDirOK ==
  ASSUME TypeInv, NEW t \in Threads, OpenOrphanDir(t)
  PROVE  TypeInv'
<1> DEFINE j == SearchAfter(-1)
<1>1. NewCall(t, NoWalk) /\ stack' = [stack EXCEPT ![t] = <<j>>] /\ NoWalk \in WalkFlags \union {NoWalk}
  BY DEF OpenOrphanDir
<1>2. j \in Jobs /\ IsSearch(j) /\ j.pc = "lock" /\ JobOK(image, orphan_dir, orphan_dir_lock, t, j)
  BY SearchAfterGives
<1> HIDE DEF j
<1>3. ~IsNested(j) /\ j.pc \notin {"opening", "walking"}
  BY <1>2, JobKinds
<1> QED BY <1>1, <1>2, <1>3, NewCallOK

LEMMA InitType == Init => TypeInv
<1> SUFFICES ASSUME Init PROVE TypeInv
  OBVIOUS
<1>1. SharedOK(image, list_inum_named, orphan_dir, orphan_dir_lock)
  BY EmptyList DEF Init, SharedOK, EmptyIsList
<1>2. CallerOK
  <2>1. 0 \in 0..MaxCalls
    BY CallsAssumption
  <2> QED BY <2>1 DEF Init, CallerOK
<1>3. << >> \in Seq(Jobs) /\ Len(<< >>) = 0 /\ "CONT" \in Returned
  BY EmptySeq DEF Returned
<1>4. stack \in [Threads -> Seq(Jobs)] /\ back \in [Threads -> Returned]
  BY <1>3 DEF Init
<1>5. ASSUME NEW t \in Threads
      PROVE  ThreadOK(image, orphan_dir, orphan_dir_lock, t, stack[t], back[t])
  <2>1. stack[t] = << >>
    BY DEF Init
  <2>2. StackOK(<< >>)
    BY <1>3 DEF StackOK
  <2> QED BY <2>1, <2>2, <1>3 DEF ThreadOK, FindsOrphans
<1> QED BY <1>1, <1>2, <1>4, <1>5 DEF Init, TypeInv

LEMMA StepOK ==
  ASSUME TypeInv, NEW t \in Threads, Step(t)
  PROVE  TypeInv'
<1>1. \/ CheckNamed(t) \/ OrphanDirOpened(t) \/ CallbackStops(t) \/ CallbackFails(t)
      \/ VisitName(t) \/ DirEnds(t) \/ EndWalk(t)
      \/ TakeOrphanLock(t) \/ LoadInumNamed(t) \/ Walked(t) \/ MetaWalkFails(t)
      \/ FindOrphan(t) \/ SearchEnds(t)
  BY Zenon DEF Step
<1> QED BY <1>1, CheckNamedOK, OrphanDirOpenedOK, CallbackStopsOK, CallbackFailsOK, VisitNameOK,
           DirEndsOK, EndWalkOK, TakeOrphanLockOK, LoadInumNamedOK, WalkedOK, MetaWalkFailsOK,
           FindOrphanOK, SearchEndsOK

LEMMA NextType == TypeInv /\ [Next]_vars => TypeInv'
<1> SUFFICES ASSUME TypeInv, [Next]_vars PROVE TypeInv'
  OBVIOUS
<1>1. CASE Next
  <2>1. PICK t \in Threads :
          (\E flags \in WalkFlags : WalkDirectories(t, flags)) \/ OpenOrphanDir(t) \/ Step(t)
    BY <1>1, Zenon DEF Next
  <2> QED BY <2>1, WalkDirectoriesOK, OpenOrphanDirOK, StepOK
<1>2. CASE UNCHANGED vars
  BY <1>2 DEF vars, shared, caller, TypeInv, CallerOK, image
<1> QED BY <1>1, <1>2

\* What a thread keeps on its stack: at most a walk of its user, a search for
\* orphans below it, and a walk that the search makes.
LEMMA StackIsShort ==
  ASSUME NEW s, StackOK(s)
  PROVE  /\ Len(s) <= 3
         /\ \A i, j \in DOMAIN s : s[i].kind = "search" /\ s[j].kind = "search" => i = j
<1>1. Len(s) \in Nat /\ DOMAIN s = 1..Len(s) /\ \A i \in 1..Len(s) : s[i] \in Jobs
  BY StackFacts, LenProperties
<1> DEFINE n == Len(s)
<1>2. \A i \in 1..n :
        /\ IsUser(s[i]) => i = 1
        /\ IsSearch(s[i]) => i = 1 \/ (i = 2 /\ IsUser(s[1]))
        /\ IsNested(s[i]) => i > 1 /\ i = n /\ IsSearch(s[i - 1])
        /\ IsUser(s[i]) \/ IsSearch(s[i]) \/ IsNested(s[i])
  BY <1>1, JobKinds DEF StackOK
<1> HIDE DEF n
<1>3. n <= 3
  <2> SUFFICES ASSUME n > 3 PROVE FALSE
    BY <1>1 DEF n
  <2>1. 3 \in 1..n /\ 3 # n
    BY <1>1 DEF n
  <2> QED BY <2>1, <1>2
<1>4. ASSUME NEW i \in 1..n, NEW j \in 1..n, IsSearch(s[i]), IsSearch(s[j])
      PROVE  i = j
  <2>1. 1 \in 1..n
    BY <1>1 DEF n
  <2>2. ~(IsSearch(s[1]) /\ IsUser(s[1]))
    BY <2>1, <1>1, JobKinds DEF n
  <2> QED BY <2>2, <1>2, <1>4
<1> QED BY <1>1, <1>3, <1>4 DEF n, IsSearch

LEMMA TypeInvGives == TypeInv => TypeOK
<1> SUFFICES ASSUME TypeInv PROVE TypeOK
  OBVIOUS
<1>1. \A t \in Threads : StackOK(stack[t])
  BY ThreadFacts
<1>2. list_inum_named \in Seq(Buckets)
  BY DEF TypeInv, SharedOK, Lists
<1> QED BY <1>1, <1>2, StackIsShort DEF TypeInv, TypeOK, SharedOK, CallerOK, Returned

\* Whatever a walk meets, the orphan directory holds deleted files only, and no
\* thread has more on its stack than a walk of the user, one search for orphans
\* and a walk that the search makes: tsk_fs_dir_load_inum_named and
\* tsk_fs_dir_find_orphans never begin again below themselves, although every
\* walk may open the orphan directory.
THEOREM TypeCorrect == Spec => []TypeOK
<1>1. Spec => []TypeInv
  BY InitType, NextType, PTL DEF Spec
<1> QED BY <1>1, TypeInvGives, PTL

-----------------------------------------------------------------------------
(* What can be reached *)

LEMMA StepsArePlaces ==
  ASSUME NEW im, NEW from, NEW flags, NEW d
  PROVE  Steps(im, d, flags) \subseteq Places(im, from, flags)
<1>1. CASE d \in DOMAIN im.names
  BY <1>1 DEF Places
<1>2. CASE d \notin DOMAIN im.names
  BY <1>2 DEF Steps, NamesIn
<1> QED BY <1>1, <1>2

LEMMA ReachedGives ==
  ASSUME NEW im, NEW from, NEW flags
  PROVE  /\ from \in Reached(im, from, flags)
         /\ \A d \in Reached(im, from, flags) : Steps(im, d, flags) \subseteq Reached(im, from, flags)
         /\ \A S : from \in S /\ (\A d \in S : Steps(im, d, flags) \subseteq S)
                     => Reached(im, from, flags) \subseteq S
<1> DEFINE P == Places(im, from, flags)
           Next1(d) == Steps(im, d, flags)
           IsClosed(S) == from \in S /\ \A d \in S : Next1(d) \subseteq S
           R == Reached(im, from, flags)
<1>1. R = {p \in P : \A S \in {T \in SUBSET P : IsClosed(T)} : p \in S}
  BY Zenon DEF Reached
<1>2. from \in P
  BY DEF Places
<1>3. \A d : Next1(d) \subseteq P
  BY StepsArePlaces
<1> HIDE DEF P, Next1, R
<1>4. from \in R
  BY <1>1, <1>2
<1>5. ASSUME NEW d \in R, NEW a \in Next1(d) PROVE a \in R
  <2>1. a \in P
    BY <1>3
  <2>2. ASSUME NEW S \in SUBSET P, IsClosed(S) PROVE a \in S
    <3>1. d \in S
      BY <1>1, <2>2
    <3> QED BY <3>1, <2>2
  <2> QED BY <1>1, <2>1, <2>2
<1>6. ASSUME NEW S, IsClosed(S) PROVE R \subseteq S
  <2> DEFINE T == S \intersect P
  <2>1. T \in SUBSET P /\ IsClosed(T)
    BY <1>2, <1>3, <1>6
  <2>2. R \subseteq T
    BY <1>1, <2>1
  <2> QED BY <2>2
<1> QED BY <1>4, <1>5, <1>6 DEF R, Next1

LEMMA ReachedOn ==
  ASSUME NEW im, NEW from, NEW flags, NEW b \in Reached(im, from, flags)
  PROVE  Reached(im, b, flags) \subseteq Reached(im, from, flags)
BY ReachedGives

\* The search leaves the orphan directory out.
LEMMA OrphanDirIsOut ==
  ASSUME NEW im, NEW from, from # OrphanDir
  PROVE  OrphanDir \notin Reached(im, from, Search)
<1> DEFINE R == Reached(im, from, Search)
           S == R \ {OrphanDir}
<1>1. \A d : OrphanDir \notin Steps(im, d, Search)
  BY DEF Steps, GoesInto, Search
<1>2. from \in S /\ \A d \in S : Steps(im, d, Search) \subseteq S
  BY <1>1, ReachedGives
<1>3. R \subseteq S
  <2> HIDE DEF S
  <2> QED BY <1>2, ReachedGives
<1> QED BY <1>3

\* A directory that cannot be loaded leads nowhere.
LEMMA NowhereElse ==
  ASSUME NEW im, NEW d, d \notin Loadable(im)
  PROVE  NamesIn(im, d) = {} /\ \A flags : Steps(im, d, flags) = {}
BY DEF NamesIn, Steps, Loadable

LEMMA NamesAreIn ==
  ASSUME disk \in DOMAIN Images, NEW d \in Loadable(image)
  PROVE  /\ Names(d) \in Seq(NameSet) /\ Len(Names(d)) \in Nat
         /\ \A p \in 1..Len(Names(d)) : Names(d)[p] \in NamesIn(image, d)
         /\ \A e \in NamesIn(image, d) : \E p \in 1..Len(Names(d)) : Names(d)[p] = e
<1> DEFINE s == Names(d)
<1>1. s \in Seq(NameSet) /\ ToSet(s) = ToSet(image.names[d]) /\ d \in DOMAIN image.names
  BY NamesFacts DEF Loadable
<1>2. NamesIn(image, d) = ToSet(s)
  BY <1>1 DEF NamesIn, Loadable
<1>3. Len(s) \in Nat /\ DOMAIN s = 1..Len(s)
  BY <1>1, LenProperties
<1> HIDE DEF s
<1>4. ToSet(s) = {s[p] : p \in 1..Len(s)}
  BY <1>3 DEF ToSet
<1> QED BY <1>1, <1>2, <1>3, <1>4 DEF s

\* The tree that OrphanFiles speaks of is this one.
LEMMA SameTree ==
  /\ Orphans!Walkable = CanWalk
  /\ Orphans!NamedBy(image) = NamedBy(image)
  /\ Orphans!Deleted(image) = Deleted(image)
  /\ \A a : Orphans!Inside(a) = Inside(a)
  /\ Orphans!NamesFit = NamesFit /\ Orphans!Cyclic = Cyclic
<1>1. \A im, e : Orphans!HasMeta(im, e) = HasMeta(im, e)
  BY DEF Orphans!HasMeta, HasMeta
<1>2. \A im, a : Orphans!MetaOf(im, a) = MetaOf(im, a)
  BY DEF Orphans!MetaOf, MetaOf
<1>3. \A im, e, flags : Orphans!GoesInto(im, e, flags) = GoesInto(im, e, flags)
  BY <1>1, <1>2 DEF Orphans!GoesInto, GoesInto
<1>4. \A im, d : Orphans!NamesIn(im, d) = NamesIn(im, d)
  BY DEF Orphans!NamesIn, NamesIn, Orphans!ToSet, ToSet
<1>5. \A im, d, flags : Orphans!Steps(im, d, flags) = Steps(im, d, flags)
  BY <1>3, <1>4 DEF Orphans!Steps, Steps
<1>6. \A im, from, flags : Orphans!Places(im, from, flags) = Places(im, from, flags)
  BY <1>5 DEF Orphans!Places, Places
<1>7. \A im, from, flags : Orphans!Reached(im, from, flags) = Reached(im, from, flags)
  BY <1>5, <1>6 DEF Orphans!Reached, Reached
<1>8. \A im, from, flags : Orphans!Below(im, from, flags) = Below(im, from, flags)
  BY <1>4, <1>7 DEF Orphans!Below, Below
<1>9. \A im : Orphans!Deleted(im) = Deleted(im)
  BY DEF Orphans!Deleted, Deleted
<1>10. Orphans!Search = Search
  BY DEF Orphans!Search, Search
<1>11. \A im : Orphans!NamedBy(im) = NamedBy(im)
  BY <1>1, <1>8, <1>9, <1>10 DEF Orphans!NamedBy, NamedBy
<1>12. \A im, from, flags, w : Orphans!IsWay(im, from, flags, w) = IsWay(im, from, flags, w)
  BY <1>5 DEF Orphans!IsWay, IsWay
<1>13. \A im, from, flags : Orphans!TooDeep(im, from, flags) = TooDeep(im, from, flags)
  BY <1>6, <1>12 DEF Orphans!TooDeep, TooDeep
<1>14. \A im : Orphans!RootIsOnTop(im) = RootIsOnTop(im)
  BY <1>4, <1>5, <1>7, <1>10 DEF Orphans!RootIsOnTop, RootIsOnTop
<1>15. Orphans!Walkable = CanWalk
  BY <1>10, <1>13, <1>14 DEF Orphans!Walkable, CanWalk
<1>16. \A a : Orphans!InsideOf(a) = InsideOf(a)
  BY <1>1, <1>8, <1>10 DEF Orphans!InsideOf, InsideOf
<1>17. \A a : Orphans!Inside(a) = Inside(a)
  BY <1>16 DEF Orphans!Inside, Inside
<1>18. Orphans!NamesFit = NamesFit
  BY <1>2, <1>9, <1>16 DEF Orphans!NamesFit, NamesFit
<1>19. Orphans!Cyclic = Cyclic
  BY <1>9, <1>17 DEF Orphans!Cyclic, Cyclic
<1> QED BY <1>9, <1>11, <1>15, <1>17, <1>18, <1>19

-----------------------------------------------------------------------------
(* The names below a directory *)

LEMMA NamedFrom ==
  ASSUME NEW d \in Reached(image, Root, Search), NEW e \in NamesIn(image, d),
         HasMeta(image, e), e.addr \in Deleted(image)
  PROVE  e.addr \in NamedBy(image)
BY DEF NamedBy, Below

LEMMA NamedIn ==
  ASSUME NEW a \in NamedBy(image)
  PROVE  /\ a \in Deleted(image)
         /\ \E d \in Reached(image, Root, Search) : \E e \in NamesIn(image, d) :
              e.addr = a /\ HasMeta(image, e)
BY DEF NamedBy, Below

LEMMA InsideFrom ==
  ASSUME NEW o, NEW d \in Reached(image, o, Search), NEW e \in NamesIn(image, d),
         HasMeta(image, e), ~e.dot
  PROVE  e.addr \in Inside(o)
BY DEF Inside, InsideOf, Below

\* An orphaned directory inside of another one is walked with it, and so is
\* what is inside of it.
LEMMA InsideOn ==
  ASSUME disk \in DOMAIN Images, NamesFit, NEW c \in Deleted(image), NEW b \in Deleted(image),
         image.meta[b].dir, b \in Inside(c)
  PROVE  Inside(b) \subseteq Inside(c)
<1>1. PICK e \in InsideOf(c) : e.addr = b
  BY DEF Inside
<1>2. PICK d \in Reached(image, c, Search) : e \in NamesIn(image, d)
  BY <1>1 DEF InsideOf, Below
<1>3. b # OrphanDir /\ b \in DOMAIN image.meta /\ ~image.meta[b].alloc
  BY ImageFacts DEF Deleted
<1>4. MetaOf(image, b).dir /\ ~MetaOf(image, b).alloc
  BY <1>3 DEF MetaOf
<1>5. e.dirLike /\ ~e.dot /\ HasMeta(image, e)
  BY <1>1, <1>4 DEF NamesFit, InsideOf
<1>6. GoesInto(image, e, Search)
  BY <1>1, <1>3, <1>4, <1>5 DEF GoesInto, Search
<1>7. b \in Steps(image, d, Search)
  BY <1>1, <1>2, <1>6 DEF Steps
<1>8. b \in Reached(image, c, Search)
  BY <1>2, <1>7, ReachedGives
<1>9. Reached(image, b, Search) \subseteq Reached(image, c, Search)
  BY <1>8, ReachedOn
<1> QED BY <1>9 DEF Inside, InsideOf, Below

LEMMA FewerAbove ==
  ASSUME NEW S, IsFiniteSet(S), NEW T, T \subseteq S, NEW c \in S, c \notin T
  PROVE  Cardinality(T) < Cardinality(S) /\ Cardinality(T) \in Nat /\ Cardinality(S) \in Nat
<1>1. IsFiniteSet(S \ {c}) /\ Cardinality(S \ {c}) = Cardinality(S) - 1
  BY FS_RemoveElement
<1>2. Cardinality(T) <= Cardinality(S \ {c}) /\ IsFiniteSet(T)
  <2>1. T \subseteq S \ {c}
    OBVIOUS
  <2> QED BY <2>1, <1>1, FS_Subset
<1>3. Cardinality(T) \in Nat /\ Cardinality(S) \in Nat
  BY <1>2, FS_CardinalityType
<1> QED BY <1>1, <1>2, <1>3

\* Unless orphaned directories are in a circle, one of those that hold a file
\* is in none of the others.
LEMMA OutermostIs ==
  ASSUME disk \in DOMAIN Images, NamesFit, ~Cyclic, NEW a,
         NEW C \in SUBSET {o \in Deleted(image) : image.meta[o].dir}, C # {}
  PROVE  \E o \in C : \A c \in C : o \notin Inside(c)
<1> DEFINE Up(o) == {c \in C : o \in Inside(c)}
           R == OpToRel(<, Nat)
           K == {Cardinality(Up(o)) : o \in C}
<1>1. IsFiniteSet(C)
  <2>1. MaxKey \in Nat
    BY MaxKeyAssumption
  <2>2. IsFiniteSet(0..MaxKey)
    BY <2>1, FS_Interval
  <2>3. C \subseteq 0..MaxKey
    BY ImageFacts
  <2> QED BY <2>2, <2>3, FS_Subset
<1>2. \A o \in C : Up(o) \subseteq C /\ IsFiniteSet(Up(o)) /\ Cardinality(Up(o)) \in Nat
  <2> TAKE o \in C
  <2>1. Up(o) \subseteq C
    OBVIOUS
  <2> HIDE DEF Up
  <2> QED BY <1>1, <2>1, FS_Subset, FS_CardinalityType
<1>3. ASSUME NEW o \in C, NEW c \in C, o \in Inside(c)
      PROVE  Cardinality(Up(c)) < Cardinality(Up(o))
  <2>1. Up(c) \subseteq Up(o)
    <3> SUFFICES ASSUME NEW x \in C, c \in Inside(x) PROVE o \in Inside(x)
      OBVIOUS
    <3>1. x \in Deleted(image) /\ c \in Deleted(image) /\ image.meta[c].dir /\ c \in Inside(x)
      OBVIOUS
    <3>2. Inside(c) \subseteq Inside(x)
      BY <3>1, InsideOn
    <3> QED BY <3>2, <1>3
  <2>2. c \in Up(o) /\ c \notin Up(c)
    BY <1>3 DEF Cyclic
  <2> HIDE DEF Up
  <2> QED BY <1>2, <2>1, <2>2, FewerAbove
<1>4. IsWellFoundedOn(R, Nat)
  BY NatLessThanWellFounded, Zenon
<1>5. \A x, y \in Nat : x < y => <<x, y>> \in R
  BY Zenon DEF OpToRel
<1>6. K \subseteq Nat /\ K # {}
  BY <1>2
<1> HIDE DEF R, Up
<1>7. PICK k \in K : \A m \in K : <<m, k>> \notin R
  <2> HIDE DEF K
  <2> QED BY <1>4, <1>6, WFMin
<1>8. PICK o \in C : k = Cardinality(Up(o))
  BY <1>7
<1>9. ASSUME NEW c \in C, o \in Inside(c) PROVE FALSE
  <2>1. Cardinality(Up(c)) < k /\ Cardinality(Up(c)) \in K /\ Cardinality(Up(c)) \in Nat /\ k \in Nat
    BY <1>2, <1>3, <1>8, <1>9
  <2> QED BY <2>1, <1>5, <1>7
<1> QED BY <1>9

\* No orphan is lost with the names that the search takes out: it is in one of
\* the orphaned directories that stay.
LEMMA NoneIsLost ==
  ASSUME disk \in DOMAIN Images, NamesFit, ~Cyclic, NEW j, Knows(j),
         NEW s, Thinned(j.names, j.subdirs, s),
         NEW a \in Deleted(image), a <= j.next, a \notin Elements(list_inum_named)
  PROVE  \E i \in 1..Len(s) : a = s[i] \/ a \in Inside(s[i])
<1>1. Has(j.names, a) \/ a \in Elements(j.subdirs)
  BY DEF Knows, Has
<1>2. CASE Has(s, a)
  BY <1>2 DEF Has
<1>3. CASE a \in Elements(j.subdirs)
  <2> DEFINE C == {o \in Deleted(image) : HasDir(j, o) /\ a \in Inside(o)}
  <2>1. C # {} /\ C \in SUBSET {o \in Deleted(image) : image.meta[o].dir}
    BY <1>3 DEF Knows, HasDir
  <2> HIDE DEF C
  <2>2. PICK o \in C : \A c \in C : o \notin Inside(c)
    BY <2>1, OutermostIs
  <2>3. o \in Deleted(image) /\ HasDir(j, o) /\ a \in Inside(o) /\ image.meta[o].dir
    BY <2>2 DEF C, HasDir
  <2>4. o \notin Elements(j.subdirs)
    <3> SUFFICES ASSUME o \in Elements(j.subdirs) PROVE FALSE
      OBVIOUS
    <3>1. PICK c \in Deleted(image) : HasDir(j, c) /\ o \in Inside(c)
      BY DEF Knows
    <3>2. Inside(o) \subseteq Inside(c)
      BY <2>3, <3>1, InsideOn
    <3>3. c \in C
      BY <2>3, <3>1, <3>2 DEF C
    <3> QED BY <2>2, <3>1, <3>3
  <2>5. Has(s, o)
    <3>1. PICK i \in 1..Len(j.names) : j.names[i] = o
      BY <2>3 DEF HasDir
    <3>2. Has(s, j.names[i]) \/ j.names[i] \in Elements(j.subdirs)
      BY DEF Thinned
    <3> QED BY <3>1, <3>2, <2>4
  <2> QED BY <2>3, <2>5 DEF Has
<1>4. CASE Has(j.names, a) /\ a \notin Elements(j.subdirs)
  BY <1>4, <1>2 DEF Thinned, Has
<1> QED BY <1>1, <1>3, <1>4

-----------------------------------------------------------------------------
(* Walks collect in directories below the root *)

LEMMA SearchGoesInto ==
  ASSUME NEW e, NEW flags
  PROVE  /\ GoesInto(image, e, flags) /\ e.addr # OrphanDir => GoesInto(image, e, Search)
         /\ GoesInto(image, e, Search) => e.addr # OrphanDir
         /\ GoesInto(image, e, Search) /\ "RECURSE" \in flags => GoesInto(image, e, flags)
         /\ GoesInto(image, e, flags) => e.addr \in DOMAIN image.meta \union {OrphanDir}
BY DEF GoesInto, Search, HasMeta

LEMMA StepIsIn ==
  ASSUME NEW d, NEW e \in NamesIn(image, d), NEW flags, GoesInto(image, e, flags), e.addr # OrphanDir
  PROVE  e.addr \in Steps(image, d, Search)
BY SearchGoesInto DEF Steps

\* The name that a walk is at is in a directory of the tree, or in the virtual
\* one.
LEMMA NameIsIn ==
  ASSUME TypeInv, NEW t \in Threads, AtName(t)
  PROVE  LET w == Top(t)
             n == Len(w.frames) IN
         /\ w \in Walks /\ w.pc = "entry" /\ w.frames # << >> /\ n \in Nat \ {0} /\ n \in 1..n
         /\ WalkOK(image, orphan_dir, w)
         /\ Dir(t) = w.frames[n]
         /\ Name(t) \in NameSet
         /\ w.frames[n].i \in 1..Len(Names(w.frames[n].dir))
         /\ Name(t) = Names(w.frames[n].dir)[w.frames[n].i]
         /\ w.frames[n].dir # OrphanDir =>
              w.frames[n].dir \in Loadable(image) /\ Name(t) \in NamesIn(image, w.frames[n].dir)
<1> DEFINE w == Top(t)
           n == Len(w.frames)
<1>1. At(t, "walk", "entry") /\ Dir(t).i <= Len(Names(Dir(t).dir))
  BY DEF AtName, InDir
<1>2. w \in Walks /\ WalkOK(image, orphan_dir, w) /\ w.pc = "entry"
  BY <1>1, TopFacts
<1>3. w.frames # << >> /\ n \in Nat \ {0} /\ n \in 1..n
  BY <1>2, InDirFacts
<1>4. Dir(t) = w.frames[n] /\ Name(t) \in NameSet
  BY NameFacts
<1>5. w.frames[n].i \in Nat \ {0}
  BY <1>2, <1>3, WalkFields
<1>6. disk \in DOMAIN Images
  BY ThreadFacts
<1>7. w.frames[n].dir \in Loadable(image) \/ (w.frames[n].dir = OrphanDir /\ orphan_dir # NULL)
  BY <1>2, <1>3 DEF WalkOK
<1>8. Len(Names(w.frames[n].dir)) \in Nat
  <2>1. CASE w.frames[n].dir \in Loadable(image)
    BY <2>1, <1>6, NamesAreIn
  <2>2. CASE w.frames[n].dir = OrphanDir /\ orphan_dir # NULL
    <3>1. orphan_dir \in Seq(Deleted(image))
      BY <2>2, ThreadFacts DEF SharedOK
    <3> QED BY <3>1, <2>2, <1>6, OrphanNamesFacts, LenProperties
  <2> QED BY <2>1, <2>2, <1>7
<1>9. w.frames[n].i \in 1..Len(Names(w.frames[n].dir))
  BY <1>1, <1>4, <1>5, <1>8
<1>10. Name(t) = Names(w.frames[n].dir)[w.frames[n].i]
  BY <1>4 DEF Name
<1>11. w.frames[n].dir \in Loadable(image) => Name(t) \in NamesIn(image, w.frames[n].dir)
  BY <1>6, <1>9, <1>10, NamesAreIn
<1> HIDE DEF w
<1> QED BY <1>2, <1>3, <1>4, <1>7, <1>9, <1>10, <1>11 DEF w

LEMMA SoundFrom ==
  ASSUME NEW w, Sound(w), NEW v, v.list = w.list, v.pc # "check", v.pc = "opening" => ~v.save,
         \A k \in 1..Len(v.frames) : SavesAbove(v, k) =>
           \/ k \in 1..Len(w.frames) /\ v.frames[k].dir = w.frames[k].dir /\ SavesAbove(w, k)
           \/ v.frames[k].dir \in Reached(image, Root, Search)
  PROVE  Sound(v)
BY DEF Sound

LEMMA SkipsSound ==
  ASSUME NEW w \in Walks, Sound(w), NEW v, Skips(w, v), Len(w.frames) > 0
  PROVE  Sound(v)
<1> DEFINE n == Len(w.frames)
<1>1. n \in Nat \ {0}
  BY WalkFields
<1>2. /\ v.list = w.list /\ v.pc = "entry" /\ v.save = w.save /\ Len(v.frames) = n
      /\ SameFrames(w, v, n - 1)
      /\ v.frames[n].dir = w.frames[n].dir /\ v.frames[n].bak = FALSE
  BY DEF Skips
<1> HIDE DEF n
<1>3. \A k \in 1..n : k \in 1..n - 1 \/ k = n
  BY <1>1
<1>4. \A k \in 1..n : v.frames[k].dir = w.frames[k].dir /\ (v.frames[k].bak => w.frames[k].bak)
  BY <1>2, <1>3 DEF SameFrames
<1>5. \A k \in 1..n : SavesAbove(v, k) => SavesAbove(w, k)
  <2> TAKE k \in 1..n
  <2>1. \A m \in k..n : m \in 1..n
    BY <1>1
  <2> QED BY <2>1, <1>2, <1>4 DEF SavesAbove, n
<1> QED BY <1>2, <1>4, <1>5, SoundFrom DEF n

LEMMA EntersSound ==
  ASSUME NEW w \in Walks, Sound(w), NEW v, NEW d, Len(w.frames) > 0,
         \/ Enters(w, v, d) /\ (w.save => d \in Reached(image, Root, Search))
         \/ Looks(w, v) /\ w.pc = "opening" /\ d = OrphanDir,
         d \in 0..MaxKey
  PROVE  Sound(v)
<1> DEFINE n == Len(w.frames)
<1>1. n \in Nat \ {0}
  BY WalkFields
<1>2. /\ v.list = w.list /\ v.pc = "entry" /\ v.save = w.save /\ Len(v.frames) = n + 1
      /\ SameFrames(w, v, n) /\ v.frames[n + 1] = Frame(d)
  BY DEF Enters, Looks
<1>3. w.save => d \in Reached(image, Root, Search)
  BY DEF Sound
<1>4. v.frames[n + 1].bak = FALSE /\ v.frames[n + 1].dir = d
  BY <1>2, FrameGives
<1> HIDE DEF n
<1>5. \A k \in 1..n + 1 : k \in 1..n \/ k = n + 1
  BY <1>1
<1>6. \A k \in 1..n : v.frames[k].dir = w.frames[k].dir /\ v.frames[k].bak = w.frames[k].bak
  BY <1>2 DEF SameFrames
<1>7. \A k \in 1..n : SavesAbove(v, k) => SavesAbove(w, k)
  <2> TAKE k \in 1..n
  <2>1. \A m \in k..n + 1 : (m \in k..n /\ m \in 1..n) \/ m = n + 1
    BY <1>1
  <2> QED BY <2>1, <1>2, <1>4, <1>6 DEF SavesAbove, n
<1>8. SavesAbove(v, n + 1) => w.save
  <2>1. \A m \in n + 1..n + 1 : m = n + 1
    BY <1>1
  <2> QED BY <2>1, <1>2, <1>4 DEF SavesAbove
<1> QED BY <1>2, <1>3, <1>4, <1>5, <1>6, <1>7, <1>8, SoundFrom DEF n

LEMMA OpensSound ==
  ASSUME NEW w \in Walks, Sound(w), NEW v, Opens(w, v), Len(w.frames) > 0
  PROVE  Sound(v)
<1> DEFINE n == Len(w.frames)
<1>1. n \in Nat \ {0}
  BY WalkFields
<1>2. /\ v.list = w.list /\ v.pc = "opening" /\ v.save = FALSE /\ Len(v.frames) = n
      /\ SameFrames(w, v, n - 1)
      /\ v.frames[n].dir = w.frames[n].dir /\ v.frames[n].bak = w.save
  BY DEF Opens
<1> HIDE DEF n
<1>3. \A k \in 1..n : k \in 1..n - 1 \/ k = n
  BY <1>1
<1>4. \A k \in 1..n : v.frames[k].dir = w.frames[k].dir /\ (v.frames[k].bak => w.frames[k].bak \/ w.save)
  BY <1>2, <1>3 DEF SameFrames
<1>5. \A k \in 1..n : SavesAbove(v, k) => SavesAbove(w, k)
  <2> TAKE k \in 1..n
  <2>1. \A m \in k..n : m \in 1..n
    BY <1>1
  <2> QED BY <2>1, <1>2, <1>4 DEF SavesAbove, n
<1> QED BY <1>2, <1>4, <1>5, SoundFrom DEF n

LEMMA LeavesSound ==
  ASSUME NEW w \in Walks, Sound(w), NEW v, NEW ret, NEW seen, Leaves(w, v, ret, seen), Len(w.frames) > 0
  PROVE  Sound(v)
<1> DEFINE n == Len(w.frames) - 1
<1>1. n \in Nat /\ Len(w.frames) = n + 1
  BY WalkFields
<1>2. /\ v.list = w.list /\ Len(v.frames) = n /\ SameFrames(w, v, n - 1)
      /\ n = 0 => v.pc = "returned"
      /\ n > 0 => /\ v.pc = "entry" /\ v.frames[n].dir = w.frames[n].dir /\ v.frames[n].bak = FALSE
                  /\ v.save = w.save \/ v.save = w.frames[n].bak
  BY DEF Leaves
<1> HIDE DEF n
<1>3. CASE n = 0
  BY <1>2, <1>3, SoundFrom
<1>4. CASE n > 0
  <2>1. \A k \in 1..n : k \in 1..n - 1 \/ k = n
    BY <1>1
  <2>2. \A k \in 1..n : v.frames[k].dir = w.frames[k].dir /\ (v.frames[k].bak => w.frames[k].bak)
    BY <2>1, <1>2, <1>4 DEF SameFrames
  <2>3. \A k \in 1..n : SavesAbove(v, k) => SavesAbove(w, k)
    <3> TAKE k \in 1..n
    <3>1. \A m \in k..n : m \in 1..n /\ m \in k..n + 1
      BY <1>1
    <3>2. n \in k..n + 1
      BY <1>1
    <3> QED BY <3>1, <3>2, <1>1, <1>2, <1>4, <2>2 DEF SavesAbove
  <2>4. \A k \in 1..n : k \in 1..Len(w.frames)
    BY <1>1
  <2> QED BY <1>2, <1>4, <2>2, <2>3, <2>4, SoundFrom
<1> QED BY <1>1, <1>3, <1>4

LEMMA ResumesSound ==
  ASSUME NEW w \in Walks, Sound(w), NEW v, Resumes(w, v), Len(w.frames) > 0
  PROVE  Sound(v)
<1> DEFINE n == Len(w.frames)
<1>1. n \in Nat \ {0}
  BY WalkFields
<1>2. /\ v.list = w.list /\ v.pc = "entry" /\ Len(v.frames) = n
      /\ SameFrames(w, v, n - 1) /\ v.save = w.frames[n].bak
      /\ v.frames[n].dir = w.frames[n].dir /\ v.frames[n].bak = FALSE
  BY DEF Resumes
<1> HIDE DEF n
<1>3. \A k \in 1..n : k \in 1..n - 1 \/ k = n
  BY <1>1
<1>4. \A k \in 1..n : v.frames[k].dir = w.frames[k].dir /\ (v.frames[k].bak => w.frames[k].bak)
  BY <1>2, <1>3 DEF SameFrames
<1>5. \A k \in 1..n : SavesAbove(v, k) => SavesAbove(w, k)
  <2> TAKE k \in 1..n
  <2>1. \A m \in k..n : m \in 1..n
    BY <1>1
  <2>2. n \in k..n
    BY <1>1
  <2> QED BY <2>1, <2>2, <1>2, <1>4 DEF SavesAbove, n
<1> QED BY <1>2, <1>4, <1>5, SoundFrom DEF n

LEMMA StoppedSound ==
  ASSUME NEW w \in Walks, Sound(w)
  PROVE  Sound(Stopped(w))
<1> DEFINE v == Stopped(w)
<1>1. v \in Walks /\ v.frames = << >> /\ v.pc = "returned" /\ v.list \in {w.list, Empty}
  BY StoppedGives
<1> HIDE DEF v
<1>2. Len(v.frames) = 0
  BY <1>1, WalkFields
<1>3. Elements(v.list) \subseteq NamedBy(image)
  BY <1>1, EmptyList DEF Sound
<1> QED BY <1>1, <1>2, <1>3 DEF Sound, v

\* What it collects at name e has a name: e is in a directory below the root.
LEMMA CollectedSound ==
  ASSUME disk \in DOMAIN Images, NEW w \in Walks, Sound(w), NEW e \in NameSet, w.pc = "entry", Len(w.frames) > 0,
         w.save => e \in NamesIn(image, w.frames[Len(w.frames)].dir)
  PROVE  /\ Sound(Collected(w, e))
         /\ Elements(Collected(w, e).list) \subseteq NamedBy(image)
<1> DEFINE v == Collected(w, e)
           n == Len(w.frames)
<1>1. /\ v \in Walks /\ Amended(w, v) /\ v.save = w.save
      /\ Collects(w, e) => Elements(v.list) = Elements(w.list) \union {e.addr}
      /\ ~Collects(w, e) => v.list = w.list
  BY CollectedGives
<1> HIDE DEF v
<1>2. Collects(w, e) => e.addr \in NamedBy(image)
  <2> SUFFICES ASSUME Collects(w, e) PROVE e.addr \in NamedBy(image)
    OBVIOUS
  <2>1. w.save /\ HasMeta(image, e) /\ ~MetaOf(image, e.addr).alloc
    BY DEF Collects
  <2>2. e.addr \in DOMAIN image.meta /\ ~image.meta[e.addr].alloc
    BY <2>1 DEF HasMeta, MetaOf
  <2>3. e.addr \in Deleted(image)
    BY <2>2 DEF Deleted
  <2>4. n \in 1..n
    BY WalkFields
  <2>5. w.frames[n].dir \in Reached(image, Root, Search)
    BY <2>1, <2>4 DEF Sound, SavesAbove
  <2> QED BY <2>1, <2>3, <2>5, NamedFrom
<1>3. Elements(v.list) \subseteq NamedBy(image)
  BY <1>1, <1>2 DEF Sound
<1>4. v.frames = w.frames /\ v.pc = w.pc
  BY <1>1 DEF Amended
<1>5. \A k \in 1..Len(v.frames) : SavesAbove(v, k) => SavesAbove(w, k)
  BY <1>1, <1>4 DEF SavesAbove
<1> QED BY <1>1, <1>3, <1>4, <1>5 DEF Sound, v

LEMMA SavedEarlySound ==
  ASSUME NEW w \in Walks, Sound(w), w.pc = "entry"
  PROVE  Sound(SavedEarly(w))
<1> DEFINE v == SavedEarly(w)
<1>1. v \in Walks /\ Amended(w, v) /\ v.save = FALSE /\ v.list = Empty
  BY SavedEarlyGives
<1> HIDE DEF v
<1>2. v.frames = w.frames /\ v.pc = w.pc
  BY <1>1 DEF Amended
<1>3. \A k \in 1..Len(v.frames) : SavesAbove(v, k) => SavesAbove(w, k)
  BY <1>1, <1>2 DEF SavesAbove
<1> QED BY <1>1, <1>2, <1>3, EmptyList DEF Sound, v

-----------------------------------------------------------------------------
(* What a walk has seen *)

LEMMA DoneMore ==
  ASSUME NEW e, NEW l, NEW R, Done(e, l, R), NEW m, NEW S,
         Elements(l) \subseteq Elements(m), R \subseteq S
  PROVE  Done(e, m, S)
BY DEF Done

\* A walk that has been through all that it knows has been everywhere.
LEMMA CoveredAll ==
  ASSUME NEW V, NEW l, Root \in V, \A d \in V : \A e \in NamesIn(image, d) : Done(e, l, V)
  PROVE  NamedBy(image) \subseteq Elements(l)
<1>1. \A d \in V : Steps(image, d, Search) \subseteq V
  BY DEF Steps, Done
<1>2. Reached(image, Root, Search) \subseteq V
  BY <1>1, ReachedGives
<1> QED BY <1>2, NamedIn DEF Done

\* The directories of a walk and what it has seen on its way to them.
LEMMA WayFacts ==
  ASSUME NEW w \in Walks, OnWay(w), Len(w.frames) > 0
  PROVE  /\ Len(w.frames) \in Nat \ {0} /\ w.seen \in Seq(0..MaxKey)
         /\ Len(w.seen) = Len(w.frames) - 1 + Pending(w)
         /\ w.frames[1].dir = Root
         /\ \A i, j \in 1..Len(w.seen) : w.seen[i] = w.seen[j] => i = j
         /\ \A k \in 1..Len(w.frames) - 1 :
              w.frames[k + 1].dir = w.seen[k] /\ w.seen[k] \in Steps(image, w.frames[k].dir, Search)
BY WalkFields DEF OnWay

LEMMA SkipsOnWay ==
  ASSUME NEW w \in Walks, OnWay(w), w.pc = "entry", Len(w.frames) > 0, NEW v, Skips(w, v)
  PROVE  OnWay(v) /\ Way(v) = Way(w)
         /\ \A k \in 1..Len(w.frames) : v.frames[k].dir = w.frames[k].dir
<1> DEFINE n == Len(w.frames)
<1>1. n \in Nat \ {0}
  BY WalkFields
<1>2. v.pc = "entry" /\ v.seen = w.seen /\ Len(v.frames) = n /\ SameFrames(w, v, n - 1)
      /\ v.frames[n].dir = w.frames[n].dir
  BY DEF Skips
<1>3. Pending(w) = 0 /\ Pending(v) = 0
  BY <1>2 DEF Pending
<1> HIDE DEF n
<1>4. \A k \in 1..n : k \in 1..n - 1 \/ k = n
  BY <1>1
<1>5. \A k \in 1..n : v.frames[k].dir = w.frames[k].dir
  BY <1>2, <1>4 DEF SameFrames
<1>6. \A k \in 1..n - 1 : k \in 1..n /\ k + 1 \in 1..n
  BY <1>1
<1>7. 1 \in 1..n
  BY <1>1
<1>8. OnWay(v)
  BY <1>2, <1>3, <1>5, <1>6, <1>7 DEF OnWay, n
<1>9. Way(v) = Way(w)
  BY <1>2, <1>5 DEF Way, n
<1> QED BY <1>5, <1>8, <1>9 DEF n

\* With e it has dealt with one name more.
LEMMA CoversOn ==
  ASSUME NEW w \in Walks, NEW V, Covers(w, V), NEW e, Meets(w, e),
         NEW R2, V \union Way(w) \subseteq R2, Done(e, w.list, R2)
  PROVE  /\ \A d \in V : \A x \in NamesIn(image, d) : Done(x, w.list, R2)
         /\ \A k \in 1..Len(w.frames) : \A p \in 1..Len(Names(w.frames[k].dir)) :
              p <= w.frames[k].i => Done(Names(w.frames[k].dir)[p], w.list, R2)
<1> DEFINE n == Len(w.frames)
           R == V \union Way(w)
<1>1. \A d \in V : \A x \in NamesIn(image, d) : Done(x, w.list, R2)
  <2>1. \A d \in V : \A x \in NamesIn(image, d) : Done(x, w.list, R)
    BY DEF Covers
  <2> HIDE DEF R
  <2> QED BY <2>1, DoneMore DEF R
<1>2. w.pc = "entry" /\ e = Names(w.frames[n].dir)[w.frames[n].i]
  BY Zenon DEF Meets
<1>3. ASSUME NEW k \in 1..n, NEW p \in 1..Len(Names(w.frames[k].dir)), p <= w.frames[k].i
      PROVE  Done(Names(w.frames[k].dir)[p], w.list, R2)
  <2>1. p <= Past(w, k) => Done(Names(w.frames[k].dir)[p], w.list, R)
    BY DEF Covers
  <2>2. w.frames[k].i \in Nat
    BY WalkFields
  <2>3. CASE p <= Past(w, k)
    <3> HIDE DEF R
    <3> QED BY <2>1, <2>3, DoneMore DEF R
  <2>4. CASE ~(p <= Past(w, k))
    <3>1. k = n /\ p = w.frames[k].i
      BY <2>2, <2>4, <1>2, <1>3 DEF Past
    <3> QED BY <3>1, <1>2
  <2> QED BY <2>3, <2>4
<1> QED BY <1>1, <1>3

\* The walk goes past name e: there is nothing below it, it is on the way, or
\* it cannot be loaded.
LEMMA AccountSkips ==
  ASSUME NEW w \in Walks, Account(w), NEW v \in Walks, Skips(w, v),
         NEW e, Meets(w, e), AfterSkips(w, e)
  PROVE  Account(v)
<1> DEFINE n == Len(w.frames)
<1>0. /\ w.pc = "entry" /\ Len(w.frames) > 0 /\ e.addr \in 0..MaxKey
      /\ e = Names(w.frames[n].dir)[w.frames[n].i]
      /\ HasMeta(image, e) /\ e.addr \in Deleted(image) => e.addr \in Elements(w.list)
  BY Zenon DEF Meets
<1>1. n \in Nat \ {0} /\ "RECURSE" \in w.flags /\ OnWay(w)
  <2>1. n > 0 /\ n \in Nat
    BY WalkFields, Zenon DEF Meets
  <2> HIDE DEF n
  <2> QED BY <2>1 DEF Account
<1>2. PICK V \in SUBSET (0..MaxKey) : Covers(w, V)
  BY DEF Account
<1>3. OnWay(v) /\ Way(v) = Way(w) /\ \A k \in 1..n : v.frames[k].dir = w.frames[k].dir
  BY <1>0, <1>1, SkipsOnWay
<1>4. /\ v.pc = "entry" /\ v.flags = w.flags /\ v.list = w.list /\ Len(v.frames) = n
      /\ SameFrames(w, v, n - 1) /\ v.frames[n].i = w.frames[n].i + 1
  BY DEF Skips, SameCall
<1> DEFINE V2 == V \union ({e.addr} \ Loadable(image))
           R == V \union Way(w)
           R2 == V2 \union Way(v)
<1>5. V2 \in SUBSET (0..MaxKey)
  BY <1>0
<1>6. R \subseteq R2
  BY <1>3
<1>7. IsLoop(w, e) => e.addr \in Way(w)
  <2> SUFFICES ASSUME IsLoop(w, e) PROVE e.addr \in Way(w)
    OBVIOUS
  <2>1. Len(w.seen) = n - 1 /\ w.seen \in Seq(0..MaxKey)
    <3>1. Len(w.seen) = n - 1 + Pending(w) /\ w.seen \in Seq(0..MaxKey)
      BY <1>0, <1>1, WayFacts
    <3>2. Pending(w) = 0
      BY <1>0 DEF Pending
    <3> HIDE DEF n
    <3> QED BY <3>1, <3>2, <1>1
  <2>2. PICK j \in 1..Len(w.seen) : w.seen[j] = e.addr
    BY <2>1, LenProperties DEF IsLoop, ToSet
  <2>3. j \in 1..n - 1 /\ j + 1 \in 1..n
    BY <2>1, <1>1
  <2>4. w.frames[j + 1].dir = e.addr
    BY <2>2, <2>3, <1>1 DEF OnWay
  <2> QED BY <2>3, <2>4 DEF Way
<1>8. Done(e, w.list, R2)
  <2>1. GoesInto(image, e, Search) => e.addr \in R2
    BY <1>1, <1>3, <1>7, SearchGoesInto DEF AfterSkips
  <2> HIDE DEF R2
  <2> QED BY <2>1, <1>0 DEF Done
<1> HIDE DEF V2, n
<1>9. /\ \A d \in V : \A x \in NamesIn(image, d) : Done(x, w.list, R2)
      /\ \A k \in 1..n : \A p \in 1..Len(Names(w.frames[k].dir)) :
           p <= w.frames[k].i => Done(Names(w.frames[k].dir)[p], w.list, R2)
  <2> HIDE DEF R2
  <2> QED BY <1>2, <1>6, <1>8, CoversOn DEF n
<1>10. \A d \in V2 : \A x \in NamesIn(image, d) : Done(x, w.list, R2)
  <2>1. \A d \in V2 \ V : NamesIn(image, d) = {}
    BY NowhereElse DEF V2
  <2> HIDE DEF R2
  <2> QED BY <2>1, <1>9
<1>11. \A k \in 1..n : Past(v, k) = w.frames[k].i
  <2> TAKE k \in 1..n
  <2>1. w.frames[k].i \in Nat
    BY WalkFields DEF n
  <2>2. k \in 1..n - 1 \/ k = n
    BY <1>1
  <2> QED BY <2>1, <2>2, <1>4 DEF Past, SameFrames
<1>12. Covers(v, V2)
  BY <1>3, <1>4, <1>9, <1>10, <1>11 DEF Covers
<1> QED BY <1>1, <1>3, <1>4, <1>5, <1>12 DEF Account

\* It goes down to directory e, which is now on the way.
LEMMA AccountEnters ==
  ASSUME NEW w \in Walks, Account(w), NEW v \in Walks, NEW e, Meets(w, e),
         Enters(w, v, e.addr), ~IsLoop(w, e), e.addr # OrphanDir, GoesInto(image, e, w.flags)
  PROVE  Account(v)
<1> DEFINE n == Len(w.frames)
<1>0. /\ w.pc = "entry" /\ Len(w.frames) > 0 /\ e.addr \in 0..MaxKey
      /\ e \in NamesIn(image, w.frames[n].dir) /\ e = Names(w.frames[n].dir)[w.frames[n].i]
      /\ HasMeta(image, e) /\ e.addr \in Deleted(image) => e.addr \in Elements(w.list)
  BY Zenon DEF Meets
<1>1. n \in Nat \ {0} /\ "RECURSE" \in w.flags /\ OnWay(w)
  <2>1. n > 0 /\ n \in Nat
    BY WalkFields, Zenon DEF Meets
  <2> HIDE DEF n
  <2> QED BY <2>1 DEF Account
<1>2. PICK V \in SUBSET (0..MaxKey) : Covers(w, V)
  BY DEF Account
<1>3. /\ v.pc = "entry" /\ v.flags = w.flags /\ v.list = w.list /\ Len(v.frames) = n + 1
      /\ SameFrames(w, v, n) /\ v.frames[n + 1].dir = e.addr /\ v.frames[n + 1].i = 1
      /\ v.seen = Append(w.seen, e.addr)
  BY <1>0, FrameGives DEF Enters, SameCall
<1>4. \A k \in 1..n : v.frames[k].dir = w.frames[k].dir /\ v.frames[k].i = w.frames[k].i
  BY <1>3 DEF SameFrames
<1>5. e.addr \in Steps(image, w.frames[n].dir, Search)
  BY <1>0, StepIsIn
<1>6. /\ Len(w.seen) = n - 1 /\ w.seen \in Seq(0..MaxKey)
      /\ Pending(w) = 0 /\ Pending(v) = 0
  <2>1. Len(w.seen) = n - 1 + Pending(w) /\ w.seen \in Seq(0..MaxKey)
    BY <1>0, <1>1, WayFacts
  <2>2. Pending(w) = 0 /\ Pending(v) = 0
    BY <1>0, <1>3 DEF Pending
  <2> HIDE DEF n
  <2> QED BY <2>1, <2>2, <1>1
<1>7. /\ Len(v.seen) = n /\ v.seen[n] = e.addr
      /\ \A k \in 1..n - 1 : v.seen[k] = w.seen[k] /\ w.seen[k] # e.addr
  <2>1. \A k \in 1..n - 1 : w.seen[k] # e.addr
    BY <1>6, LenProperties DEF IsLoop, ToSet
  <2> HIDE DEF n
  <2>2. /\ Len(v.seen) = Len(w.seen) + 1 /\ v.seen[Len(w.seen) + 1] = e.addr
        /\ \A k \in 1..Len(w.seen) : v.seen[k] = w.seen[k]
    <3>1. w.seen \in Seq(0..MaxKey) /\ e.addr \in 0..MaxKey
      BY <1>0, <1>6
    <3>2. v.seen = Append(w.seen, e.addr)
      BY <1>3
    <3> QED BY <3>1, <3>2, AppendProperties
  <2> QED BY <2>1, <2>2, <1>1, <1>6
<1> HIDE DEF n
<1>8. OnWay(v)
  <2>1. v.frames[1].dir = Root
    <3>1. 1 \in 1..n
      BY <1>1
    <3> QED BY <3>1, <1>1, <1>4 DEF OnWay
  <2>2. \A i, j \in 1..n : v.seen[i] = v.seen[j] => i = j
    <3>1. \A i \in 1..n : i \in 1..n - 1 \/ i = n
      BY <1>1
    <3>2. \A i, j \in 1..n - 1 : w.seen[i] = w.seen[j] => i = j
      BY <1>1, <1>6 DEF OnWay
    <3> QED BY <3>1, <3>2, <1>7
  <2>3. ASSUME NEW k \in 1..n
        PROVE  v.frames[k + 1].dir = v.seen[k] /\ v.seen[k] \in Steps(image, v.frames[k].dir, Search)
    <3>1. CASE k = n
      BY <3>1, <1>3, <1>4, <1>5, <1>7
    <3>2. CASE k # n
      <4>1. k \in 1..n - 1 /\ k + 1 \in 1..n
        BY <3>2, <1>1
      <4>2. w.frames[k + 1].dir = w.seen[k] /\ w.seen[k] \in Steps(image, w.frames[k].dir, Search)
        BY <4>1, <1>1 DEF OnWay, n
      <4> QED BY <4>1, <4>2, <1>4, <1>7
    <3> QED BY <3>1, <3>2
  <2>4. (n + 1) - 1 = n /\ Len(v.seen) = (n + 1) - 1 + 0
    BY <1>1, <1>7
  <2> QED BY <2>1, <2>2, <2>3, <2>4, <1>3, <1>6, <1>7 DEF OnWay
<1> DEFINE R == V \union Way(w)
           R2 == V \union Way(v)
<1>9. R \subseteq R2 /\ e.addr \in R2
  <2>1. \A k \in 1..n : k \in 1..n + 1
    BY <1>1
  <2>2. n + 1 \in 1..n + 1
    BY <1>1
  <2> QED BY <2>1, <2>2, <1>3, <1>4 DEF Way, n
<1>10. Done(e, w.list, R2)
  <2> HIDE DEF R2
  <2> QED BY <1>0, <1>9 DEF Done
<1>11. /\ \A d \in V : \A x \in NamesIn(image, d) : Done(x, w.list, R2)
       /\ \A k \in 1..n : \A p \in 1..Len(Names(w.frames[k].dir)) :
            p <= w.frames[k].i => Done(Names(w.frames[k].dir)[p], w.list, R2)
  <2> HIDE DEF R2
  <2> QED BY <1>2, <1>9, <1>10, CoversOn DEF n
<1>12. ASSUME NEW k \in 1..n + 1, NEW p \in 1..Len(Names(v.frames[k].dir)), p <= Past(v, k)
       PROVE  Done(Names(v.frames[k].dir)[p], w.list, R2)
  <2> HIDE DEF R2
  <2>1. CASE k = n + 1
    <3>1. Past(v, k) = 0
      BY <2>1, <1>3 DEF Past
    <3> QED BY <3>1, <1>12
  <2>2. CASE k # n + 1
    <3>1. k \in 1..n /\ k # n + 1
      BY <2>2, <1>1
    <3>2. v.frames[k].dir = w.frames[k].dir /\ Past(v, k) = w.frames[k].i
      BY <3>1, <1>3, <1>4 DEF Past
    <3> QED BY <3>1, <3>2, <1>11, <1>12
  <2> QED BY <2>1, <2>2
<1>13. Covers(v, V)
  BY <1>3, <1>11, <1>12 DEF Covers
<1> QED BY <1>1, <1>3, <1>8, <1>13 DEF Account

\* It has the orphan directory opened, where nothing is collected.
LEMMA AccountOpens ==
  ASSUME NEW w \in Walks, Account(w), NEW v \in Walks, NEW e, Meets(w, e),
         Opens(w, v), ~IsLoop(w, e), e.addr = OrphanDir
  PROVE  Account(v)
<1> DEFINE n == Len(w.frames)
<1>0. /\ w.pc = "entry" /\ Len(w.frames) > 0 /\ e.addr \in 0..MaxKey
      /\ HasMeta(image, e) /\ e.addr \in Deleted(image) => e.addr \in Elements(w.list)
  BY Zenon DEF Meets
<1>1. n \in Nat \ {0} /\ "RECURSE" \in w.flags /\ OnWay(w)
  <2>1. n > 0 /\ n \in Nat
    BY <1>0, WalkFields
  <2> HIDE DEF n
  <2> QED BY <2>1 DEF Account
<1>2. PICK V \in SUBSET (0..MaxKey) : Covers(w, V)
  BY DEF Account
<1>3. /\ v.pc = "opening" /\ v.flags = w.flags /\ v.list = w.list /\ Len(v.frames) = n
      /\ SameFrames(w, v, n - 1) /\ v.frames[n].dir = w.frames[n].dir /\ v.frames[n].i = w.frames[n].i
      /\ v.seen = Append(w.seen, e.addr)
  BY DEF Opens, SameCall
<1>4. /\ Len(w.seen) = n - 1 /\ w.seen \in Seq(0..MaxKey)
      /\ Pending(w) = 0 /\ Pending(v) = 1
  <2>1. Len(w.seen) = n - 1 + Pending(w) /\ w.seen \in Seq(0..MaxKey)
    BY <1>0, <1>1, WayFacts
  <2>2. Pending(w) = 0 /\ Pending(v) = 1
    BY <1>0, <1>3 DEF Pending
  <2> HIDE DEF n
  <2> QED BY <2>1, <2>2, <1>1
<1>5. \A k \in 1..n - 1 : w.seen[k] # e.addr
  BY <1>4, LenProperties DEF IsLoop, ToSet
<1> HIDE DEF n
<1>6. /\ Len(v.seen) = n /\ v.seen[n] = e.addr
      /\ \A k \in 1..n - 1 : v.seen[k] = w.seen[k]
  <2>1. w.seen \in Seq(0..MaxKey) /\ e.addr \in 0..MaxKey
    BY <1>0, <1>4
  <2>2. /\ Len(v.seen) = Len(w.seen) + 1 /\ v.seen[Len(w.seen) + 1] = e.addr
        /\ \A k \in 1..Len(w.seen) : v.seen[k] = w.seen[k]
    BY <2>1, <1>3, AppendProperties
  <2> QED BY <2>2, <1>1, <1>4
<1>7. \A k \in 1..n : v.frames[k].dir = w.frames[k].dir /\ v.frames[k].i = w.frames[k].i
  <2> TAKE k \in 1..n
  <2>1. k \in 1..n - 1 \/ k = n
    BY <1>1
  <2> QED BY <2>1, <1>3 DEF SameFrames
<1>8. OnWay(v)
  <2>1. v.frames[1].dir = Root
    <3>1. 1 \in 1..n
      BY <1>1
    <3> QED BY <3>1, <1>1, <1>7 DEF OnWay
  <2>2. \A i, j \in 1..n : v.seen[i] = v.seen[j] => i = j
    <3>1. \A i \in 1..n : i \in 1..n - 1 \/ i = n
      BY <1>1
    <3>2. \A i, j \in 1..n - 1 : w.seen[i] = w.seen[j] => i = j
      BY <1>1, <1>4 DEF OnWay
    <3> QED BY <3>1, <3>2, <1>5, <1>6
  <2>3. ASSUME NEW k \in 1..n - 1
        PROVE  v.frames[k + 1].dir = v.seen[k] /\ v.seen[k] \in Steps(image, v.frames[k].dir, Search)
    <3>1. k \in 1..n /\ k + 1 \in 1..n
      BY <1>1
    <3>2. w.frames[k + 1].dir = w.seen[k] /\ w.seen[k] \in Steps(image, w.frames[k].dir, Search)
      BY <1>1 DEF OnWay, n
    <3> QED BY <3>1, <3>2, <1>6, <1>7
  <2>4. Len(v.seen) = n - 1 + 1
    BY <1>1, <1>6
  <2> QED BY <2>1, <2>2, <2>3, <2>4, <1>3, <1>4, <1>6 DEF OnWay
<1> DEFINE R == V \union Way(w)
<1>9. Way(v) = Way(w)
  BY <1>3, <1>7 DEF Way, n
<1>10. Done(e, w.list, R)
  <2> HIDE DEF R
  <2> QED BY <1>0, SearchGoesInto DEF Done
<1>11. /\ \A d \in V : \A x \in NamesIn(image, d) : Done(x, w.list, R)
       /\ \A k \in 1..n : \A p \in 1..Len(Names(w.frames[k].dir)) :
            p <= w.frames[k].i => Done(Names(w.frames[k].dir)[p], w.list, R)
  <2>1. V \union Way(w) \subseteq R
    OBVIOUS
  <2> HIDE DEF R
  <2> QED BY <2>1, <1>2, <1>10, CoversOn DEF n
<1>12. \A k \in 1..n : Past(v, k) = w.frames[k].i
  BY <1>3, <1>7 DEF Past
<1>13. Covers(v, V)
  BY <1>3, <1>7, <1>9, <1>11, <1>12 DEF Covers
<1> QED BY <1>1, <1>3, <1>8, <1>13 DEF Account

\* Without an orphan directory it goes on where it was.
LEMMA AccountResumes ==
  ASSUME NEW w \in Walks, Account(w), w.pc = "opening", Len(w.frames) > 0, w.seen # << >>,
         NEW v \in Walks, Resumes(w, v)
  PROVE  Account(v)
<1> DEFINE n == Len(w.frames)
<1>1. n \in Nat \ {0} /\ "RECURSE" \in w.flags /\ OnWay(w)
  <2>1. n > 0 /\ n \in Nat
    BY WalkFields
  <2> HIDE DEF n
  <2> QED BY <2>1 DEF Account
<1>2. PICK V \in SUBSET (0..MaxKey) : Covers(w, V)
  BY DEF Account
<1>3. /\ v.pc = "entry" /\ v.flags = w.flags /\ v.list = w.list /\ Len(v.frames) = n
      /\ SameFrames(w, v, n - 1) /\ v.frames[n].dir = w.frames[n].dir /\ v.frames[n].i = w.frames[n].i + 1
      /\ v.seen = Front(w.seen)
  BY DEF Resumes, SameCall
<1>4. Len(w.seen) = n /\ w.seen \in Seq(0..MaxKey) /\ Pending(w) = 1 /\ Pending(v) = 0
  <2>1. Len(w.seen) = n - 1 + Pending(w) /\ w.seen \in Seq(0..MaxKey)
    BY <1>1, WayFacts
  <2>2. Pending(w) = 1 /\ Pending(v) = 0
    BY <1>3 DEF Pending
  <2> HIDE DEF n
  <2> QED BY <2>1, <2>2, <1>1
<1> HIDE DEF n
<1>5. Len(v.seen) = n - 1 /\ \A k \in 1..n - 1 : v.seen[k] = w.seen[k]
  <2>1. w.seen \in Seq(0..MaxKey) /\ w.seen # << >>
    BY <1>4
  <2>2. Len(Front(w.seen)) = Len(w.seen) - 1 /\ \A k \in 1..Len(w.seen) - 1 : Front(w.seen)[k] = w.seen[k]
    BY <2>1, FrontLast
  <2> QED BY <2>2, <1>3, <1>4
<1>6. \A k \in 1..n : v.frames[k].dir = w.frames[k].dir
  <2> TAKE k \in 1..n
  <2>1. k \in 1..n - 1 \/ k = n
    BY <1>1
  <2> QED BY <2>1, <1>3 DEF SameFrames
<1>7. OnWay(v)
  <2>1. 1 \in 1..n /\ \A k \in 1..n - 1 : k \in 1..n /\ k + 1 \in 1..n
    BY <1>1
  <2>2. Len(v.seen) = n - 1 + Pending(v)
    BY <1>1, <1>4, <1>5
  <2> QED BY <2>1, <2>2, <1>1, <1>3, <1>4, <1>5, <1>6 DEF OnWay, n
<1>8. Way(v) = Way(w)
  BY <1>3, <1>6 DEF Way, n
<1>9. \A k \in 1..n : Past(v, k) = Past(w, k)
  <2> TAKE k \in 1..n
  <2>1. w.frames[k].i \in Nat
    BY WalkFields DEF n
  <2>2. CASE k = n
    <3>1. v.pc = "entry" /\ k = Len(v.frames) /\ v.frames[k].i = w.frames[k].i + 1
      BY <2>2, <1>3
    <3>2. Past(v, k) = v.frames[k].i - 1
      BY <3>1 DEF Past
    <3>3. Past(w, k) = w.frames[k].i
      BY DEF Past
    <3> QED BY <3>1, <3>2, <3>3, <2>1
  <2>3. CASE k # n
    <3>1. k \in 1..n - 1
      BY <2>3, <1>1
    <3> QED BY <2>3, <3>1, <1>3 DEF Past, SameFrames, n
  <2> QED BY <2>2, <2>3
<1>10. Covers(v, V)
  BY <1>2, <1>3, <1>6, <1>8, <1>9 DEF Covers, n
<1> QED BY <1>1, <1>3, <1>7, <1>10 DEF Account

\* A directory that it has been through is done.
LEMMA PastTheEnd ==
  ASSUME disk \in DOMAIN Images, NEW w \in Walks, w.pc = "entry", Len(w.frames) > 0, NEW V, Covers(w, V),
         \A k \in 1..Len(w.frames) : w.frames[k].dir \in Loadable(image),
         ~(w.frames[Len(w.frames)].i <= Len(Names(w.frames[Len(w.frames)].dir)))
  PROVE  \A d \in V \union {w.frames[Len(w.frames)].dir} : \A e \in NamesIn(image, d) :
           Done(e, w.list, V \union Way(w))
<1> DEFINE n == Len(w.frames)
           R == V \union Way(w)
           c == w.frames[n].dir
<1>1. n \in 1..n /\ w.frames[n].i \in Nat /\ c \in Loadable(image)
  BY WalkFields
<1>2. ASSUME NEW e \in NamesIn(image, c) PROVE Done(e, w.list, R)
  <2>1. PICK p \in 1..Len(Names(c)) : Names(c)[p] = e
    BY <1>1, NamesAreIn
  <2>2. Len(Names(c)) \in Nat
    BY <1>1, NamesAreIn
  <2>3. \A q \in 1..Len(Names(c)) : q <= Past(w, n) => Done(Names(c)[q], w.list, R)
    BY <1>1 DEF Covers
  <2>4. Past(w, n) = w.frames[n].i - 1
    BY DEF Past
  <2> HIDE DEF R
  <2>5. p <= Past(w, n)
    BY <2>1, <2>2, <2>4, <1>1
  <2> QED BY <2>1, <2>3, <2>5
<1>3. \A d \in V : \A e \in NamesIn(image, d) : Done(e, w.list, R)
  BY DEF Covers
<1> QED BY <1>2, <1>3

\* It goes on in the directory above, or it is through.
LEMMA AccountLeaves ==
  ASSUME disk \in DOMAIN Images, NEW w \in Walks, w.pc = "entry", Len(w.frames) > 0, Account(w),
         \A k \in 1..Len(w.frames) : w.frames[k].dir \in Loadable(image),
         ~(w.frames[Len(w.frames)].i <= Len(Names(w.frames[Len(w.frames)].dir))),
         Len(w.frames) = 1 \/ w.seen # << >>,
         NEW v \in Walks, NEW ret, Leaves(w, v, ret, Front(w.seen))
  PROVE  /\ Len(w.frames) > 1 => Account(v)
         /\ Len(w.frames) = 1 => NamedBy(image) \subseteq Elements(v.list)
<1> DEFINE n == Len(w.frames)
           m == n - 1
           c == w.frames[n].dir
<1>1. n \in Nat \ {0} /\ "RECURSE" \in w.flags /\ OnWay(w)
  <2>1. n > 0 /\ n \in Nat
    BY WalkFields
  <2> HIDE DEF n
  <2> QED BY <2>1 DEF Account
<1>2. PICK V \in SUBSET (0..MaxKey) : Covers(w, V)
  BY DEF Account
<1> DEFINE V2 == V \union {c}
           R == V \union Way(w)
<1>3. \A d \in V2 : \A e \in NamesIn(image, d) : Done(e, w.list, R)
  BY <1>2, PastTheEnd
<1>4. v.list = w.list /\ v.flags = w.flags /\ Len(v.frames) = m /\ SameFrames(w, v, m - 1)
  BY DEF Leaves, SameCall
<1>5. c \in 0..MaxKey /\ n \in 1..n /\ \A k \in 1..n : w.frames[k].dir \in 0..MaxKey
  BY <1>1, WalkFields
<1>6. CASE n = 1
  <2>1. c = Root
    BY <1>1, <1>6 DEF OnWay
  <2>2. R = V2
    BY <1>6 DEF Way
  <2> HIDE DEF R, V2
  <2>3. Root \in V2
    BY <2>1 DEF V2
  <2>4. NamedBy(image) \subseteq Elements(w.list)
    BY <2>2, <2>3, <1>3, CoveredAll
  <2> QED BY <2>4, <1>4, <1>6
<1>7. CASE n > 1
  <2>1. /\ v.pc = "entry" /\ v.seen = Front(w.seen)
        /\ v.frames[m].dir = w.frames[m].dir /\ v.frames[m].i = w.frames[m].i + 1
    BY <1>1, <1>7 DEF Leaves
  <2>2. m \in Nat \ {0} /\ n = m + 1
    BY <1>1, <1>7
  <2>3. Len(w.seen) = m /\ w.seen \in Seq(0..MaxKey) /\ Pending(w) = 0 /\ Pending(v) = 0
    <3>1. Len(w.seen) = n - 1 + Pending(w) /\ w.seen \in Seq(0..MaxKey)
      BY <1>1, WayFacts
    <3>2. Pending(w) = 0 /\ Pending(v) = 0
      BY <2>1 DEF Pending
    <3> QED BY <3>1, <3>2, <2>2
  <2>4. Len(v.seen) = m - 1 /\ \A k \in 1..m - 1 : v.seen[k] = w.seen[k]
    <3>1. w.seen \in Seq(0..MaxKey) /\ w.seen # << >>
      BY <2>3, <1>7
    <3>2. Len(Front(w.seen)) = Len(w.seen) - 1 /\ \A k \in 1..Len(w.seen) - 1 : Front(w.seen)[k] = w.seen[k]
      BY <3>1, FrontLast
    <3> QED BY <3>2, <2>1, <2>3
  <2> HIDE DEF m, n
  <2>5. \A k \in 1..m : v.frames[k].dir = w.frames[k].dir
    <3> TAKE k \in 1..m
    <3>1. k \in 1..m - 1 \/ k = m
      BY <2>2
    <3> QED BY <3>1, <2>1, <1>4 DEF SameFrames
  <2>6. OnWay(v)
    <3>1. 1 \in 1..m /\ \A k \in 1..m - 1 : k \in 1..m /\ k + 1 \in 1..m /\ k \in 1..n - 1
      BY <2>2
    <3>2. Len(v.seen) = m - 1 + Pending(v)
      BY <2>2, <2>3, <2>4
    <3>3. \A i \in 1..m - 1 : i \in 1..m
      BY <2>2
    <3>4. v.frames[1].dir = Root
      BY <3>1, <2>5, <1>1 DEF OnWay
    <3>5. \A i, j \in 1..m - 1 : v.seen[i] = v.seen[j] => i = j
      BY <3>3, <2>3, <2>4, <1>1 DEF OnWay
    <3>6. \A k \in 1..m - 1 :
            v.frames[k + 1].dir = v.seen[k] /\ v.seen[k] \in Steps(image, v.frames[k].dir, Search)
      BY <3>1, <2>4, <2>5, <1>1 DEF OnWay, n
    <3> QED BY <3>2, <3>4, <3>5, <3>6, <2>4, <1>4 DEF OnWay
  <2>7. \A k \in 1..n : k \in 1..m \/ k = n
    BY <2>2
  <2>8. \A k \in 1..m : k \in 1..n /\ k # n
    BY <2>2
  <2>9. R = V2 \union Way(v)
    BY <2>5, <2>7, <2>8, <1>4, <1>5 DEF Way, n
  <2>10. \A k \in 1..m : Past(v, k) = Past(w, k)
    <3> TAKE k \in 1..m
    <3>1. w.frames[k].i \in Nat
      BY <2>8, WalkFields DEF n
    <3>2. Past(w, k) = w.frames[k].i
      BY <2>8 DEF Past, n
    <3>3. CASE k = m
      <4>1. v.pc = "entry" /\ k = Len(v.frames) /\ v.frames[k].i = w.frames[k].i + 1
        BY <3>3, <2>1, <1>4
      <4>2. Past(v, k) = v.frames[k].i - 1
        BY <4>1 DEF Past
      <4> QED BY <4>1, <4>2, <3>1, <3>2
    <3>4. CASE k # m
      <4>1. k \in 1..m - 1
        BY <3>4, <2>2
      <4> QED BY <4>1, <3>2, <3>4, <1>4 DEF Past, SameFrames
    <3> QED BY <3>3, <3>4
  <2>11. \A k \in 1..n : \A p \in 1..Len(Names(w.frames[k].dir)) :
           p <= Past(w, k) => Done(Names(w.frames[k].dir)[p], w.list, R)
    BY <1>2 DEF Covers, n
  <2>12. Covers(v, V2)
    <3> HIDE DEF R, V2
    <3> QED BY <2>5, <2>8, <2>9, <2>10, <2>11, <1>3, <1>4 DEF Covers
  <2>13. V2 \in SUBSET (0..MaxKey)
    BY <1>5
  <2>14. Account(v)
    <3> HIDE DEF V2
    <3> QED BY <2>6, <2>12, <2>13, <1>1, <1>4 DEF Account
  <2> QED BY <2>14, <1>7 DEF n
<1> QED BY <1>6, <1>7

\* The orphan directory is met in the root directory only.
LEMMA OrphansAtRoot ==
  ASSUME NEW w \in Walks, Account(w), Sound(w), w.save, CanWalk,
         NEW e, Meets(w, e), e.addr = OrphanDir
  PROVE  Len(w.frames) = 1 /\ w.frames[Len(w.frames)].dir = Root
<1> DEFINE n == Len(w.frames)
           c == w.frames[n].dir
<1>0. w.pc = "entry" /\ Len(w.frames) > 0 /\ e \in NamesIn(image, c)
  BY Zenon DEF Meets
<1>1. n \in Nat \ {0} /\ OnWay(w)
  <2>1. n > 0 /\ n \in Nat
    BY <1>0, WalkFields
  <2> HIDE DEF n
  <2> QED BY <2>1 DEF Account
<1>3. \A k \in 1..n : w.frames[k].dir \in Reached(image, Root, Search)
  BY DEF Sound, SavesAbove
<1>4. n \in 1..n
  BY <1>1
<1>5. c = Root
  BY <1>0, <1>3, <1>4 DEF CanWalk, RootIsOnTop
<1> HIDE DEF n
<1>6. n = 1
  <2> SUFFICES ASSUME n # 1 PROVE FALSE
    OBVIOUS
  <2>1. n - 1 \in 1..n - 1 /\ n - 1 \in 1..n /\ (n - 1) + 1 = n
    BY <1>1
  <2>2. w.frames[n].dir \in Steps(image, w.frames[n - 1].dir, Search)
    BY <2>1, <1>1 DEF OnWay, n
  <2> QED BY <2>1, <2>2, <1>3, <1>5 DEF CanWalk, RootIsOnTop
<1> QED BY <1>5, <1>6 DEF n

\* The list is saved before the orphan directory is opened only when it is the
\* last name of the root directory.
LEMMA AllBeforeOrphans ==
  ASSUME disk \in DOMAIN Images, NEW w \in Walks, Account(w), Sound(w), w.save, CanWalk,
         NEW e, Meets(w, e), e.addr = OrphanDir,
         \A k \in 1..Len(w.frames) : w.frames[k].dir \in Loadable(image),
         w.frames[Len(w.frames)].i = Len(Names(w.frames[Len(w.frames)].dir))
  PROVE  NamedBy(image) \subseteq Elements(w.list)
<1> DEFINE n == Len(w.frames)
           c == w.frames[n].dir
<1>0. /\ w.pc = "entry" /\ Len(w.frames) > 0 /\ e \in NamesIn(image, c) /\ e = Names(c)[w.frames[n].i]
      /\ HasMeta(image, e) /\ e.addr \in Deleted(image) => e.addr \in Elements(w.list)
  BY Zenon DEF Meets
<1>1. n = 1 /\ c = Root
  BY OrphansAtRoot
<1>2. PICK V \in SUBSET (0..MaxKey) : Covers(w, V)
  BY DEF Account
<1>4. n \in 1..n
  BY <1>1
<1>5. c = Root
  BY <1>1
<1>6. n = 1
  BY <1>1
<1> HIDE DEF n
<1> DEFINE R == V \union Way(w)
<1>7. R = V \union {c}
  BY <1>6 DEF Way, n
<1>8. Done(e, w.list, R)
  <2> HIDE DEF R
  <2> QED BY <1>0, SearchGoesInto DEF Done
<1>9. /\ \A d \in V : \A x \in NamesIn(image, d) : Done(x, w.list, R)
      /\ \A k \in 1..n : \A p \in 1..Len(Names(w.frames[k].dir)) :
           p <= w.frames[k].i => Done(Names(w.frames[k].dir)[p], w.list, R)
  <2>1. V \union Way(w) \subseteq R
    OBVIOUS
  <2> HIDE DEF R
  <2> QED BY <2>1, <1>2, <1>8, CoversOn DEF n
<1>10. \A x \in NamesIn(image, c) : Done(x, w.list, R)
  <2> TAKE x \in NamesIn(image, c)
  <2>1. c \in Loadable(image)
    BY <1>4 DEF n
  <2>2. PICK p \in 1..Len(Names(c)) : Names(c)[p] = x
    BY <2>1, NamesAreIn
  <2>3. p <= w.frames[n].i
    BY <2>2 DEF n
  <2> HIDE DEF R
  <2> QED BY <2>2, <2>3, <1>4, <1>9
<1> HIDE DEF R
<1>11. Root \in R /\ \A d \in R : \A x \in NamesIn(image, d) : Done(x, w.list, R)
  BY <1>5, <1>7, <1>9, <1>10
<1> QED BY <1>11, CoveredAll

\* A walk that comes to the depth limit shows that some way is too long.
LEMMA TooFarIsTooDeep ==
  ASSUME NEW w \in Walks, Account(w), NEW e, Meets(w, e), ~IsLoop(w, e), e.addr # OrphanDir,
         GoesInto(image, e, w.flags), TooFarDown(w)
  PROVE  TooDeep(image, Root, Search)
<1> DEFINE n == Len(w.frames)
           D == MaxDepth
           f == [k \in 1..D + 1 |-> IF k <= n - 1 THEN w.seen[k] ELSE e.addr]
<1>0. w.pc = "entry" /\ Len(w.frames) > 0 /\ e \in NamesIn(image, w.frames[n].dir)
  BY Zenon DEF Meets
<1>1. n \in Nat \ {0} /\ OnWay(w)
  <2>1. n > 0 /\ n \in Nat
    BY <1>0, WalkFields
  <2> HIDE DEF n
  <2> QED BY <2>1 DEF Account
<1>2. D \in Nat \ {0} /\ n - 1 >= D
  BY DirTreeAssumption DEF TooFarDown
<1>3. e.addr \in Steps(image, w.frames[n].dir, Search)
  BY <1>0, StepIsIn
<1>4. Len(w.seen) = n - 1 /\ w.seen \in Seq(0..MaxKey)
  <2>1. Len(w.seen) = n - 1 + Pending(w) /\ w.seen \in Seq(0..MaxKey)
    BY <1>0, <1>1, WayFacts
  <2>2. Pending(w) = 0
    BY <1>0 DEF Pending
  <2> HIDE DEF n
  <2> QED BY <2>1, <2>2, <1>1
<1>5. \A k \in 1..n - 1 : w.seen[k] # e.addr
  BY <1>4, LenProperties DEF IsLoop, ToSet
<1>6. /\ w.frames[1].dir = Root
      /\ \A i, j \in 1..n - 1 : w.seen[i] = w.seen[j] => i = j
      /\ \A k \in 1..n - 1 :
           w.frames[k + 1].dir = w.seen[k] /\ w.seen[k] \in Steps(image, w.frames[k].dir, Search)
  BY <1>1, <1>4 DEF OnWay
<1> HIDE DEF n, D
<1>7. \A k \in 1..D + 1 : k \in 1..n - 1 \/ (k = n /\ ~(k <= n - 1))
  BY <1>1, <1>2
<1>8. \A k \in 1..D + 1 : /\ k \in 1..n - 1 => f[k] = w.seen[k]
                          /\ k = n => f[k] = e.addr
  BY <1>1, <1>2
<1>9. ASSUME NEW k \in 1..D + 1
      PROVE  f[k] \in Steps(image, IF k = 1 THEN Root ELSE f[k - 1], Search)
  <2>1. f[k] \in Steps(image, w.frames[k].dir, Search)
    BY <1>3, <1>6, <1>7, <1>8
  <2>2. CASE k = 1
    BY <2>1, <2>2, <1>6
  <2>3. CASE k # 1
    <3>1. k - 1 \in 1..D + 1 /\ k - 1 \in 1..n - 1 /\ (k - 1) + 1 = k
      BY <2>3, <1>2, <1>7
    <3>2. f[k - 1] = w.frames[k].dir
      BY <3>1, <1>6, <1>8
    <3> QED BY <3>2, <2>1, <2>3
  <2> QED BY <2>2, <2>3
<1>10. \A i, j \in 1..D + 1 : f[i] = f[j] => i = j
  <2> HIDE DEF f
  <2> QED BY <1>5, <1>6, <1>7, <1>8
<1>11. f \in [1..D + 1 -> Places(image, Root, Search)]
  <2>1. \A k \in 1..D + 1 : f[k] \in Places(image, Root, Search)
    BY <1>9, StepsArePlaces
  <2>2. f = [k \in 1..D + 1 |-> f[k]]
    OBVIOUS
  <2> HIDE DEF f
  <2> QED BY <2>1, <2>2
<1>12. DOMAIN f = 1..D + 1
  OBVIOUS
<1> HIDE DEF f
<1>13. IsWay(image, Root, Search, f)
  BY <1>9, <1>10, <1>12 DEF IsWay
<1> QED BY <1>11, <1>13 DEF TooDeep, D

-----------------------------------------------------------------------------
(* What a step leaves as it is *)

LEMMA SameAccount ==
  ASSUME disk' = disk, orphan_dir' = orphan_dir
  PROVE  \A w : Account(w)' = Account(w)
<1>1. image' = image
  BY DEF image
<1>2. \A d : Names(d)' = Names(d)
  BY DEF Names
<1>3. \A e, l, R : Done(e, l, R)' = Done(e, l, R)
  BY <1>1 DEF Done
<1>4. \A w : OnWay(w)' = OnWay(w)
  BY <1>1 DEF OnWay
<1>5. \A w, V : Covers(w, V)' = Covers(w, V)
  BY <1>1, <1>2, <1>3 DEF Covers
<1> QED BY <1>4, <1>5 DEF Account

LEMMA ThreadStays ==
  ASSUME SoundInv, NEW t \in Threads, NEW s, NEW b, ThreadSound(t, s, b), disk' = disk, Learns,
         t \in refused => t \in refused',
         orphan_dir' = orphan_dir \/ (CanWalk => Settled)
  PROVE  ThreadSound(t, s, b)'
<1>1. image' = image
  BY DEF image
<1>2. CanWalk' = CanWalk
  BY <1>1 DEF CanWalk
<1>3. Settled => Settled'
  BY <1>1 DEF Learns, Settled
<1>4. ~Settled' => list_inum_named' = list_inum_named
  BY DEF Learns, Settled
<1>5. \A a : Inside(a)' = Inside(a)
  BY <1>1 DEF Inside, InsideOf
<1>6. \A j, o : HasDir(j, o)' = HasDir(j, o)
  BY <1>1 DEF HasDir
<1>7. ASSUME NEW i \in 1..Len(s), s[i].kind = "walk" PROVE WalkSound(t, s[i])'
  <2> DEFINE w == s[i]
  <2>1. WalkSound(t, w)
    BY <1>7 DEF ThreadSound
  <2> HIDE DEF w
  <2>2. Sound(w)'
    BY <2>1, <1>1 DEF WalkSound, Sound
  <2>3. ASSUME CanWalk', ~Settled', Trusted(t, w)' PROVE Accounts(t, w)'
    <3>1. CanWalk /\ ~Settled /\ Trusted(t, w)
      BY <2>3, <1>2, <1>3 DEF Trusted
    <3>2. Accounts(t, w) /\ orphan_dir' = orphan_dir
      BY <3>1, <2>1 DEF WalkSound
    <3>3. Account(w)' = Account(w)
      BY <3>2, SameAccount
    <3> QED BY <3>2, <3>3, <1>1 DEF Accounts
  <2> QED BY <2>2, <2>3 DEF WalkSound, w
<1>8. ASSUME NEW i \in 1..Len(s), s[i].kind = "search" PROVE SearchSound(s, b, i)'
  <2> DEFINE j == s[i]
  <2>1. SearchSound(s, b, i) /\ Knows(j)
    BY <1>8 DEF ThreadSound, SearchSound
  <2> HIDE DEF j
  <2>2. Knows(j)'
    <3>1. \A a \in Deleted(image) : a <= j.next =>
            \/ a \in Elements(list_inum_named')
            \/ \E k \in 1..Len(j.names) : j.names[k] = a
            \/ a \in Elements(j.subdirs)
      BY <2>1, EmptyList DEF Knows, Learns
    <3>2. \A a \in Elements(j.subdirs) : \E o \in Deleted(image) : HasDir(j, o)' /\ a \in Inside(o)'
      BY <2>1, <1>5, <1>6 DEF Knows
    <3>3. CanWalk => \A k \in 1..Len(j.names) : j.names[k] \notin Elements(list_inum_named')
      <4> SUFFICES ASSUME CanWalk, NEW k \in 1..Len(j.names) PROVE j.names[k] \notin Elements(list_inum_named')
        OBVIOUS
      <4>1. CASE list_inum_named' = list_inum_named
        BY <4>1, <2>1 DEF Knows
      <4>2. CASE Settled /\ list_inum_named = Empty /\ Elements(list_inum_named') \subseteq NamedBy(image)
        BY <4>2 DEF Settled
      <4>3. CASE ~Settled
        <5>1. j.names = << >>
          BY <4>3, <2>1 DEF Knows
        <5> QED BY <5>1
      <4> QED BY <4>1, <4>2, <4>3 DEF Learns
    <3>4. CanWalk' /\ ~Settled' => j.names = << >> /\ j.pc # "metas"
      BY <2>1, <1>2, <1>3 DEF Knows
    <3>5. /\ \A k, m \in 1..Len(j.names) : j.names[k] = j.names[m] => k = m
          /\ \A k \in 1..Len(j.names) : j.names[k] <= j.next
      BY <2>1 DEF Knows
    <3> QED BY <3>1, <3>2, <3>3, <3>4, <3>5, <1>1, <1>2 DEF Knows
  <2>3. CanWalk' /\ ~Settled' /\ s[i].pc = "walking" =>
          \/ i < Len(s) /\ s[i + 1].action = "named"
          \/ i = Len(s) /\ b = "ERROR"
    BY <2>1, <1>2, <1>3 DEF SearchSound
  <2>4. i < Len(s) /\ s[i + 1].action = "orphan" =>
          LET w == s[i + 1] IN
          /\ HasDir(s[i], s[i].next)'
          /\ w.pc = "check" => w.addr = s[i].next
          /\ \A k \in 1..Len(w.frames) : w.frames[k].dir \in Reached(image, s[i].next, Search)'
    BY <2>1, <1>1, <1>6 DEF SearchSound
  <2> QED BY <2>2, <2>3, <2>4 DEF SearchSound, j
<1> QED BY <1>7, <1>8 DEF ThreadSound

\* A step of thread t, by what it does to its stack and to what is shared.
LEMMA SoundStep ==
  ASSUME TypeInv, SoundInv, NEW t \in Threads, disk' = disk, Learns,
         NEW r, NEW b, stack' = [stack EXCEPT ![t] = r], back' = [back EXCEPT ![t] = b],
         orphan_dir' = orphan_dir \/ (CanWalk => Settled),
         \A u \in Threads \ {t} : u \in refused => u \in refused',
         ThreadSound(t, r, b)'
  PROVE  SoundInv'
<1>1. image' = image
  BY DEF image
<1>2. Elements(list_inum_named)' \subseteq NamedBy(image)'
  BY <1>1 DEF SoundInv, Learns
<1>3. (CanWalk /\ orphan_dir # NULL => Settled)'
  BY <1>1 DEF SoundInv, Learns, CanWalk, Settled
<1>4. ASSUME NEW u \in Threads PROVE ThreadSound(u, stack[u], back[u])'
  <2>1. stack \in [Threads -> Seq(Jobs)] /\ back \in [Threads -> Returned]
    BY ThreadFacts
  <2>2. CASE u = t
    <3>1. stack'[u] = r /\ back'[u] = b
      BY <2>1, <2>2
    <3> QED BY <2>2, <3>1 DEF ThreadSound, SearchSound, WalkSound
  <2>3. CASE u # t
    <3>1. PICK s, c : s = stack[u] /\ c = back[u]
      OBVIOUS
    <3>2. ThreadSound(u, s, c)
      BY <3>1 DEF SoundInv
    <3>3. ThreadSound(u, s, c)'
      BY <2>3, <3>2, ThreadStays
    <3>4. stack'[u] = s /\ back'[u] = c
      BY <2>1, <2>3, <3>1
    <3> QED BY <3>3, <3>4 DEF ThreadSound, SearchSound, WalkSound
  <2> QED BY <2>2, <2>3
<1> QED BY <1>2, <1>3, <1>4 DEF SoundInv

\* The walk on top goes on as v.
LEMMA TopChanges ==
  ASSUME NEW t, NEW s, StackOK(s), s # << >>, NEW b, ThreadSound(t, s, b), NEW r, NEW v \in Walks,
         Replaced(s, r, v), v.action = Last(s).action, Last(s).kind = "walk",
         WalkSound(t, v), Roams(s, v)
  PROVE  ThreadSound(t, r, b)
<1> DEFINE n == Len(s)
<1>1. /\ n \in Nat \ {0} /\ Len(r) = n /\ r[n] = v /\ Last(s) = s[n] /\ v.kind = "walk"
      /\ \A i \in 1..n - 1 : r[i] = s[i]
  BY StackFacts, WalkFields DEF Replaced
<1> HIDE DEF n
<1>2. ASSUME NEW i \in 1..n, i # n
      PROVE  /\ r[i].kind = "walk" => WalkSound(t, r[i])
             /\ r[i].kind = "search" => SearchSound(r, b, i)
  <2>1. i \in 1..n - 1 /\ r[i] = s[i] /\ i < n /\ i + 1 \in 1..n
    BY <1>1, <1>2
  <2>2. r[i].kind = "walk" => WalkSound(t, r[i])
    BY <2>1 DEF ThreadSound, n
  <2>3. ASSUME r[i].kind = "search" PROVE SearchSound(r, b, i)
    <3>1. SearchSound(s, b, i)
      BY <2>1, <2>3 DEF ThreadSound, n
    <3>2. r[i + 1].action = s[i + 1].action
      <4>1. i + 1 \in 1..n - 1 \/ i + 1 = n
        BY <2>1, <1>1
      <4> QED BY <4>1, <1>1
    <3>3. ASSUME r[i + 1].action = "orphan"
          PROVE  LET w == r[i + 1] IN
                 /\ HasDir(r[i], r[i].next)
                 /\ w.pc = "check" => w.addr = r[i].next
                 /\ \A k \in 1..Len(w.frames) : w.frames[k].dir \in Reached(image, r[i].next, Search)
      <4>1. /\ HasDir(s[i], s[i].next)
            /\ s[i + 1].pc = "check" => s[i + 1].addr = s[i].next
            /\ \A k \in 1..Len(s[i + 1].frames) : s[i + 1].frames[k].dir \in Reached(image, s[i].next, Search)
        BY <2>1, <3>1, <3>2, <3>3 DEF SearchSound, n
      <4>2. CASE i + 1 = n
        <5>1. n - 1 = i
          BY <4>2, <2>1, <1>1
        <5>2. r[i + 1] = v /\ s[Len(s) - 1].next = r[i].next
          BY <4>2, <5>1, <2>1, <1>1 DEF n
        <5> QED BY <4>1, <5>2, <3>3, <2>1 DEF Roams
      <4>3. CASE i + 1 # n
        <5>1. i + 1 \in 1..n - 1
          BY <4>3, <2>1, <1>1
        <5>2. r[i + 1] = s[i + 1]
          BY <5>1, <1>1
        <5> QED BY <4>1, <5>2, <2>1
      <4> QED BY <4>2, <4>3
    <3> QED BY <2>1, <3>1, <3>2, <3>3, <1>1 DEF SearchSound, n
  <2> QED BY <2>2, <2>3
<1>3. /\ r[n].kind = "walk" => WalkSound(t, r[n])
      /\ r[n].kind = "search" => SearchSound(r, b, n)
  BY <1>1
<1> QED BY <1>1, <1>2, <1>3 DEF ThreadSound

\* Which walks are on top.
LEMMA TopRoams ==
  ASSUME NEW t, NEW s, StackOK(s), s # << >>, NEW b, ThreadSound(t, s, b), Last(s).kind = "walk"
  PROVE  /\ WalkSound(t, Last(s)) /\ Roams(s, Last(s))
         /\ Last(s).action # "user" => Len(s) > 1 /\ IsSearch(s[Len(s) - 1])
         /\ Last(s).action = "orphan" =>
              /\ SearchSound(s, b, Len(s) - 1)
              /\ HasDir(s[Len(s) - 1], s[Len(s) - 1].next)
<1> DEFINE n == Len(s)
<1>1. n \in Nat \ {0} /\ n \in 1..n /\ Last(s) = s[n]
  BY StackFacts
<1>2. WalkSound(t, s[n])
  BY <1>1 DEF ThreadSound
<1>3. Last(s).action # "user" => n > 1 /\ IsSearch(s[n - 1])
  BY <1>1 DEF StackOK, IsNested
<1>4. ASSUME Last(s).action = "orphan"
      PROVE  /\ Roams(s, Last(s)) /\ SearchSound(s, b, n - 1)
             /\ HasDir(s[n - 1], s[n - 1].next)
  <2>1. n > 1 /\ s[n - 1].kind = "search"
    BY <1>3, <1>4 DEF IsSearch
  <2> HIDE DEF n
  <2>2. n - 1 \in 1..n /\ (n - 1) + 1 = n /\ n - 1 < n
    BY <2>1, <1>1
  <2>3. SearchSound(s, b, n - 1)
    BY <2>1, <2>2 DEF ThreadSound, n
  <2>4. LET w == s[n] IN
        /\ HasDir(s[n - 1], s[n - 1].next)
        /\ w.pc = "check" => w.addr = s[n - 1].next
        /\ \A k \in 1..Len(w.frames) : w.frames[k].dir \in Reached(image, s[n - 1].next, Search)
    <3> DEFINE m == n - 1
    <3>1. m < Len(s) /\ m + 1 = n /\ SearchSound(s, b, m) /\ s[n].action = "orphan"
      BY <2>2, <2>3, <1>1, <1>4 DEF n
    <3> HIDE DEF m
    <3>2. LET w == s[m + 1] IN
          /\ HasDir(s[m], s[m].next)
          /\ w.pc = "check" => w.addr = s[m].next
          /\ \A k \in 1..Len(w.frames) : w.frames[k].dir \in Reached(image, s[m].next, Search)
      BY <3>1 DEF SearchSound
    <3> QED BY <3>1, <3>2 DEF m
  <2> QED BY <2>3, <2>4, <1>1 DEF Roams, n
<1>5. Last(s).action # "orphan" => Roams(s, Last(s))
  BY DEF Roams
<1> QED BY <1>1, <1>2, <1>3, <1>4, <1>5

\* A walk roams on while it stays in the directories that the orphan leads to.
LEMMA RoamsOn ==
  ASSUME NEW s, NEW w, Roams(s, w), NEW v, v.action = w.action, v.pc # "check",
         w.action = "orphan" => \A k \in 1..Len(v.frames) :
           \/ k \in 1..Len(w.frames) /\ v.frames[k].dir = w.frames[k].dir
           \/ v.frames[k].dir \in Reached(image, s[Len(s) - 1].next, Search)
  PROVE  Roams(s, v)
BY DEF Roams

LEMMA MovesRoam ==
  ASSUME NEW s, NEW w \in Walks, Roams(s, w), NEW v, Len(w.frames) > 0, NEW ret, NEW seen,
         Skips(w, v) \/ Opens(w, v) \/ Leaves(w, v, ret, seen) \/ Resumes(w, v)
  PROVE  Roams(s, v)
<1> DEFINE n == Len(w.frames)
<1>1. n \in Nat \ {0}
  BY WalkFields
<1>2. CASE Skips(w, v) \/ Opens(w, v) \/ Resumes(w, v)
  <2>1. /\ v.action = w.action /\ v.pc # "check" /\ Len(v.frames) = n
        /\ SameFrames(w, v, n - 1) /\ v.frames[n].dir = w.frames[n].dir
    BY <1>2 DEF Skips, Opens, Resumes, SameCall
  <2> HIDE DEF n
  <2>2. \A k \in 1..n : k \in 1..n - 1 \/ k = n
    BY <1>1
  <2>3. \A k \in 1..n : v.frames[k].dir = w.frames[k].dir
    BY <2>1, <2>2 DEF SameFrames
  <2> QED BY <2>1, <2>3, RoamsOn DEF n
<1>3. CASE Leaves(w, v, ret, seen)
  <2> DEFINE m == n - 1
  <2>1. /\ v.action = w.action /\ Len(v.frames) = m /\ SameFrames(w, v, m - 1)
        /\ m = 0 => v.pc = "returned"
        /\ m > 0 => v.pc = "entry" /\ v.frames[m].dir = w.frames[m].dir
    BY <1>3 DEF Leaves, SameCall
  <2>2. m \in Nat /\ n = m + 1
    BY <1>1
  <2> HIDE DEF n, m
  <2>3. v.pc # "check"
    <3>1. m = 0 \/ m > 0
      BY <2>2
    <3> QED BY <3>1, <2>1
  <2>4. \A k \in 1..m : k \in 1..n /\ m > 0 /\ (k \in 1..m - 1 \/ k = m)
    BY <2>2
  <2>5. \A k \in 1..m : v.frames[k].dir = w.frames[k].dir
    BY <2>1, <2>4 DEF SameFrames
  <2> QED BY <2>1, <2>3, <2>4, <2>5, RoamsOn DEF n
<1> QED BY <1>2, <1>3

LEMMA EntersRoams ==
  ASSUME NEW s, NEW w \in Walks, Roams(s, w), NEW v, Len(w.frames) > 0, NEW d \in 0..MaxKey, Enters(w, v, d),
         w.action = "orphan" => d \in Steps(image, w.frames[Len(w.frames)].dir, Search)
  PROVE  Roams(s, v)
<1> DEFINE n == Len(w.frames)
           a == s[Len(s) - 1].next
<1>1. n \in Nat \ {0} /\ n \in 1..n
  BY WalkFields
<1>2. /\ v.action = w.action /\ v.pc = "entry" /\ Len(v.frames) = n + 1 /\ SameFrames(w, v, n)
      /\ v.frames[n + 1].dir = d
  BY FrameGives DEF Enters, SameCall
<1>3. w.action = "orphan" => d \in Reached(image, a, Search)
  <2> SUFFICES ASSUME w.action = "orphan" PROVE d \in Reached(image, a, Search)
    OBVIOUS
  <2>1. w.frames[n].dir \in Reached(image, a, Search)
    BY <1>1 DEF Roams
  <2> HIDE DEF a
  <2> QED BY <2>1, ReachedGives
<1> HIDE DEF n
<1>4. \A k \in 1..n + 1 : k \in 1..n \/ k = n + 1
  BY <1>1
<1>5. \A k \in 1..n : v.frames[k].dir = w.frames[k].dir
  BY <1>2 DEF SameFrames
<1> QED BY <1>2, <1>3, <1>4, <1>5, RoamsOn DEF n

-----------------------------------------------------------------------------
(* A walk meets a name *)

\* Nobody looks at orphans then: there is no directory of them.
LEMMA BlindInTree ==
  ASSUME TypeInv, SoundInv, Blind, NEW w, WalkOK(image, orphan_dir, w)
  PROVE  \A k \in 1..Len(w.frames) : w.frames[k].dir \in Loadable(image) /\ w.frames[k].dir # OrphanDir
<1>1. disk \in DOMAIN Images
  BY DEF TypeInv
<1>2. DOMAIN image.names \subseteq Addresses /\ OrphanDir \notin Addresses
  BY <1>1, ImageFacts
<1>3. orphan_dir = NULL
  BY DEF Blind, SoundInv
<1> QED BY <1>2, <1>3 DEF WalkOK, Loadable

LEMMA AccountAmended ==
  ASSUME NEW w, Account(w), NEW u, Amended(w, u), Elements(w.list) \subseteq Elements(u.list)
  PROVE  Account(u)
<1>1. /\ u.pc = w.pc /\ u.flags = w.flags /\ u.seen = w.seen /\ u.frames = w.frames
  BY DEF Amended, SameCall
<1>2. OnWay(u) /\ Way(u) = Way(w) /\ \A k : Past(u, k) = Past(w, k)
  <2>1. OnWay(w) /\ Pending(u) = Pending(w)
    BY <1>1 DEF Account, Pending
  <2>2. OnWay(u)
    BY <1>1, <2>1 DEF OnWay
  <2>3. \A k : Past(u, k) = Past(w, k)
    BY <1>1 DEF Past
  <2> QED BY <1>1, <2>2, <2>3 DEF Way
<1>3. PICK V \in SUBSET (0..MaxKey) : Covers(w, V)
  BY DEF Account
<1>4. \A e, R : Done(e, w.list, R) => Done(e, u.list, R)
  BY DEF Done
<1>5. Covers(u, V)
  BY <1>1, <1>2, <1>3, <1>4 DEF Covers
<1> QED BY <1>1, <1>2, <1>5 DEF Account

\* What is saved is in a directory of the tree.
LEMMA SavesInTree ==
  ASSUME TypeInv, NEW t \in Threads, AtName(t), Sound(Top(t)), Top(t).save
  PROVE  LET w == Top(t)
             d == w.frames[Len(w.frames)].dir IN
         /\ d \in Reached(image, Root, Search) /\ d \in Loadable(image)
         /\ Name(t) \in NamesIn(image, d)
<1> DEFINE w == Top(t)
           n == Len(w.frames)
           d == w.frames[n].dir
<1>1. n \in 1..n
  BY NameIsIn
<1>2. d \in Reached(image, Root, Search)
  <2> HIDE DEF w
  <2>1. SavesAbove(w, n)
    BY DEF SavesAbove, w
  <2> QED BY <1>1, <2>1 DEF Sound, w
<1>3. d # OrphanDir
  BY <1>2, OrphanDirIsOut, DirTreeAssumption
<1>4. d \in Loadable(image) /\ Name(t) \in NamesIn(image, d)
  BY <1>3, NameIsIn
<1> QED BY <1>2, <1>4

\* The walk with the name collected, and not yet gone on.
LEMMA MeetsName ==
  ASSUME TypeInv, NEW t \in Threads, AtName(t), Sound(Top(t))
  PROVE  LET w == Top(t)
             e == Name(t)
             u == Collected(w, e) IN
         /\ u \in Walks /\ Amended(w, u) /\ u.save = w.save /\ Sound(u)
         /\ u.pc = "entry" /\ Len(u.frames) > 0 /\ e.addr \in 0..MaxKey
         /\ WalkOK(image, orphan_dir, u) /\ u.action = w.action
         /\ Elements(u.list) \subseteq NamedBy(image)
         /\ w.save => Meets(u, e)
         /\ Account(w) => Account(u)
<1> DEFINE w == Top(t)
           e == Name(t)
           u == Collected(w, e)
           n == Len(w.frames)
<1>1. /\ w \in Walks /\ w.pc = "entry" /\ w.frames # << >> /\ n \in Nat \ {0}
      /\ WalkOK(image, orphan_dir, w) /\ e \in NameSet
      /\ e = Names(w.frames[n].dir)[w.frames[n].i]
  BY NameIsIn
<1>2. disk \in DOMAIN Images
  BY DEF TypeInv
<1>3. w.save => e \in NamesIn(image, w.frames[n].dir)
  BY SavesInTree
<1> HIDE DEF w, e
<1>4. /\ u \in Walks /\ Amended(w, u) /\ u.save = w.save
      /\ Collects(w, e) => Elements(u.list) = Elements(w.list) \union {e.addr}
      /\ ~Collects(w, e) => u.list = w.list
  BY <1>1, CollectedGives
<1>5. Sound(u) /\ Elements(u.list) \subseteq NamedBy(image)
  BY <1>1, <1>2, <1>3, CollectedSound DEF w
<1>6. WalkOK(image, orphan_dir, u)
  BY <1>1, <1>4, AmendedOK
<1>7. /\ u.pc = "entry" /\ u.frames = w.frames /\ u.action = w.action /\ e.addr \in 0..MaxKey
      /\ n > 0
  <2>1. e.addr \in 0..MaxKey
    BY <1>1 DEF NameSet
  <2>2. u.pc = "entry" /\ u.frames = w.frames /\ u.action = w.action
    BY <1>1, <1>4 DEF Amended, SameCall
  <2>3. n > 0
    <3> HIDE DEF n
    <3> QED BY <1>1
  <2> QED BY <2>1, <2>2, <2>3
<1> HIDE DEF u
<1>8. w.save /\ HasMeta(image, e) /\ e.addr \in Deleted(image) => e.addr \in Elements(u.list)
  <2> SUFFICES ASSUME w.save, HasMeta(image, e), e.addr \in Deleted(image)
               PROVE  e.addr \in Elements(u.list)
    OBVIOUS
  <2>1. e.addr # OrphanDir /\ ~image.meta[e.addr].alloc
    BY <1>2, ImageFacts DEF Deleted
  <2>2. Collects(w, e)
    BY <2>1 DEF Collects, MetaOf
  <2> QED BY <2>2, <1>4
<1>9. w.save => Meets(u, e)
  BY <1>1, <1>3, <1>7, <1>8, Zenon DEF Meets
<1>10. Account(w) => Account(u)
  BY <1>4, AccountAmended
<1> QED BY <1>4, <1>5, <1>6, <1>7, <1>9, <1>10 DEF u, w, e

-----------------------------------------------------------------------------
(* And goes on from it *)

LEMMA GoneOnSound ==
  ASSUME NEW u \in Walks, Sound(u), Len(u.frames) > 0, NEW e, e.addr \in 0..MaxKey,
         u.save => e \in NamesIn(image, u.frames[Len(u.frames)].dir),
         NEW v \in Walks, GoneOn(u, v, e)
  PROVE  Sound(v)
<1> DEFINE n == Len(u.frames)
<1>1. CASE Skips(u, v)
  BY <1>1, SkipsSound
<1>2. CASE Opens(u, v)
  BY <1>2, OpensSound
<1>3. CASE Leaves(u, v, "ERROR", u.seen)
  BY <1>3, LeavesSound
<1>4. CASE Down(u, e) /\ e.addr # OrphanDir /\ Enters(u, v, e.addr)
  <2>1. u.save => e.addr \in Reached(image, Root, Search)
    <3> SUFFICES ASSUME u.save PROVE e.addr \in Reached(image, Root, Search)
      OBVIOUS
    <3>1. n \in 1..n
      BY WalkFields
    <3>2. u.frames[n].dir \in Reached(image, Root, Search)
      BY <3>1 DEF Sound, SavesAbove
    <3>3. e.addr \in Steps(image, u.frames[n].dir, Search)
      BY <1>4, StepIsIn DEF Down
    <3> QED BY <3>2, <3>3, ReachedGives
  <2> QED BY <1>4, <2>1, EntersSound
<1> QED BY <1>1, <1>2, <1>3, <1>4 DEF GoneOn

LEMMA GoneOnRoams ==
  ASSUME NEW s, NEW u \in Walks, Roams(s, u), Len(u.frames) > 0, NEW e, e.addr \in 0..MaxKey,
         u.action = "orphan" => e \in NamesIn(image, u.frames[Len(u.frames)].dir),
         NEW v \in Walks, GoneOn(u, v, e)
  PROVE  Roams(s, v)
<1>1. CASE Skips(u, v) \/ Opens(u, v) \/ Leaves(u, v, "ERROR", u.seen)
  BY <1>1, MovesRoam
<1>2. CASE Down(u, e) /\ e.addr # OrphanDir /\ Enters(u, v, e.addr)
  <2>1. u.action = "orphan" => e.addr \in Steps(image, u.frames[Len(u.frames)].dir, Search)
    BY <1>2, StepIsIn DEF Down
  <2> QED BY <1>2, <2>1, EntersRoams
<1> QED BY <1>1, <1>2 DEF GoneOn

LEMMA GoneOnAccounts ==
  ASSUME Blind, NEW t, NEW w \in Walks, w.pc = "entry", Accounts(t, w),
         NEW u \in Walks, Amended(w, u), u.save = w.save, Len(u.frames) > 0,
         Sound(u), Account(w) => Account(u), NEW e, w.save => Meets(u, e),
         \A k \in 1..Len(u.frames) : u.frames[k].dir # OrphanDir,
         NEW v \in Walks, GoneOn(u, v, e)
  PROVE  Accounts(t, v)
<1> DEFINE n == Len(u.frames)
<1>1. /\ u.pc = "entry" /\ u.flags = w.flags /\ u.action = w.action /\ u.save \in BOOLEAN
      /\ u.save => Account(u) /\ Meets(u, e)
  BY WalkFields DEF Amended, SameCall, Accounts, Saves
<1>2. n \in Nat \ {0} /\ n \in 1..n
  BY WalkFields
<1>3. w.action # "orphan" /\ (w.action = "named" => u.save)
  BY DEF Accounts
<1>4. CASE AfterSkips(u, e) /\ Skips(u, v)
  <2>1. v.pc = "entry" /\ v.save = u.save /\ v.action = w.action
    BY <1>1, <1>4 DEF Skips, SameCall
  <2>2. u.save => Account(v)
    BY <1>1, <1>4, AccountSkips
  <2> QED BY <2>1, <2>2, <1>3 DEF Accounts, Saves
<1>5. CASE Down(u, e) /\ e.addr # OrphanDir /\ Enters(u, v, e.addr)
  <2>1. v.pc = "entry" /\ v.save = u.save /\ v.action = w.action
    BY <1>1, <1>5 DEF Enters, SameCall
  <2>2. u.save => Account(v)
    BY <1>1, <1>5, AccountEnters DEF Down
  <2> QED BY <2>1, <2>2, <1>3 DEF Accounts, Saves
<1>6. CASE Down(u, e) /\ e.addr = OrphanDir /\ Opens(u, v)
  <2>1. v.pc = "opening" /\ v.action = w.action /\ Len(v.frames) = n /\ v.frames[n].bak = u.save
    BY <1>1, <1>6 DEF Opens, SameCall
  <2>2. u.save => Account(v)
    BY <1>1, <1>6, AccountOpens DEF Down
  <2> QED BY <2>1, <2>2, <1>3 DEF Accounts, Saves
<1>7. CASE GoesInto(image, e, u.flags) /\ ~IsLoop(u, e) /\ TooFarDown(u) /\ Leaves(u, v, "ERROR", u.seen)
  <2> DEFINE m == n - 1
  <2>1. /\ v.action = w.action
        /\ m = 0 => v.pc = "returned" /\ v.ret = "ERROR"
        /\ m > 0 => v.pc = "entry" /\ v.save = IF u.frames[n].dir = OrphanDir THEN u.frames[m].bak ELSE u.save
    BY <1>1, <1>2, <1>7 DEF Leaves, SameCall
  <2>2. m > 0 => v.save = u.save
    BY <2>1, <1>2
  <2>3. m = 0 \/ m > 0
    <3> HIDE DEF n
    <3> QED BY <1>2
  <2>4. ~u.save
    <3> SUFFICES ASSUME u.save PROVE FALSE
      BY <1>1
    <3>1. Account(u) /\ Meets(u, e)
      BY <1>1
    <3>2. e.addr = OrphanDir
      BY <3>1, <1>7, TooFarIsTooDeep DEF Blind, CanWalk
    <3>3. n = 1
      BY <3>1, <3>2, OrphansAtRoot DEF Blind
    <3>4. n - 1 >= MaxDepth
      BY <1>7 DEF TooFarDown
    <3> HIDE DEF n
    <3> QED BY <3>3, <3>4, DirTreeAssumption
  <2> HIDE DEF m, n
  <2> QED BY <2>1, <2>2, <2>3, <2>4, <1>3 DEF Accounts, Saves
<1> QED BY <1>4, <1>5, <1>6, <1>7 DEF GoneOn

-----------------------------------------------------------------------------
(* The name is remembered *)

\* A walk of the search is in the directories that its orphan leads to.
LEMMA RoamsInTree ==
  ASSUME TypeInv, SoundInv, NEW t \in Threads, AtName(t), Top(t).action = "orphan"
  PROVE  LET w == Top(t)
             d == w.frames[Len(w.frames)].dir
             j == stack[t][Len(stack[t]) - 1] IN
         /\ IsSearch(j) /\ HasDir(j, j.next) /\ SearchSound(stack[t], back[t], Len(stack[t]) - 1)
         /\ d \in Reached(image, j.next, Search) /\ Name(t) \in NamesIn(image, d)
<1> DEFINE w == Top(t)
           n == Len(w.frames)
           d == w.frames[n].dir
           s == stack[t]
           j == s[Len(s) - 1]
<1>1. At(t, "walk", "entry") /\ n \in 1..n /\ (d # OrphanDir => Name(t) \in NamesIn(image, d))
  BY NameIsIn DEF AtName, InDir
<1>2. s # << >> /\ w = Last(s) /\ Last(s).kind = "walk" /\ StackOK(s) /\ ThreadSound(t, s, back[t])
  BY <1>1, TopFacts, ThreadFacts DEF SoundInv
<1>3. /\ Roams(s, w) /\ IsSearch(j) /\ SearchSound(s, back[t], Len(s) - 1)
      /\ HasDir(j, j.next)
  BY <1>2, TopRoams
<1>4. d \in Reached(image, j.next, Search)
  BY <1>1, <1>3 DEF Roams
<1>5. j.next # OrphanDir
  <2>1. j.next \in Deleted(image)
    BY <1>3 DEF HasDir
  <2> HIDE DEF j
  <2> QED BY <2>1, ImageFacts, ThreadFacts
<1>6. d # OrphanDir
  <2> HIDE DEF d, j
  <2> QED BY <1>4, <1>5, OrphanDirIsOut
<1> QED BY <1>1, <1>3, <1>4, <1>6

LEMMA ToldKnows ==
  ASSUME NEW j, Knows(j), NEW k, NEW a, Told(j, k, a), HasDir(j, j.next), a \in Inside(j.next)
  PROVE  Knows(k)
<1>1. /\ k.pc = j.pc /\ k.names = j.names /\ k.next = j.next
      /\ Elements(k.subdirs) = Elements(j.subdirs) \union {a}
  BY DEF Told
<1>2. \A o : HasDir(k, o) = HasDir(j, o)
  BY <1>1 DEF HasDir
<1>3. \A x \in Elements(k.subdirs) : \E o \in Deleted(image) : HasDir(k, o) /\ x \in Inside(o)
  <2> TAKE x \in Elements(k.subdirs)
  <2>1. CASE x = a
    BY <2>1, <1>2 DEF HasDir
  <2>2. CASE x \in Elements(j.subdirs)
    BY <2>2, <1>2 DEF Knows
  <2> QED BY <2>1, <2>2, <1>1
<1> QED BY <1>1, <1>3 DEF Knows

LEMMA RememberedSound ==
  ASSUME TypeInv, SoundInv, NEW t \in Threads, AtName(t), NEW s, StackOK(s), s # << >>,
         Len(s) = Len(stack[t]), Last(s) = Top(t),
         Remembers(Top(t), Name(t)) =>
           /\ Len(s) > 1 /\ IsSearch(stack[t][Len(s) - 1])
           /\ Told(stack[t][Len(s) - 1], s[Len(s) - 1], Name(t).addr)
           /\ \A i \in 1..Len(s) : i # Len(s) - 1 => s[i] = stack[t][i],
         ~Remembers(Top(t), Name(t)) => s = stack[t]
  PROVE  ThreadSound(t, s, back[t])
<1> DEFINE e == Name(t)
           q == stack[t]
           b == back[t]
           n == Len(s)
           m == n - 1
<1>1. ThreadSound(t, q, b) /\ n \in Nat \ {0} /\ DOMAIN s = 1..n
  BY StackFacts, LenProperties DEF SoundInv
<1>2. CASE ~Remembers(Top(t), e)
  BY <1>1, <1>2
<1>3. CASE Remembers(Top(t), e)
  <2>1. /\ n > 1 /\ IsSearch(q[m]) /\ Told(q[m], s[m], e.addr) /\ Top(t).action = "orphan"
        /\ \A i \in 1..n : i # m => s[i] = q[i]
        /\ ~e.dot /\ HasMeta(image, e)
    BY <1>3 DEF Remembers
  <2>2. m \in 1..n /\ m + 1 = n /\ m + 1 \in 1..n /\ m < n /\ n # m
    <3> HIDE DEF n
    <3> QED BY <1>1, <2>1
  <2>3. /\ HasDir(q[m], q[m].next) /\ SearchSound(q, b, m)
        /\ e.addr \in Inside(q[m].next)
    <3> DEFINE j == q[m]
               d == Top(t).frames[Len(Top(t).frames)].dir
    <3>1. /\ HasDir(j, j.next) /\ SearchSound(q, b, m)
          /\ d \in Reached(image, j.next, Search) /\ e \in NamesIn(image, d)
      BY <2>1, RoamsInTree
    <3> HIDE DEF j, d, e
    <3>2. e.addr \in Inside(j.next)
      BY <2>1, <3>1, InsideFrom
    <3> QED BY <3>1, <3>2 DEF j
  <2>4. s[m + 1] = q[m + 1] /\ Len(q) = n
    BY <2>1, <2>2
  <2> HIDE DEF n, m, q, e
  <2>5. Knows(s[m])
    BY <2>1, <2>3, ToldKnows DEF SearchSound
  <2>6. s[m].pc = q[m].pc /\ s[m].names = q[m].names /\ s[m].next = q[m].next /\ s[m].kind = "search"
    BY <2>1 DEF Told, Searches
  <2>7. SearchSound(s, b, m)
    BY <2>2, <2>3, <2>4, <2>5, <2>6 DEF SearchSound, HasDir, n
  <2>8. ASSUME NEW i \in 1..n, s[i].kind = "search" PROVE i = m
    BY <1>1, <2>2, <2>6, <2>8, StackIsShort DEF n
  <2>9. ASSUME NEW i \in 1..n, s[i].kind = "walk" PROVE WalkSound(t, s[i])
    <3>1. s[i] = q[i]
      BY <2>1, <2>6, <2>9
    <3> QED BY <3>1, <2>4, <2>9, <1>1 DEF ThreadSound, n
  <2> QED BY <2>7, <2>8, <2>9 DEF ThreadSound, n
<1> QED BY <1>2, <1>3

-----------------------------------------------------------------------------
(* A step of a walk *)

LEMMA TopMovesNow == TopMoves
BY TopChanges DEF TopMoves

LEMMA TopMovesNext == TopMoves'
BY TopMovesNow, PTL

LEMMA NewSearchKnowsNow == NewSearchKnows
<1> SUFFICES ASSUME NEW k, disk \in DOMAIN Images, IsNewSearch(k) PROVE Knows(k)
  BY DEF NewSearchKnows
<1>1. Len(k.names) = 0 /\ k.next = -1 /\ k.names = << >> /\ k.pc = "lock" /\ Elements(k.subdirs) = {}
  BY DEF IsNewSearch
<1>2. \A a \in Deleted(image) : ~(a <= k.next)
  <2> TAKE a \in Deleted(image)
  <2>1. a \in 0..MaxKey
    BY ImageFacts
  <2> QED BY <2>1, <1>1
<1> QED BY <1>1, <1>2 DEF Knows

LEMMA CallMovesNow == CallMoves
<1> SUFFICES ASSUME NEW t, NEW r, NEW b, NEW q, NEW k, disk \in DOMAIN Images, ThreadSound(t, r, b),
                    Adds(r, q, k), r[Len(r)].kind = "walk", IsNewSearch(k)
             PROVE  ThreadSound(t, q, b)
  BY Zenon DEF CallMoves
<1> DEFINE n == Len(r)
<1>1. /\ n \in Nat \ {0} /\ Len(q) = n + 1 /\ (\A i \in 1..n : q[i] = r[i]) /\ q[n + 1] = k
  BY DEF Adds
<1>2. r[n].kind = "walk" /\ k.kind = "search" /\ k.pc = "lock" /\ Knows(k)
  BY NewSearchKnowsNow DEF NewSearchKnows, IsNewSearch
<1>3. \A i \in 1..n : /\ r[i].kind = "walk" => WalkSound(t, r[i])
                      /\ r[i].kind = "search" => SearchSound(r, b, i)
  BY DEF ThreadSound
<1>4. Len(r) = n
  OBVIOUS
<1> HIDE DEF n
<1>5. ASSUME NEW i \in 1..n PROVE /\ q[i].kind = "walk" => WalkSound(t, q[i])
                                  /\ q[i].kind = "search" => SearchSound(q, b, i)
  <2>1. q[i] = r[i]
    BY <1>1
  <2>2. ASSUME q[i].kind = "search" PROVE SearchSound(q, b, i)
    <3>1. i # n /\ SearchSound(r, b, i)
      BY <2>1, <2>2, <1>2, <1>3
    <3>2. i < n /\ i + 1 \in 1..n /\ i < n + 1 /\ i # n + 1
      BY <3>1, <1>1
    <3>3. q[i + 1] = r[i + 1]
      BY <3>2, <1>1
    <3> QED BY <2>1, <3>1, <3>2, <3>3, <1>1, <1>4 DEF SearchSound
  <2> QED BY <2>1, <2>2, <1>3
<1>6. SearchSound(q, b, n + 1)
  <2>1. ~(n + 1 < n + 1)
    BY <1>1
  <2> QED BY <2>1, <1>1, <1>2 DEF SearchSound
<1>7. \A i \in 1..n + 1 : i \in 1..n \/ i = n + 1
  BY <1>1
<1> QED BY <1>1, <1>2, <1>5, <1>6, <1>7 DEF ThreadSound

LEMMA CallMovesNext == CallMoves'
BY CallMovesNow, PTL

LEMMA FrontGives ==
  ASSUME NEW S, NEW s \in Seq(S), s # << >>, NEW j
  PROVE  /\ Replaced(s, Append(Front(s), j), j) /\ Replaced(s, Front(s) \o <<j>>, j)
         /\ Len(s) \in Nat \ {0}
<1>1. s \in Seq(S \union {j}) /\ j \in S \union {j}
  OBVIOUS
<1> QED BY <1>1, FrontReplaced, FrontLast

LEMMA FrontCalls ==
  ASSUME NEW S, NEW s \in Seq(S), s # << >>, NEW j, NEW k
  PROVE  /\ Pushed(s, Front(s) \o <<j, k>>, j, k)
         /\ Adds(Front(s) \o <<j>>, Front(s) \o <<j, k>>, k)
         /\ (Front(s) \o <<j>>)[Len(Front(s) \o <<j>>)] = j
<1> DEFINE T == S \union {j, k}
           r == Front(s) \o <<j>>
           q == Front(s) \o <<j, k>>
           n == Len(s)
<1>1. s \in Seq(T) /\ j \in T /\ k \in T
  OBVIOUS
<1>2. n \in Nat \ {0} /\ Replaced(s, r, j) /\ Pushed(s, q, j, k)
  <2> HIDE DEF T
  <2> QED BY <1>1, FrontPushed, FrontGives
<1> HIDE DEF r, q
<1>3. Len(r) = n /\ r[n] = j /\ Len(q) = n + 1 /\ q[n] = j /\ q[n + 1] = k
      /\ \A i \in 1..n - 1 : r[i] = s[i] /\ q[i] = s[i]
  BY <1>2 DEF Replaced, Pushed
<1> HIDE DEF n
<1>4. \A i \in 1..n : q[i] = r[i]
  <2>1. \A i \in 1..n : i \in 1..n - 1 \/ i = n
    BY <1>2
  <2> QED BY <2>1, <1>3
<1> QED BY <1>2, <1>3, <1>4 DEF Adds, r, q

LEMMA AccountsStay ==
  ASSUME disk' = disk, orphan_dir' = orphan_dir
  PROVE  \A t, w : Accounts(t, w)' = Accounts(t, w)
<1>1. image' = image
  BY DEF image
<1>2. \A w : Account(w)' = Account(w)
  BY SameAccount
<1> QED BY <1>1, <1>2 DEF Accounts

\* The walk on top of stack s, that of thread t or nearly so, goes on as v.
LEMMA WalkMoves ==
  ASSUME TypeInv, SoundInv, NEW t \in Threads, disk' = disk, Learns, orphan_dir' = orphan_dir,
         refused \subseteq refused', NEW s, StackOK(s), s # << >>, Last(s).kind = "walk",
         NEW b, b = back[t], back' = back,
         ThreadSound(t, s, b), NEW v \in Walks, v.action = Last(s).action, Sound(v), Roams(s, v),
         Blind' /\ Trusted(t, v)' => Accounts(t, v)',
         NEW r, stack' = [stack EXCEPT ![t] = r],
         \/ r = Append(Front(s), v)
         \/ r = Front(s) \o <<v>>
         \/ r = Front(s) \o <<v, SearchAfter(-1)>>
  PROVE  SoundInv'
<1>1. image' = image /\ disk \in DOMAIN Images /\ s \in Seq(Jobs)
  BY DEF image, TypeInv, StackOK
<1>2. ThreadSound(t, s, b)'
  BY ThreadStays
<1>3. Sound(v)' /\ Roams(s, v)'
  BY <1>1 DEF Sound, Roams
<1>4. WalkSound(t, v)'
  BY <1>3 DEF WalkSound, Blind
<1>5. ASSUME NEW q, Replaced(s, q, v) PROVE ThreadSound(t, q, b)'
  BY <1>2, <1>3, <1>4, <1>5, TopMovesNext DEF TopMoves
<1>6. ThreadSound(t, r, b)'
  <2>1. CASE r = Append(Front(s), v) \/ r = Front(s) \o <<v>>
    <3>1. Replaced(s, r, v)
      BY <2>1, <1>1, FrontGives
    <3> QED BY <3>1, <1>5
  <2>2. CASE r = Front(s) \o <<v, SearchAfter(-1)>>
    <3> DEFINE k == SearchAfter(-1)
    <3>1. PICK q : q = Front(s) \o <<v>>
      OBVIOUS
    <3>2. Adds(q, r, k) /\ q[Len(q)] = v /\ Replaced(s, q, v)
      BY <3>1, <2>2, <1>1, FrontCalls, FrontGives
    <3>3. ThreadSound(t, q, b)'
      BY <3>2, <1>5
    <3>4. IsNewSearch(k)
      <4>1. k.kind = "search" /\ k.pc = "lock" /\ k.names = << >> /\ k.subdirs = Empty /\ k.next = -1
        BY SearchAfterGives DEF IsSearch
      <4> HIDE DEF k
      <4> QED BY <4>1, EmptyList DEF IsNewSearch
    <3>5. v.kind = "walk" /\ disk' \in DOMAIN Images
      BY <1>1, WalkFields
    <3> HIDE DEF k
    <3> QED BY <3>2, <3>3, <3>4, <3>5, CallMovesNext DEF CallMoves
  <2> QED BY <2>1, <2>2
<1>7. back' = [back EXCEPT ![t] = b]
  BY ThreadFacts
<1> QED BY <1>6, <1>7, SoundStep

-----------------------------------------------------------------------------
(* The next name *)

LEMMA VisitNameSound ==
  ASSUME TypeInv, SoundInv, NEW t \in Threads, VisitName(t)
  PROVE  SoundInv' /\ Completes
<1> DEFINE w == Top(t)
           e == Name(t)
           c == Collected(w, e)
           last == IsLastName(t)
           early == IsEarly(w, e, last)
           u == Visited(w, e, last)
           n == Len(w.frames)
<1>1. /\ AtName(t) /\ CallsBack(t, "CONT")
      /\ IF early THEN SaveInumNamed(c.list) ELSE UNCHANGED list_inum_named
      /\ stack' = [stack EXCEPT ![t] = Remembering(t, Front(stack[t]), e) \o After(u, e)]
      /\ disk' = disk /\ orphan_dir' = orphan_dir /\ back' = back
  BY VisitGives
<1>2. /\ At(t, "walk", "entry") /\ w \in Walks /\ w.pc = "entry" /\ e \in NameSet
      /\ WalkOK(image, orphan_dir, w) /\ n \in Nat \ {0}
      /\ w = Last(stack[t]) /\ w.kind = "walk" /\ stack[t] # << >> /\ StackOK(stack[t])
      /\ disk \in DOMAIN Images
  BY <1>1, NameIsIn, TopFacts, ThreadFacts DEF AtName, InDir
<1>3. PICK s \in Seq(Jobs) :
        /\ StackOK(s) /\ s # << >> /\ Len(s) = Len(stack[t]) /\ Last(s) = w
        /\ Front(s) = Remembering(t, Front(stack[t]), e)
        /\ ~Remembers(w, e) => s = stack[t]
        /\ Remembers(w, e) =>
             /\ Len(s) > 1 /\ IsSearch(stack[t][Len(s) - 1])
             /\ Told(stack[t][Len(s) - 1], s[Len(s) - 1], e.addr)
             /\ \A i \in 1..Len(s) : i # Len(s) - 1 => s[i] = stack[t][i]
  BY <1>2, RememberingGives
<1>4. PICK b : b = back[t]
  OBVIOUS
<1>5. ThreadSound(t, s, b)
  BY <1>1, <1>3, <1>4, RememberedSound
<1>6. WalkSound(t, w) /\ Roams(s, w)
  BY <1>2, <1>3, <1>5, TopRoams
<1>7. /\ c \in Walks /\ Amended(w, c) /\ c.save = w.save /\ Sound(c)
      /\ c.pc = "entry" /\ Len(c.frames) > 0 /\ e.addr \in 0..MaxKey
      /\ WalkOK(image, orphan_dir, c) /\ c.action = w.action
      /\ Elements(c.list) \subseteq NamedBy(image)
      /\ w.save => Meets(c, e)
      /\ Account(w) => Account(c)
  BY <1>1, <1>6, MeetsName DEF WalkSound
<1>8. w.save => e \in NamesIn(image, w.frames[n].dir)
  BY <1>1, <1>6, SavesInTree DEF WalkSound
<1>9. w.action = "orphan" => e \in NamesIn(image, w.frames[n].dir)
  BY <1>1, RoamsInTree
<1>10. early => w.save /\ e.addr = OrphanDir /\ w.frames[n].i = Len(Names(w.frames[n].dir))
  <2>1. last \in BOOLEAN
    BY DEF IsLastName
  <2>2. Dir(t) = w.frames[n]
    BY <1>1, NameIsIn
  <2>3. early <=> w.save /\ e.addr = OrphanDir /\ last
    BY <2>1, <1>2, VisitedGives
  <2> QED BY <2>2, <2>3 DEF IsLastName
<1>11. early /\ CanWalk /\ Trusted(t, w) /\ ~Settled => NamedBy(image) \subseteq Elements(c.list)
  <2> SUFFICES ASSUME early, CanWalk, Trusted(t, w), ~Settled
               PROVE  NamedBy(image) \subseteq Elements(c.list)
    BY Zenon
  <2> HIDE DEF w, e, c, early
  <2>1. Account(c) /\ c.save /\ Meets(c, e)
    BY <1>2, <1>6, <1>7, <1>10 DEF WalkSound, Accounts, Saves
  <2>2. \A k \in 1..Len(c.frames) : c.frames[k].dir \in Loadable(image)
    BY <1>7, BlindInTree DEF Blind
  <2>3. c.frames = w.frames
    BY <1>7 DEF Amended
  <2>4. e.addr = OrphanDir /\ c.frames[Len(c.frames)].i = Len(Names(c.frames[Len(c.frames)].dir))
    BY <2>3, <1>10
  <2> QED BY <2>1, <2>2, <2>4, <1>2, <1>7, AllBeforeOrphans
<1>12. u = IF early THEN SavedEarly(c) ELSE c
  BY DEF Visited
<1> HIDE DEF w, e, c, early, last, u
<1>13. /\ u \in Walks /\ Amended(w, u) /\ Sound(u) /\ u.action = w.action
       /\ u.frames = w.frames /\ u.pc = "entry" /\ (u.save => w.save)
  <2>1. CASE early
    BY <2>1, <1>7, <1>12, SavedEarlySound, SavedEarlyGives DEF Amended, SameCall
  <2>2. CASE ~early
    BY <2>2, <1>7, <1>12 DEF Amended
  <2> QED BY <2>1, <2>2
<1>14. u.frames # << >> /\ (Len(u.frames) = 1 \/ u.seen # << >>) /\ Len(u.frames) > 0
  <2>1. w.frames # << >> /\ (Len(w.frames) = 1 \/ w.seen # << >>)
    BY <1>2, InDirFacts
  <2>2. Len(u.frames) > 0
    <3> HIDE DEF n
    <3> QED BY <1>2, <1>13 DEF n
  <2> QED BY <2>1, <2>2, <1>13 DEF Amended
<1>15. PICK v \in Walks : /\ GoneOn(u, v, e)
                          /\ After(u, e) = <<v>> \/ After(u, e) = <<v, SearchAfter(-1)>>
  BY <1>2, <1>13, <1>14, AfterGives, Zenon DEF GoneOn
<1>16. Sound(v)
  BY <1>7, <1>8, <1>13, <1>14, <1>15, GoneOnSound
<1>17. Roams(s, v)
  <2>1. Roams(s, u)
    BY <1>2, <1>6, <1>13 DEF Roams
  <2> QED BY <2>1, <1>7, <1>9, <1>13, <1>14, <1>15, GoneOnRoams
<1>18. v.action = w.action
  BY <1>13, <1>15 DEF GoneOn, Skips, Enters, Opens, Leaves, SameCall
<1>19. refused' = refused
  BY <1>1 DEF CallsBack
<1>20. /\ early /\ list_inum_named = Empty => list_inum_named' = c.list
       /\ ~early \/ list_inum_named # Empty => list_inum_named' = list_inum_named
  BY <1>1 DEF SaveInumNamed
<1>21. Learns
  BY <1>7, <1>20 DEF Learns
<1>22. image' = image
  BY <1>1 DEF image
<1>23. ASSUME Blind', Trusted(t, v)' PROVE Accounts(t, v)'
  <2>1. Trusted(t, w) /\ CanWalk
    BY <1>18, <1>19, <1>22, <1>23 DEF Trusted, Blind, CanWalk
  <2>2. ~Settled
    BY <1>21, <1>22, <1>23 DEF Blind, Settled, Learns
  <2>3. ~early
    <3> SUFFICES ASSUME early PROVE FALSE
      OBVIOUS
    <3>1. list_inum_named' = c.list /\ NamedBy(image) \subseteq Elements(c.list)
      BY <2>1, <2>2, <1>11, <1>20 DEF Settled
    <3>2. c.list = Empty /\ NamedBy(image) # {}
      BY <3>1, <1>22, <1>23 DEF Blind, Settled
    <3> QED BY <3>1, <3>2, EmptyList
  <2>4. u = c
    BY <2>3, <1>12
  <2>5. Accounts(t, w) /\ Blind
    BY <2>1, <2>2, <1>6 DEF WalkSound, Blind
  <2>6. \A k \in 1..Len(u.frames) : u.frames[k].dir # OrphanDir
    BY <2>4, <2>5, <1>7, BlindInTree
  <2>7. Accounts(t, v)
    BY <2>4, <2>5, <2>6, <1>2, <1>7, <1>13, <1>14, <1>15, GoneOnAccounts
  <2> QED BY <2>7, <1>1, AccountsStay
<1>24. SoundInv'
  <2>1. PICK r : r = Front(s) \o After(u, e)
    OBVIOUS
  <2>2. stack' = [stack EXCEPT ![t] = r]
    BY <2>1, <1>1, <1>3
  <2>3. r = Front(s) \o <<v>> \/ r = Front(s) \o <<v, SearchAfter(-1)>>
    BY <2>1, <1>15
  <2>4. v.action = Last(s).action /\ Last(s).kind = "walk" /\ refused \subseteq refused'
    BY <1>2, <1>3, <1>18, <1>19
  <2>5. Blind' /\ Trusted(t, v)' => Accounts(t, v)'
    BY <1>23
  <2>6. /\ disk' = disk /\ orphan_dir' = orphan_dir /\ back' = back /\ StackOK(s) /\ s # << >>
        /\ b = back[t] /\ ThreadSound(t, s, b) /\ Sound(v) /\ Roams(s, v) /\ Learns
    BY <1>1, <1>3, <1>4, <1>5, <1>16, <1>17, <1>21
  <2> QED BY <2>2, <2>3, <2>4, <2>5, <2>6, WalkMoves
<1>25. Completes
  <2> SUFFICES ASSUME list_inum_named' # list_inum_named
               PROVE  /\ list_inum_named = Empty /\ Elements(list_inum_named') \subseteq NamedBy(image)
                      /\ refused = {} /\ CanWalk => NamedBy(image) \subseteq Elements(list_inum_named')
    BY DEF Completes
  <2>1. early /\ list_inum_named = Empty /\ list_inum_named' = c.list
    BY <1>20
  <2>2. ASSUME refused = {}, CanWalk PROVE NamedBy(image) \subseteq Elements(c.list)
    <3>1. Trusted(t, w)
      BY <2>2 DEF Trusted
    <3> QED BY <3>1, <2>1, <2>2, <1>11 DEF Settled
  <2> QED BY <2>1, <2>2, <1>7
<1> QED BY <1>24, <1>25

-----------------------------------------------------------------------------
(* The other steps of a walk *)

LEMMA WalkGoesOnSound ==
  ASSUME TypeInv, SoundInv, NEW t \in Threads, NEW p, At(t, "walk", p), disk' = disk, UNCHANGED shared,
         refused \subseteq refused', NEW v \in Walks, GoesOn(t, v), v.action = Top(t).action,
         Sound(v), Roams(stack[t], v),
         Blind /\ Trusted(t, v)' /\ Accounts(t, Top(t)) => Accounts(t, v)
  PROVE  SoundInv' /\ Completes
<1>1. PICK s, b : s = stack[t] /\ b = back[t]
  OBVIOUS
<1>2. /\ stack[t] # << >> /\ StackOK(stack[t]) /\ Top(t) = Last(stack[t]) /\ Top(t).kind = "walk"
  BY TopFacts, ThreadFacts
<1>3. /\ StackOK(s) /\ s # << >> /\ Last(s).kind = "walk" /\ v.action = Last(s).action
      /\ ThreadSound(t, s, b) /\ Roams(s, v)
  BY <1>1, <1>2 DEF SoundInv
<1>4. /\ list_inum_named' = list_inum_named /\ orphan_dir' = orphan_dir /\ image' = image /\ back' = back
  BY DEF shared, GoesOn, image
<1>5. Blind' /\ Trusted(t, v)' => Accounts(t, v)'
  <2> SUFFICES ASSUME Blind', Trusted(t, v)' PROVE Accounts(t, v)'
    OBVIOUS
  <2>1. Blind /\ Trusted(t, Top(t))
    BY <1>4 DEF Blind, CanWalk, Settled, Trusted
  <2>2. WalkSound(t, Top(t))
    BY <1>2, <1>3, <1>1, TopRoams
  <2>3. Accounts(t, v)
    BY <2>1, <2>2 DEF WalkSound, Blind
  <2> QED BY <2>3, <1>4, AccountsStay
<1>6. PICK r : r = Append(Front(s), v)
  OBVIOUS
<1>7. stack' = [stack EXCEPT ![t] = r]
  BY <1>1, <1>6 DEF GoesOn
<1>8. Learns
  BY <1>4 DEF Learns
<1> QED BY <1>1, <1>3, <1>4, <1>5, <1>6, <1>7, <1>8, WalkMoves DEF Completes

\* What is known of the walk on top.
LEMMA TopSound ==
  ASSUME TypeInv, SoundInv, NEW t \in Threads, NEW p, At(t, "walk", p)
  PROVE  LET w == Top(t) IN
         /\ w \in Walks /\ WalkOK(image, orphan_dir, w) /\ w.pc = p
         /\ Sound(w) /\ Roams(stack[t], w) /\ disk \in DOMAIN Images
<1>1. /\ stack[t] # << >> /\ StackOK(stack[t]) /\ Top(t) = Last(stack[t]) /\ Last(stack[t]).kind = "walk"
      /\ Top(t) \in Walks /\ WalkOK(image, orphan_dir, Top(t)) /\ Top(t).pc = p /\ disk \in DOMAIN Images
  BY TopFacts, ThreadFacts
<1>2. ThreadSound(t, stack[t], back[t])
  BY DEF SoundInv
<1>3. WalkSound(t, Last(stack[t])) /\ Roams(stack[t], Last(stack[t]))
  BY <1>1, <1>2, TopRoams
<1> QED BY <1>1, <1>3 DEF WalkSound

LEMMA DirEndsSound ==
  ASSUME TypeInv, SoundInv, NEW t \in Threads, DirEnds(t)
  PROVE  SoundInv' /\ Completes
<1> DEFINE w == Top(t)
           v == Leave(w, "CONT")
           n == Len(w.frames)
<1>1. /\ At(t, "walk", "entry") /\ ~(Dir(t).i <= Len(Names(Dir(t).dir))) /\ InDir(t)
      /\ GoesOn(t, v) /\ disk' = disk /\ UNCHANGED shared /\ UNCHANGED caller /\ "CONT" \in Returned
  BY DEF DirEnds, AtName, InDir, Returned
<1>2. /\ w \in Walks /\ WalkOK(image, orphan_dir, w) /\ w.pc = "entry" /\ Sound(w)
      /\ Roams(stack[t], w) /\ disk \in DOMAIN Images
  BY <1>1, TopSound
<1>3. n \in Nat \ {0} /\ n \in 1..n /\ Dir(t) = w.frames[n] /\ (n = 1 \/ w.seen # << >>)
  BY <1>2, InDirFacts DEF Dir
<1>4. CallerOK'
  BY <1>1, CallerStays
<1>5. v \in Walks /\ Leaves(w, v, "CONT", Front(w.seen))
  BY <1>1, <1>4, LeaveOK
<1>6. refused' = refused
  BY <1>1 DEF caller
<1> HIDE DEF w, v
<1>7. Len(w.frames) > 0
  <2> HIDE DEF n
  <2> QED BY <1>3 DEF n
<1>8. Sound(v) /\ Roams(stack[t], v) /\ v.action = w.action
  BY <1>2, <1>5, <1>7, LeavesSound, MovesRoam DEF Leaves, SameCall
<1>9. ASSUME Blind, Accounts(t, w) PROVE Accounts(t, v)
  <2> DEFINE m == n - 1
  <2>1. \A k \in 1..n : w.frames[k].dir \in Loadable(image) /\ w.frames[k].dir # OrphanDir
    BY <1>2, <1>9, BlindInTree
  <2>2. /\ m = 0 => v.pc = "returned" /\ v.ret = "CONT" /\ v.save = w.save
        /\ m > 0 => v.pc = "entry" /\ v.save = IF w.frames[n].dir = OrphanDir THEN w.frames[m].bak ELSE w.save
    BY <1>3, <1>5 DEF Leaves
  <2>3. v.save = w.save /\ (m = 0 \/ m > 0)
    <3>1. m \in Nat
      <4> HIDE DEF n
      <4> QED BY <1>3
    <3> HIDE DEF m
    <3>2. m = 0 \/ m > 0
      BY <3>1
    <3> QED BY <3>2, <2>1, <2>2, <1>3
  <2>4. w.save => /\ m > 0 => Account(v)
                  /\ m = 0 => NamedBy(image) \subseteq Elements(v.list)
    <3> SUFFICES ASSUME w.save PROVE /\ m > 0 => Account(v)
                                     /\ m = 0 => NamedBy(image) \subseteq Elements(v.list)
      OBVIOUS
    <3>1. Account(w)
      BY <1>2, <1>9 DEF Accounts, Saves
    <3>2. ~(w.frames[Len(w.frames)].i <= Len(Names(w.frames[Len(w.frames)].dir)))
      BY <1>1, <1>3
    <3>3. /\ Len(w.frames) > 1 => Account(v)
          /\ Len(w.frames) = 1 => NamedBy(image) \subseteq Elements(v.list)
      BY <3>1, <3>2, <2>1, <1>2, <1>3, <1>5, <1>7, AccountLeaves
    <3>4. (m > 0 => Len(w.frames) > 1) /\ (m = 0 => Len(w.frames) = 1)
      <4>1. Len(w.frames) = n
        OBVIOUS
      <4> HIDE DEF n
      <4> QED BY <4>1, <1>3
    <3> HIDE DEF m, n
    <3> QED BY <3>3, <3>4
  <2> HIDE DEF m, n
  <2> QED BY <2>2, <2>3, <2>4, <1>2, <1>8, <1>9 DEF Accounts, Saves
<1> QED BY <1>1, <1>5, <1>6, <1>8, <1>9, WalkGoesOnSound DEF w

LEMMA CallbackFailsSound ==
  ASSUME TypeInv, SoundInv, NEW t \in Threads, CallbackFails(t)
  PROVE  SoundInv' /\ Completes
<1> DEFINE w == Top(t)
           v == Leave(w, "ERROR")
<1>1. /\ AtName(t) /\ CallsBack(t, "ERROR") /\ InDir(t) /\ At(t, "walk", "entry")
      /\ GoesOn(t, v) /\ disk' = disk /\ UNCHANGED shared /\ "ERROR" \in Returned
  BY DEF CallbackFails, AtName, InDir, Returned
<1>2. w \in Walks /\ WalkOK(image, orphan_dir, w) /\ w.pc = "entry" /\ Sound(w) /\ Roams(stack[t], w)
  BY <1>1, TopSound
<1>3. CallerOK'
  BY <1>1, CallsBackOK
<1>4. v \in Walks /\ Leaves(w, v, "ERROR", Front(w.seen))
  BY <1>1, <1>3, LeaveOK
<1>5. w.action = "user" /\ refused' = refused \union {t}
  BY <1>1 DEF CallsBack, Answers, OrphanAnswer
<1> HIDE DEF w
<1>6. Len(w.frames) > 0
  BY <1>2, InDirFacts
<1>7. PICK x : x = v
  OBVIOUS
<1> HIDE DEF v
<1>8. /\ Sound(x) /\ Roams(stack[t], x) /\ x.action = w.action
      /\ x \in Walks /\ GoesOn(t, x)
  BY <1>1, <1>2, <1>4, <1>6, <1>7, LeavesSound, MovesRoam DEF Leaves, SameCall
<1>9. ~Trusted(t, x)' /\ refused \subseteq refused'
  BY <1>5, <1>8 DEF Trusted
<1> QED BY <1>1, <1>8, <1>9, WalkGoesOnSound DEF w

LEMMA CallbackStopsSound ==
  ASSUME TypeInv, SoundInv, NEW t \in Threads, CallbackStops(t)
  PROVE  SoundInv' /\ Completes
<1> DEFINE w == Top(t)
           v == Stopped(w)
<1>1. /\ AtName(t) /\ CallsBack(t, "STOP") /\ At(t, "walk", "entry")
      /\ GoesOn(t, v) /\ disk' = disk /\ UNCHANGED shared
  BY DEF CallbackStops, Stopped, AtName, InDir
<1>2. w \in Walks /\ Sound(w) /\ Roams(stack[t], w)
  BY <1>1, TopSound
<1>3. w.action # "named" /\ refused' = refused
  BY <1>1 DEF CallsBack, Answers
<1> HIDE DEF w
<1>4. /\ v \in Walks /\ v.action = w.action /\ v.frames = << >> /\ v.pc = "returned" /\ v.save = FALSE
      /\ Sound(v)
  BY <1>2, StoppedGives, StoppedSound DEF SameCall
<1> HIDE DEF v
<1>5. Roams(stack[t], v)
  BY <1>2, <1>4, RoamsOn
<1>6. Accounts(t, w) => Accounts(t, v)
  BY <1>3, <1>4 DEF Accounts, Saves
<1> QED BY <1>1, <1>3, <1>4, <1>5, <1>6, WalkGoesOnSound DEF w

LEMMA OrphanDirOpenedSound ==
  ASSUME TypeInv, SoundInv, NEW t \in Threads, OrphanDirOpened(t)
  PROVE  SoundInv' /\ Completes
<1> DEFINE w == Top(t)
           n == Len(w.frames)
<1>1. /\ At(t, "walk", "opening") /\ disk' = disk /\ UNCHANGED shared /\ UNCHANGED caller
      /\ w \in Walks /\ w.pc = "opening" /\ IsUser(w) /\ n \in Nat \ {0} /\ OrphanDir \in 0..MaxKey
      /\ w.seen # << >>
  BY OrphanDirOpenedGives
<1>2. PICK v \in Walks :
        /\ GoesOn(t, v)
        /\ Resumes(w, v) \/ (orphan_dir # NULL /\ Looks(w, v))
  BY OrphanDirOpenedGives
<1>3. Sound(w) /\ Roams(stack[t], w)
  BY <1>1, TopSound
<1>4. refused' = refused
  BY <1>1 DEF caller
<1> HIDE DEF w
<1>5. Len(w.frames) > 0
  <2> HIDE DEF n
  <2> QED BY <1>1 DEF n
<1>6. Sound(v)
  BY <1>1, <1>2, <1>3, <1>5, ResumesSound, EntersSound
<1>7. v.action = "user" /\ w.action = "user"
  BY <1>1, <1>2 DEF Resumes, Looks, SameCall, IsUser
<1>8. Roams(stack[t], v)
  BY <1>7 DEF Roams
<1>9. ASSUME Blind, Accounts(t, w) PROVE Accounts(t, v)
  <2>1. orphan_dir = NULL
    BY <1>9 DEF Blind, SoundInv
  <2>2. Resumes(w, v) /\ v.pc = "entry" /\ v.save = w.frames[n].bak
    BY <2>1, <1>2 DEF Resumes
  <2>3. v.save => Account(v)
    <3> SUFFICES ASSUME v.save PROVE Account(v)
      OBVIOUS
    <3>1. Account(w)
      BY <2>2, <1>1, <1>9 DEF Accounts, Saves
    <3> QED BY <3>1, <2>2, <1>1, <1>5, AccountResumes
  <2> QED BY <2>2, <2>3, <1>7 DEF Accounts, Saves
<1> QED BY <1>1, <1>2, <1>4, <1>6, <1>7, <1>8, <1>9, WalkGoesOnSound DEF w

LEMMA CheckNamedSound ==
  ASSUME TypeInv, SoundInv, NEW t \in Threads, CheckNamed(t)
  PROVE  SoundInv' /\ Completes
<1> DEFINE w == Top(t)
           save == list_inum_named = Empty /\ w.addr = Root /\ "RECURSE" \in w.flags
           v == Into([w EXCEPT !.save = save])
<1>1. /\ At(t, "walk", "check") /\ GoesOn(t, v) /\ disk' = disk /\ UNCHANGED shared /\ UNCHANGED caller
  BY Zenon DEF CheckNamed
<1>2. /\ w \in Walks /\ WalkOK(image, orphan_dir, w) /\ w.pc = "check" /\ Sound(w) /\ Roams(stack[t], w)
  BY <1>1, TopSound
<1>3. refused' = refused
  BY <1>1 DEF caller
<1>4. w.frames = << >> /\ w.addr \in 0..MaxKey /\ (IsUser(w) \/ w \in NestedWalks)
  <2>1. w \in Jobs /\ w.kind = "walk"
    BY <1>1, TopFacts
  <2>2. IsUser(w) \/ w \in NestedWalks
    BY <2>1, JobKinds DEF IsSearch
  <2>3. w.frames = << >>
    BY <1>2 DEF WalkOK
  <2> QED BY <2>2, <2>3, <1>2, WalkFields
<1> HIDE DEF w
<1>5. save \in BOOLEAN /\ (save <=> list_inum_named = Empty /\ w.addr = Root /\ "RECURSE" \in w.flags)
  OBVIOUS
<1> HIDE DEF save
<1>6. /\ v \in Walks /\ SameCall(w, v) /\ v.save = save /\ v.list = w.list /\ v.seen = w.seen
      /\ w.addr \in Loadable(image) =>
           v.pc = "entry" /\ Len(v.frames) = 1 /\ v.frames[1] = Frame(w.addr)
      /\ w.addr \notin Loadable(image) =>
           v.pc = "returned" /\ v.frames = << >> /\ v.ret = "ERROR"
  BY <1>2, <1>4, <1>5, IntoGives
<1> HIDE DEF v
<1>7. v.action = w.action /\ v.flags = w.flags /\ w.seen = << >> /\ Elements(w.list) \subseteq NamedBy(image)
  BY <1>2, <1>6 DEF SameCall, Sound
<1>8. CASE w.addr \notin Loadable(image)
  <2>1. v.pc = "returned" /\ v.frames = << >> /\ v.ret = "ERROR" /\ Len(v.frames) = 0
    BY <1>6, <1>8, WalkFields
  <2>2. Sound(v)
    BY <2>1, <1>6, <1>7 DEF Sound
  <2>3. Roams(stack[t], v)
    BY <2>1 DEF Roams
  <2>4. Accounts(t, w) => Accounts(t, v)
    BY <2>1, <1>7 DEF Accounts, Saves
  <2> QED BY <2>2, <2>3, <2>4, <1>1, <1>3, <1>6, <1>7, WalkGoesOnSound DEF w
<1>9. CASE w.addr \in Loadable(image)
  <2>1. /\ v.pc = "entry" /\ Len(v.frames) = 1
        /\ v.frames[1].dir = w.addr /\ v.frames[1].i = 1 /\ v.frames[1].bak = FALSE
    BY <1>4, <1>6, <1>9, FrameGives
  <2>2. \A k \in 1..Len(v.frames) : k = 1
    BY <2>1
  <2>3. Sound(v)
    <3>1. Root \in Reached(image, Root, Search)
      BY ReachedGives
    <3>2. ~v.frames[1].bak /\ \A k \in 1..Len(v.frames) : SavesAbove(v, k) => v.save
      BY <2>1, <2>2 DEF SavesAbove
    <3> QED BY <3>1, <3>2, <2>1, <2>2, <1>5, <1>6, <1>7 DEF Sound
  <2>4. Roams(stack[t], v)
    <3> SUFFICES ASSUME v.action = "orphan"
                 PROVE  w.addr \in Reached(image, stack[t][Len(stack[t]) - 1].next, Search)
      BY <2>1, <2>2 DEF Roams
    <3>1. w.addr = stack[t][Len(stack[t]) - 1].next
      BY <1>2, <1>7 DEF Roams
    <3> QED BY <3>1, ReachedGives
  <2>5. ASSUME Blind, Accounts(t, w) PROVE Accounts(t, v)
    <3>1. save => Account(v)
      <4> SUFFICES ASSUME save PROVE Account(v)
        OBVIOUS
      <4>1. w.addr = Root /\ "RECURSE" \in v.flags
        BY <1>5, <1>7
      <4>2. Len(v.seen) = 0
        BY <1>6, <1>7
      <4>3. OnWay(v)
        BY <4>1, <4>2, <2>1 DEF OnWay, Pending
      <4>4. Covers(v, {})
        <5>1. Past(v, 1) = 0
          BY <2>1 DEF Past
        <5>2. \A k \in 1..Len(v.frames) : \A p \in 1..Len(Names(v.frames[k].dir)) : ~(p <= Past(v, k))
          BY <5>1, <2>2
        <5> QED BY <5>2 DEF Covers
      <4> QED BY <4>1, <4>3, <4>4 DEF Account
    <3>2. w.action # "orphan" /\ (w.action = "named" => save)
      <4>1. list_inum_named = Empty
        BY <2>5 DEF Blind, Settled
      <4>2. w.action = "named" => w.addr = Root /\ "RECURSE" \in w.flags
        BY <2>5, <1>2, <1>4 DEF Accounts, NestedWalks, IsUser, Search
      <4> QED BY <4>1, <4>2, <2>5, <1>5 DEF Accounts
    <3> QED BY <3>1, <3>2, <2>1, <1>6, <1>7 DEF Accounts, Saves
  <2> QED BY <2>3, <2>4, <2>5, <1>1, <1>3, <1>6, <1>7, WalkGoesOnSound DEF w
<1> QED BY <1>8, <1>9

-----------------------------------------------------------------------------
(* A walk ends *)

LEMMA EndMovesNow == EndMoves
<1> SUFFICES ASSUME NEW t, NEW s, NEW r, NEW b, NEW c, StackOK(s), s # << >>, ThreadSound(t, s, b),
                    Popped(s, r), IsNested(Last(s)) /\ CanWalk /\ ~Settled => c = "ERROR"
             PROVE  ThreadSound(t, r, c)
  BY Zenon DEF EndMoves
<1> DEFINE n == Len(s)
<1>1. /\ n \in Nat \ {0} /\ Len(r) = n - 1 /\ Last(s) = s[n]
      /\ \A i \in 1..n - 1 : r[i] = s[i]
  BY StackFacts DEF Popped
<1>2. ASSUME NEW i \in 1..n - 1
      PROVE  /\ r[i].kind = "walk" => WalkSound(t, r[i])
             /\ r[i].kind = "search" => SearchSound(r, c, i)
  <2>1. i \in 1..n /\ i < n /\ i + 1 \in 1..n
    <3> HIDE DEF n
    <3> QED BY <1>1
  <2>2. r[i] = s[i]
    BY <1>1
  <2>3. r[i].kind = "walk" => WalkSound(t, r[i])
    BY <2>1, <2>2 DEF ThreadSound
  <2>4. ASSUME r[i].kind = "search" PROVE SearchSound(r, c, i)
    <3>1. IsSearch(s[i]) /\ ~IsUser(s[i])
      BY <2>2, <2>4 DEF IsSearch, IsUser
    <3>2. IsNested(s[i + 1])
      BY <2>1, <3>1 DEF StackOK
    <3>3. i + 1 = n
      BY <2>1, <3>2 DEF StackOK
    <3>4. i = Len(r) /\ ~(i < Len(r))
      <4> HIDE DEF n
      <4> QED BY <3>3, <2>1, <1>1
    <3>5. Knows(s[i])
      BY <2>1, <2>2, <2>4 DEF ThreadSound, SearchSound
    <3> HIDE DEF n
    <3>6. CanWalk /\ ~Settled => c = "ERROR"
      BY <3>2, <3>3, <1>1
    <3> QED BY <3>4, <3>5, <3>6, <2>2 DEF SearchSound
  <2> QED BY <2>3, <2>4
<1> HIDE DEF n
<1> QED BY <1>1, <1>2 DEF ThreadSound

LEMMA EndMovesNext == EndMoves'
BY EndMovesNow, PTL

\* A walk that ends well below a search has made the list known.
LEMMA EndWalkSound ==
  ASSUME TypeInv, SoundInv, NEW t \in Threads, EndWalk(t)
  PROVE  SoundInv' /\ Completes
<1> DEFINE w == Top(t)
<1>1. PICK s, b, c, l : s = stack[t] /\ b = back[t] /\ c = w.ret /\ l = w.list
  OBVIOUS
<1>2. /\ At(t, "walk", "returned") /\ disk' = disk /\ orphan_dir' = orphan_dir /\ UNCHANGED caller
      /\ Returns(t, c)
      /\ IF Keeps(w) THEN SaveInumNamed(l) ELSE UNCHANGED list_inum_named
  BY <1>1 DEF EndWalk
<1>3. /\ s # << >> /\ StackOK(s) /\ w = Last(s) /\ w.kind = "walk" /\ w \in Walks /\ w.pc = "returned"
      /\ s \in Seq(Jobs)
  BY <1>1, <1>2, TopFacts, ThreadFacts
<1>4. ThreadSound(t, s, b)
  BY <1>1 DEF SoundInv
<1>5. WalkSound(t, w)
  BY <1>3, <1>4, TopRoams
<1> HIDE DEF w
<1>6. /\ Elements(l) \subseteq NamedBy(image)
      /\ Blind /\ Trusted(t, w) /\ w.save /\ w.ret = "CONT" => NamedBy(image) \subseteq Elements(l)
      /\ Blind /\ Trusted(t, w) => w.action # "orphan"
      /\ Blind /\ Trusted(t, w) /\ w.action = "named" => (w.save /\ w.ret = "CONT") \/ w.ret = "ERROR"
  BY <1>1, <1>3, <1>5 DEF WalkSound, Sound, Accounts, Blind
<1>7. /\ Keeps(w) /\ list_inum_named = Empty => list_inum_named' = l
      /\ ~Keeps(w) \/ list_inum_named # Empty => list_inum_named' = list_inum_named
  BY <1>2 DEF SaveInumNamed
<1>8. Learns
  BY <1>6, <1>7 DEF Learns
<1>9. image' = image /\ refused' = refused
  BY <1>2 DEF image, caller
<1>10. ThreadSound(t, s, b)'
  BY <1>2, <1>4, <1>8, <1>9, ThreadStays
<1>11. IsNested(Last(s)) /\ CanWalk' /\ ~Settled' => c = "ERROR"
  <2> SUFFICES ASSUME IsNested(Last(s)), CanWalk', ~Settled' PROVE c = "ERROR"
    OBVIOUS
  <2>1. Blind
    BY <1>8, <1>9 DEF Blind, CanWalk, Settled, Learns
  <2>2. w.action # "user" /\ w.action \in {"user", "named", "orphan"}
    BY <1>3, WalkFields DEF IsNested
  <2>3. Trusted(t, w) /\ w.action = "named"
    BY <2>1, <2>2, <1>6 DEF Trusted
  <2>4. ~(w.save /\ w.ret = "CONT")
    <3> SUFFICES ASSUME w.save, w.ret = "CONT" PROVE FALSE
      OBVIOUS
    <3>1. list_inum_named' = l /\ NamedBy(image) \subseteq Elements(l)
      BY <2>1, <2>3, <1>6, <1>7 DEF Keeps, Blind, Settled
    <3>2. l = Empty /\ NamedBy(image) # {}
      BY <3>1, <1>9 DEF Settled
    <3> QED BY <3>1, <3>2, EmptyList
  <2> QED BY <2>1, <2>3, <2>4, <1>1, <1>6
<1>12. PICK r : r = Front(s)
  OBVIOUS
<1>13. Popped(s, r)
  BY <1>3, <1>12, PoppedOK
<1>14. ThreadSound(t, r, c)'
  BY <1>3, <1>10, <1>11, <1>13, EndMovesNext DEF EndMoves
<1>15. stack' = [stack EXCEPT ![t] = r] /\ back' = [back EXCEPT ![t] = c]
  BY <1>1, <1>2, <1>12 DEF Returns
<1>16. SoundInv'
  BY <1>2, <1>8, <1>9, <1>14, <1>15, SoundStep
<1>17. Completes
  <2> SUFFICES ASSUME list_inum_named' # list_inum_named
               PROVE  /\ list_inum_named = Empty /\ Elements(list_inum_named') \subseteq NamedBy(image)
                      /\ refused = {} /\ CanWalk => NamedBy(image) \subseteq Elements(list_inum_named')
    BY DEF Completes
  <2>1. Keeps(w) /\ list_inum_named = Empty /\ list_inum_named' = l
    BY <1>7
  <2>2. ASSUME refused = {}, CanWalk PROVE NamedBy(image) \subseteq Elements(l)
    <3>1. Trusted(t, w)
      BY <2>2 DEF Trusted
    <3>2. CASE Settled
      BY <3>2, <2>1 DEF Settled
    <3>3. CASE ~Settled
      BY <3>1, <3>3, <2>1, <2>2, <1>6 DEF Blind, Keeps
    <3> QED BY <3>2, <3>3
  <2> QED BY <2>1, <2>2, <1>6
<1> QED BY <1>16, <1>17

-----------------------------------------------------------------------------
(* The steps of a search *)

LEMMA SearchIsSound ==
  ASSUME TypeInv, SoundInv, NEW t \in Threads, NEW p, At(t, "search", p)
  PROVE  LET s == stack[t] IN
         /\ StackOK(s) /\ s # << >> /\ s \in Seq(Jobs) /\ IsSearch(Last(s)) /\ Last(s) = Top(t)
         /\ ThreadSound(t, s, back[t]) /\ Knows(Top(t)) /\ Top(t).pc = p
         /\ Blind => p # "metas" /\ (p = "walking" => back[t] = "ERROR")
<1>1. PICK s, b, j : s = stack[t] /\ b = back[t] /\ j = Top(t)
  OBVIOUS
<1>2. /\ StackOK(s) /\ s # << >> /\ s \in Seq(Jobs) /\ IsSearch(Last(s)) /\ Last(s) = j
      /\ ThreadSound(t, s, b) /\ j.pc = p
  <2>1. /\ stack[t] # << >> /\ Top(t) = Last(stack[t]) /\ IsSearch(Last(stack[t]))
        /\ Last(stack[t]).pc = p
    BY SearchTop
  <2>2. StackOK(stack[t]) /\ stack[t] \in Seq(Jobs)
    BY ThreadFacts
  <2>3. ThreadSound(t, stack[t], back[t])
    BY DEF SoundInv
  <2> QED BY <2>1, <2>2, <2>3, <1>1
<1>3. Len(s) \in 1..Len(s) /\ Len(s) \in Nat /\ s[Len(s)] = j
  BY <1>2, StackFacts
<1>4. SearchSound(s, b, Len(s)) /\ ~(Len(s) < Len(s))
  BY <1>2, <1>3 DEF ThreadSound, IsSearch
<1>5. Knows(j)
  BY <1>3, <1>4 DEF SearchSound
<1>6. Blind => p # "metas" /\ (p = "walking" => b = "ERROR")
  BY <1>2, <1>3, <1>4, <1>5 DEF Blind, SearchSound, Knows
<1> QED BY <1>1, <1>2, <1>5, <1>6

LEMMA SearchStepSound ==
  ASSUME TypeInv, SoundInv, NEW t \in Threads, disk' = disk, list_inum_named' = list_inum_named,
         refused' = refused, orphan_dir' = orphan_dir \/ (CanWalk => Settled),
         NEW r, NEW b, stack' = [stack EXCEPT ![t] = r], back' = [back EXCEPT ![t] = b],
         ThreadSound(t, r, b)
  PROVE  SoundInv' /\ Completes
<1>1. Learns /\ Completes
  BY DEF Learns, Completes
<1>2. ThreadSound(t, r, b)'
  BY <1>1, ThreadStays
<1> QED BY <1>1, <1>2, SoundStep

LEMMA SearchReplaced ==
  ASSUME NEW t, NEW s, StackOK(s), s # << >>, NEW b, ThreadSound(t, s, b), IsSearch(Last(s)),
         NEW r, NEW k, Replaced(s, r, k), IsSearch(k), Knows(k), k.pc # "walking"
  PROVE  ThreadSound(t, r, b)
<1> DEFINE n == Len(s)
<1>1. /\ n \in Nat \ {0} /\ Len(r) = n /\ r[n] = k /\ Last(s) = s[n] /\ k.kind = "search"
      /\ \A i \in 1..n - 1 : r[i] = s[i]
  BY StackFacts DEF Replaced, IsSearch
<1>2. ASSUME NEW i \in 1..n, i # n 
      PROVE  r[i].kind # "search" /\ (r[i].kind = "walk" => WalkSound(t, r[i]))
  <2>1. i \in 1..n - 1 /\ i \in DOMAIN s /\ n \in DOMAIN s /\ i < n
    <3>1. DOMAIN s = 1..n
      BY StackFacts, LenProperties
    <3> HIDE DEF n
    <3> QED BY <3>1, <1>1, <1>2
  <2>2. r[i] = s[i]
    BY <2>1, <1>1
  <2>3. s[i].kind # "search"
    <3>1. s[n].kind = "search"
      BY <1>1 DEF IsSearch
    <3> QED BY <3>1, <2>1, <1>2, StackIsShort
  <2>4. s[i].kind = "walk" => WalkSound(t, s[i])
    BY <1>2 DEF ThreadSound
  <2> QED BY <2>2, <2>3, <2>4
<1> HIDE DEF n
<1>3. SearchSound(r, b, n)
  <2>1. ~(n < n)
    BY <1>1
  <2> QED BY <2>1, <1>1 DEF SearchSound
<1> QED BY <1>1, <1>2, <1>3 DEF ThreadSound

\* The search calls a walk from directory a.
LEMMA SearchCalls ==
  ASSUME NEW t, NEW s, StackOK(s), s # << >>, NEW b, ThreadSound(t, s, b), IsSearch(Last(s)),
         NEW q, NEW k, NEW x, Pushed(s, q, k, x), IsSearch(k), Knows(k), k.pc = "walking",
         NEW a, NEW action \in {"named", "orphan"}, WalkGives(a, Search, action), x = Walk(a, Search, action),
         Blind => action = "named", action = "named" => a = Root,
         action = "orphan" => HasDir(k, k.next) /\ a = k.next
  PROVE  ThreadSound(t, q, b)
<1> DEFINE n == Len(s)
<1>1. /\ n \in Nat \ {0} /\ Len(q) = n + 1 /\ q[n] = k /\ q[n + 1] = x /\ Last(s) = s[n]
      /\ k.kind = "search" /\ \A i \in 1..n - 1 : q[i] = s[i]
  BY StackFacts DEF Pushed, IsSearch
<1>2. /\ x \in Walks /\ x.kind = "walk" /\ x.action = action /\ x.addr = a /\ x.frames = << >>
      /\ x.pc = "check" /\ x.save = FALSE /\ x.list = Empty /\ x.seen = << >>
  BY DEF WalkGives
<1>3. Len(x.frames) = 0
  BY <1>2, WalkFields
<1>4. ASSUME NEW i \in 1..n - 1 
      PROVE  q[i].kind # "search" /\ (q[i].kind = "walk" => WalkSound(t, q[i]))
  <2>1. i \in 1..n /\ i \in DOMAIN s /\ n \in DOMAIN s /\ i # n
    <3>1. DOMAIN s = 1..n
      BY StackFacts, LenProperties
    <3> HIDE DEF n
    <3> QED BY <3>1, <1>1
  <2>2. q[i] = s[i]
    BY <1>1
  <2>3. s[i].kind # "search"
    <3>1. s[n].kind = "search"
      BY <1>1 DEF IsSearch
    <3> QED BY <3>1, <2>1, StackIsShort
  <2>4. s[i].kind = "walk" => WalkSound(t, s[i])
    BY <2>1 DEF ThreadSound
  <2> QED BY <2>2, <2>3, <2>4
<1> HIDE DEF n
<1>5. WalkSound(t, x)
  <2>1. Sound(x)
    BY <1>2, <1>3, EmptyList DEF Sound
  <2>2. CanWalk /\ ~Settled => Accounts(t, x)
    BY <1>2 DEF Accounts, Saves, Blind
  <2> QED BY <2>1, <2>2 DEF WalkSound
<1>6. SearchSound(q, b, n)
  <2>1. n < Len(q) /\ n + 1 \in 1..n + 1
    BY <1>1
  <2>2. CanWalk /\ ~Settled => q[n + 1].action = "named"
    BY <1>1, <1>2 DEF Blind
  <2>3. q[n + 1].action = "orphan" =>
          LET w == q[n + 1] IN
          /\ HasDir(q[n], q[n].next)
          /\ w.pc = "check" => w.addr = q[n].next
          /\ \A m \in 1..Len(w.frames) : w.frames[m].dir \in Reached(image, q[n].next, Search)
    BY <1>1, <1>2, <1>3
  <2> QED BY <2>1, <2>2, <2>3, <1>1 DEF SearchSound
<1>7. \A i \in 1..n + 1 : i \in 1..n - 1 \/ i = n \/ i = n + 1
  BY <1>1
<1> QED BY <1>1, <1>2, <1>4, <1>5, <1>6, <1>7 DEF ThreadSound

LEMMA SearchGoesOnSound ==
  ASSUME TypeInv, SoundInv, NEW t \in Threads, NEW p, At(t, "search", p), disk' = disk,
         list_inum_named' = list_inum_named, orphan_dir' = orphan_dir, refused' = refused,
         NEW k, GoesOn(t, k), IsSearch(k), Knows(k), k.pc # "walking"
  PROVE  SoundInv' /\ Completes
<1>1. PICK s, b : s = stack[t] /\ b = back[t]
  OBVIOUS
<1>2. StackOK(s) /\ s # << >> /\ s \in Seq(Jobs) /\ IsSearch(Last(s)) /\ ThreadSound(t, s, b)
  BY <1>1, SearchIsSound
<1>3. PICK r : r = Append(Front(s), k)
  OBVIOUS
<1>4. Replaced(s, r, k)
  BY <1>2, <1>3, FrontGives
<1>5. ThreadSound(t, r, b)
  BY <1>2, <1>4, SearchReplaced
<1>6. stack' = [stack EXCEPT ![t] = r] /\ back' = [back EXCEPT ![t] = b]
  BY <1>1, <1>3, ThreadFacts DEF GoesOn
<1> QED BY <1>5, <1>6, SearchStepSound

LEMMA SearchStartsSound ==
  ASSUME TypeInv, SoundInv, NEW t \in Threads, NEW p, At(t, "search", p), disk' = disk,
         list_inum_named' = list_inum_named, orphan_dir' = orphan_dir, refused' = refused,
         NEW k, IsSearch(k), Knows(k), k.pc = "walking",
         NEW a \in 0..MaxKey, NEW action \in {"named", "orphan"}, Starts(t, k, Walk(a, Search, action)),
         Blind => action = "named", action = "named" => a = Root,
         action = "orphan" => HasDir(k, k.next) /\ a = k.next
  PROVE  SoundInv' /\ Completes
<1>1. PICK s, b, x : s = stack[t] /\ b = back[t] /\ x = Walk(a, Search, action)
  OBVIOUS
<1>2. StackOK(s) /\ s # << >> /\ s \in Seq(Jobs) /\ IsSearch(Last(s)) /\ ThreadSound(t, s, b)
  BY <1>1, SearchIsSound
<1>3. PICK q : q = Front(s) \o <<k, x>>
  OBVIOUS
<1>4. Pushed(s, q, k, x)
  BY <1>2, <1>3, FrontCalls
<1>5. WalkGives(a, Search, action)
  <2>1. Search \in AnyFlags
    BY DEF Search, AnyFlags
  <2> QED BY <2>1, NewWalk
<1>6. ThreadSound(t, q, b)
  BY <1>1, <1>2, <1>4, <1>5, SearchCalls
<1>7. stack' = [stack EXCEPT ![t] = q] /\ back' = [back EXCEPT ![t] = b]
  BY <1>1, <1>3, ThreadFacts DEF Starts
<1> QED BY <1>6, <1>7, SearchStepSound

LEMMA SearchReturnsSound ==
  ASSUME TypeInv, SoundInv, NEW t \in Threads, NEW p, At(t, "search", p), disk' = disk,
         list_inum_named' = list_inum_named, refused' = refused,
         orphan_dir' = orphan_dir \/ (CanWalk => Settled), NEW c, Returns(t, c)
  PROVE  SoundInv' /\ Completes
<1>1. PICK s, b, r : s = stack[t] /\ b = back[t] /\ r = Front(s)
  OBVIOUS
<1>2. StackOK(s) /\ s # << >> /\ s \in Seq(Jobs) /\ IsSearch(Last(s)) /\ ThreadSound(t, s, b)
  BY <1>1, SearchIsSound
<1>3. Popped(s, r) /\ ~IsNested(Last(s))
  BY <1>1, <1>2, PoppedOK DEF IsSearch, IsNested
<1>4. ThreadSound(t, r, c)
  BY <1>2, <1>3, EndMovesNow DEF EndMoves
<1>5. stack' = [stack EXCEPT ![t] = r] /\ back' = [back EXCEPT ![t] = c]
  BY <1>1 DEF Returns
<1> QED BY <1>4, <1>5, SearchStepSound

-----------------------------------------------------------------------------
(* What a search knows *)

LEMMA SameKnows ==
  ASSUME NEW j, Knows(j), NEW k, k.names = j.names, k.subdirs = j.subdirs, k.next = j.next,
         Blind => k.pc # "metas"
  PROVE  Knows(k)
<1>1. \A o : HasDir(k, o) = HasDir(j, o)
  BY DEF HasDir
<1> QED BY <1>1 DEF Knows, Blind

\* The search has come to file a.
LEMMA KnowsNext ==
  ASSUME NEW j, Knows(j), ~Blind, j.names \in Seq(0..MaxKey), j.next \in Int,
         NEW a \in Deleted(image), Deleted(image) \subseteq 0..MaxKey, a > j.next,
         \A d \in Deleted(image) : d <= a => d <= j.next \/ d = a,
         NEW k, k.subdirs = j.subdirs, k.next = a,
         \/ k.names = j.names /\ (a \in Elements(list_inum_named) \/ a \in Elements(j.subdirs))
         \/ k.names = Append(j.names, a) /\ a \notin Elements(list_inum_named)
  PROVE  Knows(k)
<1> DEFINE n == Len(j.names)
<1>1. n \in Nat /\ \A i \in 1..n : j.names[i] \in 0..MaxKey /\ j.names[i] <= j.next
  <2>1. n \in Nat /\ \A i \in 1..n : j.names[i] \in 0..MaxKey
    BY ElementOfSeq, LenProperties
  <2>2. \A i \in 1..n : j.names[i] <= j.next
    BY DEF Knows
  <2> QED BY <2>1, <2>2
<1>2. a \in Int
  OBVIOUS
<1>3. CASE k.names = j.names /\ (a \in Elements(list_inum_named) \/ a \in Elements(j.subdirs))
  <2>1. \A o : HasDir(k, o) = HasDir(j, o)
    BY <1>3 DEF HasDir
  <2>2. \A i \in 1..Len(k.names) : k.names[i] <= k.next
    <3> HIDE DEF n
    <3> QED BY <1>1, <1>2, <1>3 DEF n
  <2>3. \A d \in Deleted(image) : d <= k.next =>
          \/ d \in Elements(list_inum_named)
          \/ \E i \in 1..Len(k.names) : k.names[i] = d
          \/ d \in Elements(k.subdirs)
    BY <1>3 DEF Knows
  <2> QED BY <1>3, <2>1, <2>2, <2>3 DEF Knows, Blind
<1>4. CASE k.names = Append(j.names, a) /\ a \notin Elements(list_inum_named)
  <2>1. /\ Len(k.names) = n + 1 /\ k.names[n + 1] = a
        /\ \A i \in 1..n : k.names[i] = j.names[i]
    BY <1>4, AppendProperties
  <2> HIDE DEF n
  <2>2. \A i \in 1..n + 1 : i \in 1..n \/ i = n + 1
    BY <1>1
  <2>3. \A i \in 1..n : i \in 1..n + 1 /\ j.names[i] # a /\ j.names[i] <= a
    BY <1>1, <1>2
  <2>4. n + 1 \in 1..n + 1
    BY <1>1
  <2>5. \A o : HasDir(j, o) => HasDir(k, o)
    BY <2>1, <2>3 DEF HasDir, n
  <2>6. \A i, m \in 1..Len(k.names) : k.names[i] = k.names[m] => i = m
    <3>1. \A i, m \in 1..n : j.names[i] = j.names[m] => i = m
      BY DEF Knows, n
    <3> QED BY <3>1, <2>1, <2>2, <2>3
  <2>7. \A i \in 1..Len(k.names) : k.names[i] <= k.next
    BY <2>1, <2>2, <2>3, <1>2
  <2>8. \A d \in Deleted(image) : d <= k.next =>
          \/ d \in Elements(list_inum_named)
          \/ \E i \in 1..Len(k.names) : k.names[i] = d
          \/ d \in Elements(k.subdirs)
    <3> SUFFICES ASSUME NEW d \in Deleted(image), d <= a
                 PROVE  \/ d \in Elements(list_inum_named)
                        \/ \E i \in 1..Len(k.names) : k.names[i] = d
                        \/ d \in Elements(k.subdirs)
      OBVIOUS
    <3>1. CASE d = a
      BY <3>1, <2>1, <2>4
    <3>2. CASE d <= j.next
      <4>1. \/ d \in Elements(list_inum_named)
            \/ \E i \in 1..n : j.names[i] = d
            \/ d \in Elements(j.subdirs)
        BY <3>2 DEF Knows, n
      <4> QED BY <4>1, <2>1, <2>3
    <3> QED BY <3>1, <3>2
  <2>9. \A d \in Elements(k.subdirs) : \E o \in Deleted(image) : HasDir(k, o) /\ d \in Inside(o)
    BY <2>5 DEF Knows
  <2>10. CanWalk => \A i \in 1..Len(k.names) : k.names[i] \notin Elements(list_inum_named)
    <3>1. CanWalk => \A i \in 1..n : j.names[i] \notin Elements(list_inum_named)
      BY DEF Knows, n
    <3> QED BY <3>1, <2>1, <2>2, <1>4
  <2> QED BY <2>6, <2>7, <2>8, <2>9, <2>10 DEF Knows, Blind
<1> QED BY <1>3, <1>4

LEMMA TakeOrphanLockSound ==
  ASSUME TypeInv, SoundInv, NEW t \in Threads, TakeOrphanLock(t)
  PROVE  SoundInv' /\ Completes
<1>1. /\ At(t, "search", "lock") /\ disk' = disk /\ refused' = refused
      /\ list_inum_named' = list_inum_named /\ orphan_dir' = orphan_dir
  BY DEF TakeOrphanLock, caller
<1>2. CASE orphan_dir # NULL
  <2>1. Returns(t, "CONT")
    BY <1>2 DEF TakeOrphanLock
  <2> QED BY <2>1, <1>1, SearchReturnsSound
<1>3. CASE orphan_dir = NULL
  <2> DEFINE k == [Top(t) EXCEPT !.pc = "load"]
  <2>1. GoesOn(t, k)
    BY <1>3 DEF TakeOrphanLock
  <2>2. /\ IsSearch(k) /\ k.pc = "load" /\ k.names = Top(t).names /\ k.subdirs = Top(t).subdirs
        /\ k.next = Top(t).next
    BY <1>1, SearchMoves
  <2> HIDE DEF k
  <2>3. Knows(k)
    BY <2>2, <1>1, SearchIsSound, SameKnows
  <2> QED BY <2>1, <2>2, <2>3, <1>1, SearchGoesOnSound
<1> QED BY <1>2, <1>3

LEMMA LoadInumNamedSound ==
  ASSUME TypeInv, SoundInv, NEW t \in Threads, LoadInumNamed(t)
  PROVE  SoundInv' /\ Completes
<1>1. /\ At(t, "search", "load") /\ disk' = disk /\ refused' = refused
      /\ list_inum_named' = list_inum_named /\ orphan_dir' = orphan_dir
  BY DEF LoadInumNamed, caller, shared
<1>2. CASE list_inum_named # Empty
  <2> DEFINE k == [Top(t) EXCEPT !.pc = "metas"]
  <2>1. GoesOn(t, k)
    BY <1>2 DEF LoadInumNamed
  <2>2. /\ IsSearch(k) /\ k.pc = "metas" /\ k.names = Top(t).names /\ k.subdirs = Top(t).subdirs
        /\ k.next = Top(t).next
    BY <1>1, SearchMoves
  <2> HIDE DEF k
  <2>3. ~Blind
    BY <1>2 DEF Blind, Settled
  <2>4. Knows(k)
    BY <2>2, <2>3, <1>1, SearchIsSound, SameKnows
  <2> QED BY <2>1, <2>2, <2>4, <1>1, SearchGoesOnSound
<1>3. CASE list_inum_named = Empty
  <2> DEFINE k == [Top(t) EXCEPT !.pc = "walking"]
  <2>1. Starts(t, k, Walk(Root, Search, "named"))
    BY <1>3 DEF LoadInumNamed
  <2>2. /\ IsSearch(k) /\ k.pc = "walking" /\ k.names = Top(t).names /\ k.subdirs = Top(t).subdirs
        /\ k.next = Top(t).next
    BY <1>1, SearchMoves
  <2> HIDE DEF k
  <2>3. Knows(k)
    BY <2>2, <1>1, SearchIsSound, SameKnows
  <2>4. Root \in 0..MaxKey
    BY ImagesAssumption
  <2> QED BY <2>1, <2>2, <2>3, <2>4, <1>1, SearchStartsSound
<1> QED BY <1>2, <1>3

LEMMA SearchFailsSound ==
  ASSUME TypeInv, SoundInv, NEW t \in Threads, NEW p, At(t, "search", p), SearchFails(t)
  PROVE  SoundInv' /\ Completes
<1>1. /\ Returns(t, "ERROR") /\ disk' = disk /\ refused' = refused
      /\ list_inum_named' = list_inum_named /\ orphan_dir' = orphan_dir
  BY DEF SearchFails, caller
<1> QED BY <1>1, SearchReturnsSound

LEMMA WalkedSound ==
  ASSUME TypeInv, SoundInv, NEW t \in Threads, Walked(t)
  PROVE  SoundInv' /\ Completes
<1>1. At(t, "search", "walking")
  BY DEF Walked
<1>2. CASE back[t] = "ERROR"
  <2>1. SearchFails(t)
    BY <1>2 DEF Walked
  <2> QED BY <2>1, <1>1, SearchFailsSound
<1>3. CASE back[t] # "ERROR"
  <2> DEFINE k == [Top(t) EXCEPT !.pc = "metas"]
  <2>1. /\ GoesOn(t, k) /\ disk' = disk /\ refused' = refused
        /\ list_inum_named' = list_inum_named /\ orphan_dir' = orphan_dir
    BY <1>3 DEF Walked, caller, shared
  <2>2. /\ IsSearch(k) /\ k.pc = "metas" /\ k.names = Top(t).names /\ k.subdirs = Top(t).subdirs
        /\ k.next = Top(t).next
    BY <1>1, SearchMoves
  <2> HIDE DEF k
  <2>3. ~Blind /\ Knows(Top(t))
    BY <1>1, <1>3, SearchIsSound
  <2>4. Knows(k)
    BY <2>2, <2>3, SameKnows
  <2> QED BY <2>1, <2>2, <2>4, <1>1, SearchGoesOnSound
<1> QED BY <1>2, <1>3

LEMMA MetaWalkFailsSound ==
  ASSUME TypeInv, SoundInv, NEW t \in Threads, MetaWalkFails(t)
  PROVE  SoundInv' /\ Completes
<1>1. At(t, "search", "metas") /\ SearchFails(t)
  BY DEF MetaWalkFails
<1> QED BY <1>1, SearchFailsSound

LEMMA FindOrphanSound ==
  ASSUME TypeInv, SoundInv, NEW t \in Threads, FindOrphan(t)
  PROVE  SoundInv' /\ Completes
<1>1. PICK j, a : j = Top(t) /\ a = Min(Ahead(t))
  OBVIOUS
<1>2. /\ At(t, "search", "metas") /\ a \in Ahead(t) /\ a \in Deleted(image) /\ \A b \in Ahead(t) : a <= b
      /\ disk' = disk /\ refused' = refused /\ list_inum_named' = list_inum_named
      /\ orphan_dir' = orphan_dir
      /\ \/ IsKnown(j, a) /\ GoesOn(t, Passing(j, a))
         \/ ~IsKnown(j, a) /\ ~image.meta[a].dir /\ GoesOn(t, Listing(j, a))
         \/ /\ ~IsKnown(j, a) /\ image.meta[a].dir
            /\ Starts(t, [Listing(j, a) EXCEPT !.pc = "walking"], Walk(a, Search, "orphan"))
  BY <1>1, FindOrphanGives DEF shared, caller
<1>3. /\ j \in Searches /\ j.names \in Seq(0..MaxKey) /\ j.names \in Seq(Deleted(image))
      /\ j.subdirs \in Lists /\ j.next \in Int /\ j.pc = "metas"
  <2>1. /\ Top(t) \in Searches /\ Top(t).names \in Seq(0..MaxKey)
        /\ Top(t).names \in Seq(Deleted(image)) /\ Top(t).subdirs \in Lists
        /\ Top(t).next \in Int /\ Top(t).pc = "metas"
    <3>1. /\ Top(t) \in Searches /\ Top(t).pc = "metas"
          /\ SearchOK(image, orphan_dir, orphan_dir_lock, t, Top(t))
      BY <1>2, TopFacts
    <3> QED BY <3>1 DEF SearchOK, Searches
  <2> QED BY <1>1, <2>1
<1>4. Knows(j) /\ ~Blind
  BY <1>1, <1>2, SearchIsSound
<1>5. /\ disk \in DOMAIN Images /\ list_inum_named \in Lists /\ Deleted(image) \subseteq 0..MaxKey
      /\ a \in 0..MaxKey /\ a \in Int
  BY <1>2, ThreadFacts, ImageFacts DEF SharedOK
<1>6. a > j.next /\ \A d \in Deleted(image) : d <= a => d <= j.next \/ d = a
  <2>1. Ahead(t) = {d \in Deleted(image) : d > j.next}
    BY <1>1 DEF Ahead
  <2> QED BY <2>1, <1>2, <1>3, <1>5
<1>7. IsKnown(j, a) <=> a \in Elements(list_inum_named) \/ a \in Elements(j.subdirs)
  BY <1>3, <1>5, FindIsMember DEF IsKnown
<1>8. PICK k, l : k = Passing(j, a) /\ l = Listing(j, a)
  OBVIOUS
<1>9. /\ k \in Searches /\ k.pc = "metas" /\ k.next = a /\ k.names = j.names /\ k.subdirs = j.subdirs
      /\ l \in Searches /\ l.pc = "metas" /\ l.next = a /\ l.names = Append(j.names, a)
      /\ l.subdirs = j.subdirs
  BY <1>2, <1>3, <1>5, <1>8, ListingGives
<1>10. IsSearch(k) /\ IsSearch(l)
  BY <1>9 DEF Searches, IsSearch
<1>11. IsKnown(j, a) => Knows(k)
  BY <1>2, <1>3, <1>4, <1>5, <1>6, <1>7, <1>9, KnowsNext
<1>12. ~IsKnown(j, a) => Knows(l)
  BY <1>2, <1>3, <1>4, <1>5, <1>6, <1>7, <1>9, KnowsNext
<1>13. CASE IsKnown(j, a) /\ GoesOn(t, k)
  BY <1>2, <1>9, <1>10, <1>11, <1>13, SearchGoesOnSound
<1>14. CASE ~IsKnown(j, a) /\ GoesOn(t, l)
  BY <1>2, <1>9, <1>10, <1>12, <1>14, SearchGoesOnSound
<1>15. CASE /\ ~IsKnown(j, a) /\ image.meta[a].dir
            /\ Starts(t, [l EXCEPT !.pc = "walking"], Walk(a, Search, "orphan"))
  <2>1. PICK m : m = [l EXCEPT !.pc = "walking"]
    OBVIOUS
  <2>2. /\ m \in Searches /\ m.pc = "walking" /\ m.names = l.names /\ m.subdirs = l.subdirs
        /\ m.next = a
    BY <2>1, <1>9 DEF Searches
  <2>3. IsSearch(m)
    BY <2>2 DEF Searches, IsSearch
  <2>4. Knows(m)
    BY <2>2, <1>9, <1>12, <1>15, SameKnows
  <2>5. HasDir(m, a)
    <3>1. Len(m.names) \in 1..Len(m.names) /\ m.names[Len(m.names)] = a
      BY <2>2, <1>3, <1>5, <1>9, AppendProperties
    <3> QED BY <3>1, <1>2, <1>15 DEF HasDir
  <2> QED BY <2>1, <2>2, <2>3, <2>4, <2>5, <1>2, <1>4, <1>5, <1>15, SearchStartsSound
<1> QED BY <1>2, <1>8, <1>13, <1>14, <1>15

-----------------------------------------------------------------------------
(* The orphan directory is made *)

LEMMA SearchEndsSound ==
  ASSUME TypeInv, SoundInv, NEW t \in Threads, SearchEnds(t)
  PROVE  SoundInv' /\ Completes /\ Orphans!FindOrphans
<1>1. PICK j, s : j = Top(t) /\ s = DeDuped(j.names, j.subdirs)
  OBVIOUS
<1>2. /\ At(t, "search", "metas") /\ disk' = disk /\ refused' = refused /\ Ahead(t) = {}
      /\ list_inum_named' = list_inum_named /\ orphan_dir' = s /\ Returns(t, "CONT")
  BY <1>1 DEF SearchEnds, caller
<1>3. /\ j.names \in Seq(Deleted(image)) /\ j.subdirs \in Lists /\ j.next \in Int /\ orphan_dir = NULL
  <2>1. /\ Top(t).names \in Seq(Deleted(image)) /\ Top(t).subdirs \in Lists
        /\ Top(t).next \in Int /\ orphan_dir = NULL
    <3>1. At(t, "search", "metas")
      BY <1>2
    <3>2. /\ Top(t).names \in Seq(Deleted(image)) /\ Top(t).subdirs \in Lists
          /\ Top(t).next \in Int
      BY <3>1, SearchMoves
    <3>3. orphan_dir = NULL
      <4>1. SearchOK(image, orphan_dir, orphan_dir_lock, t, Top(t)) /\ Top(t).pc = "metas"
        BY <3>1, TopFacts
      <4> QED BY <4>1 DEF SearchOK
    <3> QED BY <3>2, <3>3
  <2> QED BY <1>1, <2>1
<1>4. Knows(j) /\ ~Blind
  BY <1>1, <1>2, SearchIsSound
<1>5. SoundInv' /\ Completes
  <2>1. CanWalk => Settled
    BY <1>4 DEF Blind
  <2> QED BY <2>1, <1>2, SearchReturnsSound
<1>6. disk \in DOMAIN Images /\ Deleted(image) \subseteq 0..MaxKey
  BY ImageFacts, ThreadFacts
<1>7. s \in Seq(Deleted(image)) /\ Thinned(j.names, j.subdirs, s)
  <2>1. Deleted(image) \subseteq Int
    BY <1>6
  <2> QED BY <2>1, <1>1, <1>3, DeDupedGives
<1>8. s # NULL
  <2>1. s \in Seq(0..MaxKey)
    BY <1>6, <1>7, SeqMonotonic
  <2> QED BY <2>1, CallsAssumption
<1>9. /\ DOMAIN s = 1..Len(s) /\ Orphans!ToSet(s) = {s[i] : i \in 1..Len(s)}
      /\ \A i \in 1..Len(s) : s[i] \in Deleted(image)
  BY <1>7, LenProperties, ElementOfSeq DEF Orphans!ToSet
<1>10. CanWalk => Orphans!ToSet(s) \intersect Elements(list_inum_named) = {}
  <2> SUFFICES ASSUME CanWalk, NEW i \in 1..Len(s) PROVE s[i] \notin Elements(list_inum_named)
    BY <1>9
  <2>1. PICK k \in 1..Len(j.names) : j.names[k] = s[i]
    BY <1>7 DEF Thinned, Has
  <2> QED BY <2>1, <1>4 DEF Knows
<1>11. \A i, k \in DOMAIN s : s[i] = s[k] => i = k
  <2>1. Distinct(j.names)
    BY <1>4 DEF Knows, Distinct
  <2> QED BY <2>1, <1>7, <1>9 DEF Thinned, Distinct
<1>12. ASSUME NamesFit, ~Cyclic, NEW a \in Deleted(image) \ Elements(list_inum_named)
       PROVE  \E o \in Orphans!ToSet(s) : a = o \/ a \in Inside(o)
  <2>1. a <= j.next
    <3>1. a \notin Ahead(t)
      BY <1>2
    <3>2. ~(a > j.next)
      BY <3>1, <1>1 DEF Ahead
    <3> QED BY <3>2, <1>3, <1>6
  <2>2. PICK i \in 1..Len(s) : a = s[i] \/ a \in Inside(s[i])
    BY <2>1, <1>4, <1>6, <1>7, <1>12, NoneIsLost
  <2> QED BY <2>2, <1>9
<1>13. Orphans!FindOrphans
  <2>1. /\ orphan_dir = NULL /\ orphan_dir' # NULL /\ Orphans!ToSet(orphan_dir') \subseteq Orphans!Deleted(image)
        /\ Elements(list_inum_named)' = Elements(list_inum_named)
    BY <1>2, <1>3, <1>8, <1>9, SameTree
  <2>2. Orphans!Walkable => Orphans!ToSet(orphan_dir') \intersect Elements(list_inum_named) = {}
    BY <1>2, <1>10, SameTree
  <2>3. Orphans!NamesFit /\ ~Orphans!Cyclic =>
          \A a \in Orphans!Deleted(image) \ Elements(list_inum_named) :
            \E o \in Orphans!ToSet(orphan_dir') : a = o \/ a \in Orphans!Inside(o)
    BY <1>2, <1>12, SameTree
  <2> QED BY <2>1, <2>2, <2>3, <1>2, <1>11 DEF Orphans!FindOrphans
<1> QED BY <1>5, <1>13

-----------------------------------------------------------------------------
(* The calls, and all steps *)

\* A call begins with a walk that has seen nothing, or with a search.
LEMMA NewCallSound ==
  ASSUME TypeInv, SoundInv, NEW t \in Threads, NEW flags, NewCall(t, flags), NEW j,
         stack' = [stack EXCEPT ![t] = <<j>>],
         \/ /\ j \in Walks /\ j.action = "user" /\ j.pc = "check" /\ j.frames = << >>
            /\ j.save = FALSE /\ j.list = Empty /\ j.seen = << >>
         \/ IsNewSearch(j)
  PROVE  SoundInv' /\ Completes
<1>1. /\ disk' = disk /\ list_inum_named' = list_inum_named /\ orphan_dir' = orphan_dir
      /\ back' = back /\ refused' = refused \ {t} /\ disk \in DOMAIN Images
  BY ThreadFacts DEF NewCall, shared
<1>2. PICK b : b = back[t] /\ back' = [back EXCEPT ![t] = b]
  BY <1>1, ThreadFacts
<1>3. PICK r : r = <<j>>
  OBVIOUS
<1>4. Len(r) = 1 /\ r[1] = j
  BY <1>3
<1>5. ASSUME j \in Walks, j.action = "user", j.pc = "check", j.frames = << >>, j.save = FALSE,
             j.list = Empty, j.seen = << >>
      PROVE  ThreadSound(t, r, b)'
  <2>1. j.kind = "walk" /\ Len(j.frames) = 0
    BY <1>5, WalkFields
  <2>2. Sound(j)'
    BY <1>5, <2>1, EmptyList DEF Sound
  <2>3. Accounts(t, j)'
    BY <1>5 DEF Accounts, Saves
  <2>4. WalkSound(t, j)'
    BY <2>2, <2>3 DEF WalkSound
  <2> QED BY <2>1, <2>4, <1>4 DEF ThreadSound
<1>6. ASSUME IsNewSearch(j) PROVE ThreadSound(t, r, b)'
  <2>1. NewSearchKnows'
    BY NewSearchKnowsNow, PTL
  <2>2. Knows(j)'
    BY <2>1, <1>1, <1>6 DEF NewSearchKnows
  <2>3. j.kind = "search" /\ j.pc = "lock"
    BY <1>6 DEF IsNewSearch
  <2>4. SearchSound(r, b, 1)'
    BY <2>2, <2>3, <1>4 DEF SearchSound
  <2> QED BY <2>3, <2>4, <1>4 DEF ThreadSound
<1>7. ThreadSound(t, r, b)'
  BY <1>5, <1>6
<1>8. Learns /\ Completes
  BY <1>1 DEF Learns, Completes
<1>9. \A u \in Threads \ {t} : u \in refused => u \in refused'
  BY <1>1
<1>10. stack' = [stack EXCEPT ![t] = r]
  BY <1>3
<1> QED BY <1>1, <1>2, <1>7, <1>8, <1>9, <1>10, SoundStep

LEMMA WalkDirectoriesSound ==
  ASSUME TypeInv, SoundInv, NEW t \in Threads, NEW flags \in WalkFlags, WalkDirectories(t, flags)
  PROVE  SoundInv' /\ Completes
<1>1. PICK w : w = Walk(Root, flags, "user")
  OBVIOUS
<1>2. Root \in 0..MaxKey /\ flags \in AnyFlags
  BY ImagesAssumption, CallsAssumption DEF AnyFlags
<1>3. WalkGives(Root, flags, "user")
  BY <1>2, NewWalk
<1>4. /\ w \in Walks /\ w.action = "user" /\ w.pc = "check" /\ w.frames = << >>
      /\ w.save = FALSE /\ w.list = Empty /\ w.seen = << >>
  BY <1>1, <1>3 DEF WalkGives
<1>5. NewCall(t, flags) /\ stack' = [stack EXCEPT ![t] = <<w>>]
  BY <1>1 DEF WalkDirectories
<1> QED BY <1>4, <1>5, NewCallSound

LEMMA OpenOrphanDirSound ==
  ASSUME TypeInv, SoundInv, NEW t \in Threads, OpenOrphanDir(t)
  PROVE  SoundInv' /\ Completes
<1>1. PICK j : j = SearchAfter(-1)
  OBVIOUS
<1>2. IsNewSearch(j)
  <2>1. j.kind = "search" /\ j.pc = "lock" /\ j.names = << >> /\ j.subdirs = Empty /\ j.next = -1
    BY <1>1, SearchAfterGives DEF IsSearch
  <2> QED BY <2>1, EmptyList DEF IsNewSearch
<1>3. NewCall(t, NoWalk) /\ stack' = [stack EXCEPT ![t] = <<j>>]
  BY <1>1 DEF OpenOrphanDir
<1> QED BY <1>2, <1>3, NewCallSound

LEMMA InitSound == Init => SoundInv
<1> SUFFICES ASSUME Init PROVE SoundInv
  OBVIOUS
<1>1. list_inum_named = Empty /\ orphan_dir = NULL
  BY DEF Init
<1>2. ASSUME NEW t \in Threads PROVE ThreadSound(t, stack[t], back[t])
  <2>1. stack[t] = << >>
    BY DEF Init
  <2>2. Len(stack[t]) = 0
    BY <2>1
  <2> QED BY <2>2 DEF ThreadSound
<1> QED BY <1>1, <1>2, EmptyList DEF SoundInv

LEMMA LearnsRefines ==
  ASSUME disk' = disk, orphan_dir' = orphan_dir, Completes
  PROVE  Refines
<1>1. image' = image
  BY DEF image
<1>2. CASE list_inum_named' = list_inum_named
  BY <1>2 DEF Refines
<1>3. CASE list_inum_named' # list_inum_named
  <2>1. /\ Elements(list_inum_named) = {} /\ Elements(list_inum_named') \subseteq NamedBy(image)
        /\ refused = {} /\ CanWalk => NamedBy(image) \subseteq Elements(list_inum_named')
    BY <1>3, EmptyList DEF Completes
  <2>2. Orphans!LearnNames
    BY <2>1, SameTree DEF Orphans!LearnNames
  <2> QED BY <1>1, <2>2 DEF Refines, Orphans!Next
<1> QED BY <1>2, <1>3

LEMMA StepSound ==
  ASSUME TypeInv, SoundInv, NEW t \in Threads, Step(t)
  PROVE  SoundInv' /\ Refines
<1>1. CASE SearchEnds(t)
  <2>1. SoundInv' /\ Orphans!FindOrphans /\ disk' = disk
    BY <1>1, SearchEndsSound DEF SearchEnds
  <2>2. image' = image
    BY <2>1 DEF image
  <2> QED BY <2>1, <2>2 DEF Refines, Orphans!Next
<1>2. CASE ~SearchEnds(t)
  <2>1. \/ CheckNamed(t) \/ OrphanDirOpened(t) \/ CallbackStops(t) \/ CallbackFails(t)
        \/ VisitName(t) \/ DirEnds(t) \/ EndWalk(t)
        \/ TakeOrphanLock(t) \/ LoadInumNamed(t) \/ Walked(t) \/ MetaWalkFails(t)
        \/ FindOrphan(t)
    BY <1>2, Zenon DEF Step
  <2>2. SoundInv' /\ Completes
    BY <2>1, CheckNamedSound, OrphanDirOpenedSound, CallbackStopsSound, CallbackFailsSound,
       VisitNameSound, DirEndsSound, EndWalkSound, TakeOrphanLockSound, LoadInumNamedSound,
       WalkedSound, MetaWalkFailsSound, FindOrphanSound
  <2>3. disk' = disk /\ orphan_dir' = orphan_dir
    BY <2>1, VisitGives DEF CheckNamed, OrphanDirOpened, CallbackStops, CallbackFails, DirEnds, EndWalk,
       TakeOrphanLock, LoadInumNamed, Walked, MetaWalkFails, SearchFails, FindOrphan, shared
  <2> QED BY <2>2, <2>3, LearnsRefines
<1> QED BY <1>1, <1>2

LEMMA NextSound == TypeInv /\ SoundInv /\ [Next]_vars => SoundInv' /\ Refines
<1> SUFFICES ASSUME TypeInv, SoundInv, [Next]_vars PROVE SoundInv' /\ Refines
  OBVIOUS
<1>1. CASE Next
  <2>1. PICK t \in Threads :
          (\E flags \in WalkFlags : WalkDirectories(t, flags)) \/ OpenOrphanDir(t) \/ Step(t)
    BY <1>1, Zenon DEF Next
  <2>2. CASE Step(t)
    BY <2>2, StepSound
  <2>3. CASE (\E flags \in WalkFlags : WalkDirectories(t, flags)) \/ OpenOrphanDir(t)
    <3>1. SoundInv' /\ Completes
      BY <2>3, WalkDirectoriesSound, OpenOrphanDirSound
    <3>2. disk' = disk /\ orphan_dir' = orphan_dir
      BY <2>3 DEF WalkDirectories, OpenOrphanDir, NewCall, shared
    <3> QED BY <3>1, <3>2, LearnsRefines
  <2> QED BY <2>1, <2>2, <2>3
<1>2. CASE UNCHANGED vars
  <2>1. /\ disk' = disk /\ list_inum_named' = list_inum_named /\ orphan_dir' = orphan_dir
        /\ stack' = stack /\ back' = back /\ refused' = refused
    BY <1>2 DEF vars, shared, caller
  <2>2. Learns /\ Completes
    BY <2>1 DEF Learns, Completes
  <2>3. SoundInv'
    <3>1. image' = image
      BY <2>1 DEF image
    <3>2. ASSUME NEW t \in Threads PROVE ThreadSound(t, stack[t], back[t])'
      <4>1. PICK s, b : s = stack[t] /\ b = back[t]
        OBVIOUS
      <4>2. ThreadSound(t, s, b)'
        BY <4>1, <2>1, <2>2, ThreadStays DEF SoundInv
      <4>3. stack'[t] = s /\ back'[t] = b
        BY <4>1, <2>1
      <4> QED BY <4>2, <4>3 DEF ThreadSound, SearchSound, WalkSound
    <3> QED BY <2>1, <3>1, <3>2 DEF SoundInv, CanWalk, Settled
  <2> QED BY <2>1, <2>2, <2>3, LearnsRefines
<1> QED BY <1>1, <1>2

\* Several threads may walk the tree, fail, stop and look for orphans at the
\* same time: what they leave behind is what OrphanFiles allows.  The list of
\* named files becomes known once, and in full if no callback has failed and
\* the tree is not too deep; the orphan directory is made once, and then never
\* changes.  No file that is known to have a name is in it, and, where the
\* names of directories fit and no orphan leads to itself, each deleted file
\* that is not is in it or inside of one that is (tsk_fs_dir_walk_internal,
\* tsk_fs_dir_load_inum_named and tsk_fs_dir_find_orphans).
THEOREM Implements == Spec => OrphansSpec
<1>1. Init => Orphans!Init
  BY EmptyList DEF Init, Orphans!Init
<1>2. TypeInv /\ SoundInv /\ [Next]_vars =>
        [Orphans!Next]_<<Elements(list_inum_named), orphan_dir>>
  BY NextSound DEF Refines
<1>3. TypeInv /\ SoundInv /\ [Next]_vars => TypeInv' /\ SoundInv'
  BY NextType, NextSound
<1>4. Init => TypeInv /\ SoundInv
  BY InitType, InitSound
<1> QED BY <1>1, <1>2, <1>3, <1>4, PTL DEF Spec, OrphansSpec, Orphans!Spec

-----------------------------------------------------------------------------
(* What a walk of a user has shown *)

LEMMA SeenGives ==
  ASSUME disk \in DOMAIN Images
  PROVE  /\ Seen.meta = image.meta /\ Seen.bad = image.bad
         /\ DOMAIN Seen.names = DOMAIN image.names \union {OrphanDir}
         /\ \A d \in DOMAIN image.names : Seen.names[d] = image.names[d]
         /\ orphan_dir # NULL => Seen.names[OrphanDir] = Names(OrphanDir)
         /\ orphan_dir = NULL => Seen.names[OrphanDir] = << >>
         /\ OrphanDir \notin DOMAIN image.names /\ OrphanDir \notin image.bad
<1>1. image \in [names : {image.names}, meta : {image.meta}, bad : SUBSET Addresses, damaged : BOOLEAN]
  BY ImagesAssumption DEF image
<1>2. OrphanDir \notin DOMAIN image.names /\ OrphanDir \notin image.bad
  BY <1>1, ImageFacts
<1> DEFINE o == IF orphan_dir = NULL THEN << >> ELSE Names(OrphanDir)
           f == [d \in DOMAIN image.names \union {OrphanDir} |-> IF d = OrphanDir THEN o ELSE image.names[d]]
<1>3. Seen = [image EXCEPT !.names = f]
  BY Zenon DEF Seen
<1>4. /\ DOMAIN f = DOMAIN image.names \union {OrphanDir}
      /\ \A d \in DOMAIN image.names : f[d] = image.names[d]
      /\ f[OrphanDir] = o
  <2> HIDE DEF o
  <2> QED BY <1>2
<1> HIDE DEF f
<1>5. Seen.meta = image.meta /\ Seen.bad = image.bad /\ Seen.names = f
  BY <1>1, <1>3
<1> QED BY <1>2, <1>4, <1>5

\* What is in an orphan directory comes on top of what is in the tree.
LEMMA SeenNames ==
  ASSUME disk \in DOMAIN Images
  PROVE  /\ \A d : d # OrphanDir => NamesIn(Seen, d) = NamesIn(image, d)
         /\ NamesIn(image, OrphanDir) = {}
         /\ orphan_dir # NULL => NamesIn(Seen, OrphanDir) = ToSet(Names(OrphanDir))
         /\ orphan_dir = NULL => NamesIn(Seen, OrphanDir) = {}
         /\ \A e, flags : GoesInto(Seen, e, flags) = GoesInto(image, e, flags)
<1>1. /\ Seen.meta = image.meta /\ Seen.bad = image.bad
      /\ DOMAIN Seen.names = DOMAIN image.names \union {OrphanDir}
      /\ \A d \in DOMAIN image.names : Seen.names[d] = image.names[d]
      /\ orphan_dir # NULL => Seen.names[OrphanDir] = Names(OrphanDir)
      /\ orphan_dir = NULL => Seen.names[OrphanDir] = << >>
      /\ OrphanDir \notin DOMAIN image.names /\ OrphanDir \notin image.bad
  BY SeenGives
<1>2. \A e, flags : GoesInto(Seen, e, flags) = GoesInto(image, e, flags)
  BY <1>1 DEF GoesInto, HasMeta, MetaOf
<1>3. ToSet(<< >>) = {}
  BY DEF ToSet
<1>4. \A d : d # OrphanDir => NamesIn(Seen, d) = NamesIn(image, d)
  BY <1>1 DEF NamesIn
<1> QED BY <1>1, <1>2, <1>3, <1>4 DEF NamesIn

LEMMA MoreGives ==
  ASSUME NEW im, NEW jm, NEW flags, MoreIn(im, jm, flags)
  PROVE  /\ \A d : Steps(im, d, flags) \subseteq Steps(jm, d, flags)
         /\ Reached(im, Root, flags) \subseteq Reached(jm, Root, flags)
         /\ Shown(im, flags) \subseteq Shown(jm, flags)
         /\ TooDeep(im, Root, flags) => TooDeep(jm, Root, flags)
<1>1. \A d : Steps(im, d, flags) \subseteq Steps(jm, d, flags)
  BY DEF Steps, MoreIn
<1>2. Reached(im, Root, flags) \subseteq Reached(jm, Root, flags)
  <2> DEFINE S == Reached(jm, Root, flags)
  <2>1. Root \in S /\ \A d \in S : Steps(im, d, flags) \subseteq S
    BY <1>1, ReachedGives
  <2> HIDE DEF S
  <2>2. Reached(im, Root, flags) \subseteq S
    BY <2>1, ReachedGives
  <2> QED BY <2>2 DEF S
<1>3. Below(im, Root, flags) \subseteq Below(jm, Root, flags)
  BY <1>2 DEF Below, MoreIn
<1>4. Shown(im, flags) \subseteq Shown(jm, flags)
  BY <1>3 DEF Shown
<1>5. ASSUME TooDeep(im, Root, flags) PROVE TooDeep(jm, Root, flags)
  <2>1. PICK f \in [1..MaxDepth + 1 -> Places(im, Root, flags)] : IsWay(im, Root, flags, f)
    BY <1>5 DEF TooDeep
  <2>2. IsWay(jm, Root, flags, f)
    BY <2>1, <1>1 DEF IsWay
  <2>3. \A i \in 1..MaxDepth + 1 : f[i] \in Places(jm, Root, flags)
    BY <2>1, <2>2, StepsArePlaces DEF IsWay
  <2>4. f \in [1..MaxDepth + 1 -> Places(jm, Root, flags)]
    BY <2>1, <2>3
  <2> QED BY <2>2, <2>4 DEF TooDeep
<1> QED BY <1>1, <1>2, <1>4, <1>5

\* Without the orphan directory in reach, it makes no difference.
LEMMA OutOfReach ==
  ASSUME disk \in DOMAIN Images, NEW flags, OrphanDir \notin Reached(image, Root, flags)
  PROVE  Shown(Seen, flags) = Shown(image, flags)
<1> DEFINE S == Reached(image, Root, flags)
<1>1. \A d : d # OrphanDir => Steps(Seen, d, flags) = Steps(image, d, flags)
  BY SeenNames DEF Steps
<1>2. Root \in S /\ (\A d \in S : Steps(image, d, flags) \subseteq S) /\ OrphanDir \notin S
  BY ReachedGives
<1> HIDE DEF S
<1>3. \A d \in S : Steps(Seen, d, flags) \subseteq S
  BY <1>1, <1>2
<1>4. Reached(Seen, Root, flags) \subseteq S
  BY <1>2, <1>3, ReachedGives
<1>5. Below(Seen, Root, flags) \subseteq Below(image, Root, flags)
  BY <1>2, <1>4, SeenNames DEF Below, S
<1>6. MoreIn(image, Seen, flags)
  BY SeenNames DEF MoreIn
<1>7. Shown(image, flags) \subseteq Shown(Seen, flags)
  BY <1>6, MoreGives
<1> QED BY <1>5, <1>7 DEF Shown

-----------------------------------------------------------------------------
(* The names that a walk has called its callback for *)

LEMMA SeenSet ==
  ASSUME NEW S, NEW s \in Seq(S)
  PROVE  /\ ToSet(s) = {s[i] : i \in 1..Len(s)}
         /\ \A x \in S : ToSet(Append(s, x)) = ToSet(s) \union {x}
         /\ s # << >> => ToSet(s) = ToSet(Front(s)) \union {s[Len(s)]}
<1>1. \A r \in Seq(S) : ToSet(r) = {r[i] : i \in 1..Len(r)} /\ Len(r) \in Nat
  BY LenProperties DEF ToSet
<1>2. ASSUME NEW x \in S PROVE ToSet(Append(s, x)) = ToSet(s) \union {x}
  <2> DEFINE a == Append(s, x)
             n == Len(s)
  <2>1. a \in Seq(S) /\ Len(a) = n + 1 /\ a[n + 1] = x /\ \A i \in 1..n : a[i] = s[i]
    BY AppendProperties
  <2>2. n \in Nat /\ ToSet(s) = {s[i] : i \in 1..n} /\ ToSet(a) = {a[i] : i \in 1..n + 1}
    BY <1>1, <2>1
  <2> HIDE DEF a, n
  <2>3. \A i \in 1..n + 1 : i \in 1..n \/ i = n + 1
    BY <2>2
  <2>4. n + 1 \in 1..n + 1 /\ \A i \in 1..n : i \in 1..n + 1
    BY <2>2
  <2> QED BY <2>1, <2>2, <2>3, <2>4 DEF a
<1>3. ASSUME s # << >> PROVE ToSet(s) = ToSet(Front(s)) \union {s[Len(s)]}
  <2> DEFINE f == Front(s)
             n == Len(s)
  <2>1. n \in Nat \ {0} /\ f \in Seq(S) /\ Len(f) = n - 1 /\ \A i \in 1..n - 1 : f[i] = s[i]
    BY <1>3, FrontLast
  <2>2. ToSet(s) = {s[i] : i \in 1..n} /\ ToSet(f) = {f[i] : i \in 1..n - 1}
    BY <1>1, <2>1
  <2> HIDE DEF f, n
  <2>3. \A i \in 1..n : i \in 1..n - 1 \/ i = n
    BY <2>1
  <2>4. n \in 1..n /\ \A i \in 1..n - 1 : i \in 1..n
    BY <2>1
  <2> QED BY <2>1, <2>2, <2>3, <2>4 DEF f, n
<1> QED BY <1>1, <1>2, <1>3

LEMMA MetMore ==
  ASSUME NEW e, NEW flags, NEW g, NEW R, Met(e, flags, g, R), NEW h, NEW Q, g \subseteq h, R \subseteq Q
  PROVE  Met(e, flags, h, Q)
BY DEF Met

\* What the views of a walk have in common.
LEMMA ViewGives ==
  ASSUME disk \in DOMAIN Images, NEW b \in BOOLEAN
  PROVE  /\ \A d : d # OrphanDir => NamesIn(View(b), d) = NamesIn(image, d)
         /\ b /\ orphan_dir # NULL => NamesIn(View(b), OrphanDir) = ToSet(Names(OrphanDir))
         /\ ~b => NamesIn(View(b), OrphanDir) = {}
         /\ \A e, flags : GoesInto(View(b), e, flags) = GoesInto(image, e, flags)
         /\ \A flags : MoreIn(View(b), Seen, flags)
<1>1. CASE b
  BY <1>1, SeenNames DEF View, MoreIn
<1>2. CASE ~b
  <2>1. View(b) = image
    BY <1>2 DEF View
  <2>2. \A flags : MoreIn(image, Seen, flags)
    BY SeenNames DEF MoreIn
  <2> QED BY <1>2, <2>1, <2>2, SeenNames
<1> QED BY <1>1, <1>2

LEMMA FacesName ==
  ASSUME TypeInv, NEW t \in Threads, AtName(t), NEW b \in BOOLEAN, NEW V, NEW g,
         Tracks(Top(t), b, V, g)
  PROVE  Faces(Top(t), b, Name(t))
<1> DEFINE w == Top(t)
           n == Len(w.frames)
           d == w.frames[n].dir
           e == Name(t)
<1>1. /\ w \in Walks /\ w.pc = "entry" /\ n \in Nat \ {0} /\ n \in 1..n
      /\ Dir(t) = w.frames[n] /\ e \in NameSet
      /\ e = Names(d)[w.frames[n].i]
      /\ d # OrphanDir => e \in NamesIn(image, d)
  BY NameIsIn
<1>2. e \in ToSet(Names(d)) /\ disk \in DOMAIN Images
  BY <1>1, NameFacts, ThreadFacts
<1>3. e.addr \in 0..MaxKey
  BY <1>1 DEF NameSet
<1>4. d = OrphanDir => b /\ orphan_dir # NULL
  <2> HIDE DEF w, e
  <2> QED BY <1>1 DEF Tracks, w
<1>5. n > 0
  <2> HIDE DEF n
  <2> QED BY <1>1
<1> HIDE DEF n, w, e
<1>6. e \in NamesIn(View(b), d)
  <2> HIDE DEF d
  <2> QED BY <1>1, <1>2, <1>4, ViewGives
<1> QED BY <1>1, <1>3, <1>5, <1>6, Zenon DEF Faces, n, w, e

LEMMA FacesGives ==
  ASSUME disk \in DOMAIN Images, NEW w \in Walks, NEW b \in BOOLEAN, NEW V, NEW g, Tracks(w, b, V, g), NEW e, Faces(w, b, e)
  PROVE  LET n == Len(w.frames)
             d == w.frames[n].dir IN
         /\ n \in Nat \ {0} /\ n \in 1..n /\ w.pc = "entry" /\ e.addr \in 0..MaxKey
         /\ e = Names(d)[w.frames[n].i]
         /\ OnPath(w, b) /\ Pending(w) = 0 /\ Len(w.seen) = n - 1 /\ w.seen \in Seq(0..MaxKey)
         /\ d \in Reached(View(b), Root, w.flags)
         /\ Hears(g, e, w.flags) \subseteq Shown(View(b), w.flags)
         /\ GoesInto(image, e, w.flags) => /\ e.addr \in Steps(View(b), d, w.flags)
                                           /\ e.addr \in Reached(View(b), Root, w.flags)
<1> DEFINE n == Len(w.frames)
           d == w.frames[n].dir
           Q == Reached(View(b), Root, w.flags)
<1>1. /\ w.pc = "entry" /\ n > 0 /\ e.addr \in 0..MaxKey
      /\ e \in NamesIn(View(b), d) /\ e = Names(d)[w.frames[n].i]
  BY Zenon DEF Faces
<1>2. n \in Nat /\ w.seen \in Seq(0..MaxKey) /\ OnPath(w, b)
  BY WalkFields DEF Tracks
<1>3. Pending(w) = 0
  BY <1>1 DEF Pending
<1>4. Len(w.seen) = n - 1 + Pending(w)
  BY <1>2 DEF OnPath
<1> HIDE DEF n, Q
<1>5. n \in Nat \ {0} /\ n \in 1..n /\ Len(w.seen) = n - 1
  BY <1>1, <1>2, <1>3, <1>4
<1>6. d \in Q
  <2>1. CASE n = 1
    <3>1. d = Root
      BY <2>1, <1>2 DEF OnPath
    <3> QED BY <3>1, ReachedGives DEF Q
  <2>2. CASE n # 1
    <3>1. n - 1 \in 1..n - 1 /\ (n - 1) + 1 = n
      BY <2>2, <1>5
    <3>2. w.frames[(n - 1) + 1].dir = w.seen[n - 1]
      BY <3>1, <1>2 DEF OnPath, n
    <3>3. w.seen[n - 1] \in Q
      BY <3>1, <1>2, <1>5 DEF OnPath, Q
    <3> QED BY <3>1, <3>2, <3>3
  <2> QED BY <2>1, <2>2
<1>7. Hears(g, e, w.flags) \subseteq Shown(View(b), w.flags)
  <2>1. g \subseteq Shown(View(b), w.flags)
    BY DEF Tracks
  <2> HIDE DEF d
  <2>2. e \in Below(View(b), Root, w.flags)
    BY <1>1, <1>6 DEF Below, Q
  <2>3. Wanted(e, w.flags) => e.addr \in Shown(View(b), w.flags)
    BY <2>2 DEF Shown
  <2> QED BY <2>1, <2>3 DEF Hears
<1>8. GoesInto(image, e, w.flags) => e.addr \in Steps(View(b), d, w.flags) /\ e.addr \in Q
  <2> HIDE DEF d
  <2>1. GoesInto(image, e, w.flags) => e.addr \in Steps(View(b), d, w.flags)
    BY <1>1, ViewGives DEF Steps
  <2>2. Steps(View(b), d, w.flags) \subseteq Q
    BY <1>6, ReachedGives DEF Q
  <2> QED BY <2>1, <2>2
<1> QED BY <1>1, <1>2, <1>3, <1>5, <1>6, <1>7, <1>8 DEF n, Q

\* With e it has met one name more.
LEMMA TracksOn ==
  ASSUME NEW w \in Walks, NEW b, NEW V, NEW g, Tracks(w, b, V, g), NEW e, Faces(w, b, e),
         NEW h, g \subseteq h, NEW Q, Found(w, V) \subseteq Q, Met(e, w.flags, h, Q)
  PROVE  /\ \A d \in V : \A x \in NamesIn(View(b), d) : Met(x, w.flags, h, Q)
         /\ \A k \in 1..Len(w.frames) : \A p \in 1..Len(Names(w.frames[k].dir)) :
              p <= w.frames[k].i => Met(Names(w.frames[k].dir)[p], w.flags, h, Q)
<1> DEFINE n == Len(w.frames)
           R == Found(w, V)
<1> HIDE DEF R
<1>1. \A d \in V : \A x \in NamesIn(View(b), d) : Met(x, w.flags, h, Q)
  <2>1. \A d \in V : \A x \in NamesIn(View(b), d) : Met(x, w.flags, g, R)
    BY DEF Tracks, R
  <2> QED BY <2>1, MetMore DEF R
<1>2. w.pc = "entry" /\ e = Names(w.frames[n].dir)[w.frames[n].i]
  BY Zenon DEF Faces
<1>3. ASSUME NEW k \in 1..n, NEW p \in 1..Len(Names(w.frames[k].dir)), p <= w.frames[k].i
      PROVE  Met(Names(w.frames[k].dir)[p], w.flags, h, Q)
  <2>1. p <= Past(w, k) => Met(Names(w.frames[k].dir)[p], w.flags, g, R)
    BY DEF Tracks, R
  <2>2. w.frames[k].i \in Nat
    BY WalkFields
  <2>3. CASE p <= Past(w, k)
    BY <2>1, <2>3, MetMore DEF R
  <2>4. CASE ~(p <= Past(w, k))
    <3>1. k = n /\ p = w.frames[k].i
      BY <2>2, <2>4, <1>2, <1>3 DEF Past
    <3> QED BY <3>1, <1>2
  <2> QED BY <2>3, <2>4
<1> QED BY <1>1, <1>3

LEMMA HearsMore ==
  ASSUME NEW g, NEW e, NEW flags
  PROVE  /\ g \subseteq Hears(g, e, flags)
         /\ Wanted(e, flags) => e.addr \in Hears(g, e, flags)
BY DEF Hears

LEMMA TracksAmended ==
  ASSUME NEW w, NEW u, Amended(w, u), NEW b, NEW V, NEW g, Tracks(w, b, V, g)
  PROVE  Tracks(u, b, V, g)
<1>1. /\ u.pc = w.pc /\ u.flags = w.flags /\ u.seen = w.seen /\ u.frames = w.frames
  BY DEF Amended, SameCall
<1>2. /\ Pending(u) = Pending(w) /\ (\A k : Past(u, k) = Past(w, k)) /\ Found(u, V) = Found(w, V)
      /\ InOrphans(u, V) = InOrphans(w, V)
  BY <1>1 DEF Pending, Past, Found, InOrphans
<1>3. OnPath(u, b)
  BY <1>1, <1>2 DEF Tracks, OnPath
<1> QED BY <1>1, <1>2, <1>3 DEF Tracks

-----------------------------------------------------------------------------
(* The way down of a walk of a user *)

LEMMA PathFacts ==
  ASSUME NEW w \in Walks, NEW b, OnPath(w, b), Len(w.frames) > 0
  PROVE  /\ Len(w.frames) \in Nat \ {0} /\ Len(w.frames) \in 1..Len(w.frames)
         /\ w.seen \in Seq(0..MaxKey) /\ Pending(w) \in {0, 1}
         /\ Len(w.seen) = Len(w.frames) - 1 + Pending(w)
         /\ w.frames[1].dir = Root
         /\ \A i, j \in 1..Len(w.seen) : w.seen[i] = w.seen[j] => i = j
         /\ \A k \in 1..Len(w.frames) - 1 : w.frames[k + 1].dir = w.seen[k]
         /\ \A k \in 1..Len(w.seen) : /\ w.seen[k] \in Steps(View(b), w.frames[k].dir, w.flags)
                                      /\ w.seen[k] \in Reached(View(b), Root, w.flags)
<1>1. Len(w.frames) \in Nat \ {0} /\ w.seen \in Seq(0..MaxKey)
  BY WalkFields
<1>2. Pending(w) \in {0, 1}
  BY DEF Pending
<1> QED BY <1>1, <1>2 DEF OnPath

\* It stays, while the walk goes through the names of the directory.
LEMMA PathStays ==
  ASSUME NEW w \in Walks, NEW b, OnPath(w, b), Len(w.frames) > 0, NEW v \in Walks,
         v.flags = w.flags, v.seen = w.seen, Len(v.frames) = Len(w.frames), Pending(v) = Pending(w),
         \A k \in 1..Len(w.frames) : v.frames[k].dir = w.frames[k].dir
  PROVE  OnPath(v, b)
<1> DEFINE n == Len(w.frames)
           l == Len(w.seen)
<1>1. /\ n \in Nat \ {0} /\ Pending(w) \in {0, 1} /\ l = n - 1 + Pending(w)
      /\ w.frames[1].dir = Root
      /\ \A k \in 1..n - 1 : w.frames[k + 1].dir = w.seen[k]
      /\ \A k \in 1..l : /\ w.seen[k] \in Steps(View(b), w.frames[k].dir, w.flags)
                         /\ w.seen[k] \in Reached(View(b), Root, w.flags)
  BY PathFacts
<1> HIDE DEF n, l
<1>2. 1 \in 1..n /\ (\A k \in 1..n - 1 : k + 1 \in 1..n) /\ \A k \in 1..l : k \in 1..n
  BY <1>1
<1> QED BY <1>1, <1>2 DEF OnPath, n, l

\* It gets longer by directory a, which is opened or about to be.
LEMMA PathGrows ==
  ASSUME NEW w \in Walks, NEW b, OnPath(w, b), Len(w.frames) > 0, Pending(w) = 0, NEW v \in Walks,
         NEW a \in 0..MaxKey, a \notin ToSet(w.seen),
         a \in Steps(View(b), w.frames[Len(w.frames)].dir, w.flags), a \in Reached(View(b), Root, w.flags),
         v.flags = w.flags, v.seen = Append(w.seen, a),
         \A k \in 1..Len(w.frames) : v.frames[k].dir = w.frames[k].dir,
         \/ Len(v.frames) = Len(w.frames) /\ Pending(v) = 1
         \/ /\ Len(v.frames) = Len(w.frames) + 1 /\ Pending(v) = 0
            /\ v.frames[Len(w.frames) + 1].dir = a
  PROVE  OnPath(v, b)
<1> DEFINE n == Len(w.frames)
           m == Len(v.frames)
<1>1. /\ n \in Nat \ {0} /\ w.seen \in Seq(0..MaxKey) /\ Len(w.seen) = n - 1
      /\ w.frames[1].dir = Root
      /\ \A i, j \in 1..n - 1 : w.seen[i] = w.seen[j] => i = j
      /\ \A k \in 1..n - 1 : w.frames[k + 1].dir = w.seen[k]
      /\ \A k \in 1..n - 1 : /\ w.seen[k] \in Steps(View(b), w.frames[k].dir, w.flags)
                             /\ w.seen[k] \in Reached(View(b), Root, w.flags)
  <2>1. /\ n \in Nat \ {0} /\ w.seen \in Seq(0..MaxKey) /\ Len(w.seen) = n - 1 + 0
        /\ w.frames[1].dir = Root
        /\ \A i, j \in 1..Len(w.seen) : w.seen[i] = w.seen[j] => i = j
        /\ \A k \in 1..n - 1 : w.frames[k + 1].dir = w.seen[k]
        /\ \A k \in 1..Len(w.seen) : /\ w.seen[k] \in Steps(View(b), w.frames[k].dir, w.flags)
                                     /\ w.seen[k] \in Reached(View(b), Root, w.flags)
    BY PathFacts
  <2> HIDE DEF n
  <2>2. Len(w.seen) = n - 1
    BY <2>1
  <2> QED BY <2>1, <2>2
<1>2. ToSet(w.seen) = {w.seen[i] : i \in 1..Len(w.seen)}
  BY <1>1, SeenSet
<1>3. \A k \in 1..n - 1 : w.seen[k] # a
  BY <1>1, <1>2
<1>4. \/ m = n /\ Pending(v) = 1
      \/ m = n + 1 /\ Pending(v) = 0 /\ v.frames[n + 1].dir = a
  OBVIOUS
<1>5. a \in Steps(View(b), v.frames[n].dir, w.flags)
  <2>1. n \in 1..n
    BY PathFacts
  <2> QED BY <2>1
<1> HIDE DEF n, m
<1>6. Len(v.seen) = n /\ v.seen[n] = a /\ \A k \in 1..n - 1 : v.seen[k] = w.seen[k]
  <2>1. /\ Len(v.seen) = Len(w.seen) + 1 /\ v.seen[Len(w.seen) + 1] = a
        /\ \A k \in 1..Len(w.seen) : v.seen[k] = w.seen[k]
    BY <1>1, AppendProperties
  <2> QED BY <2>1, <1>1
<1>7. \A k \in 1..n : k \in 1..n - 1 \/ k = n
  BY <1>1
<1>8. \A i, j \in 1..n : v.seen[i] = v.seen[j] => i = j
  BY <1>1, <1>3, <1>6, <1>7
<1>9. v.frames[1].dir = Root /\ \A k \in 1..n : v.frames[k].dir = w.frames[k].dir
  <2>1. 1 \in 1..n
    BY <1>1
  <2> QED BY <2>1, <1>1 DEF n
<1>10. \A k \in 1..n : /\ v.seen[k] \in Steps(View(b), v.frames[k].dir, w.flags)
                       /\ v.seen[k] \in Reached(View(b), Root, w.flags)
  BY <1>1, <1>5, <1>6, <1>7, <1>9
<1>11. ASSUME NEW k \in 1..m - 1 PROVE v.frames[k + 1].dir = v.seen[k]
  <2>1. CASE k \in 1..n - 1
    <3>1. k + 1 \in 1..n
      BY <2>1, <1>1
    <3> QED BY <2>1, <3>1, <1>1, <1>6, <1>9
  <2>2. CASE k \notin 1..n - 1
    <3>1. k = n /\ m = n + 1
      BY <2>2, <1>1, <1>4
    <3> QED BY <3>1, <1>1, <1>4, <1>6
  <2> QED BY <2>1, <2>2
<1>12. Len(v.seen) = m - 1 + Pending(v)
  BY <1>1, <1>4, <1>6
<1> QED BY <1>6, <1>8, <1>9, <1>10, <1>11, <1>12 DEF OnPath, m

\* It gets shorter by the directory that the walk leaves or could not open.
LEMMA PathShrinks ==
  ASSUME NEW w \in Walks, NEW b, OnPath(w, b), Len(w.frames) > 0, NEW v \in Walks,
         v.flags = w.flags, w.seen # << >>, v.seen = Front(w.seen), Pending(v) = 0, Len(v.frames) > 0,
         Len(v.frames) = Len(w.frames) - 1 + Pending(w),
         \A k \in 1..Len(v.frames) : v.frames[k].dir = w.frames[k].dir
  PROVE  OnPath(v, b)
<1> DEFINE n == Len(w.frames)
           m == Len(v.frames)
<1>1. /\ n \in Nat \ {0} /\ w.seen \in Seq(0..MaxKey) /\ Pending(w) \in {0, 1} /\ Len(w.seen) = m
      /\ w.frames[1].dir = Root
      /\ \A i, j \in 1..m : w.seen[i] = w.seen[j] => i = j
      /\ \A k \in 1..n - 1 : w.frames[k + 1].dir = w.seen[k]
      /\ \A k \in 1..m : /\ w.seen[k] \in Steps(View(b), w.frames[k].dir, w.flags)
                         /\ w.seen[k] \in Reached(View(b), Root, w.flags)
  BY PathFacts
<1>2. m > 0 /\ m = n - 1 + Pending(w)
  OBVIOUS
<1>3. Len(v.seen) = Len(w.seen) - 1 /\ \A k \in 1..Len(w.seen) - 1 : v.seen[k] = w.seen[k]
  <2>1. w.seen \in Seq(0..MaxKey) /\ w.seen # << >>
    BY <1>1
  <2>2. Len(Front(w.seen)) = Len(w.seen) - 1 /\ \A k \in 1..Len(w.seen) - 1 : Front(w.seen)[k] = w.seen[k]
    BY <2>1, FrontLast
  <2> QED BY <2>2
<1>4. \A k \in 1..m : v.frames[k].dir = w.frames[k].dir
  OBVIOUS
<1>5. OnPath(v, b) <=>
        /\ v.frames[1].dir = Root
        /\ Len(v.seen) = m - 1 + 0
        /\ \A i, j \in 1..Len(v.seen) : v.seen[i] = v.seen[j] => i = j
        /\ \A k \in 1..m - 1 : v.frames[k + 1].dir = v.seen[k]
        /\ \A k \in 1..Len(v.seen) : /\ v.seen[k] \in Steps(View(b), v.frames[k].dir, w.flags)
                                     /\ v.seen[k] \in Reached(View(b), Root, w.flags)
  BY DEF OnPath
<1> HIDE DEF n, m
<1>6. m \in Nat \ {0} /\ m <= n
  BY <1>1, <1>2
<1>7. 1 \in 1..m /\ \A k \in 1..m - 1 : k \in 1..m /\ k + 1 \in 1..m /\ k \in 1..n - 1
  BY <1>6, <1>1
<1>8. Len(v.seen) = m - 1 /\ \A k \in 1..m - 1 : v.seen[k] = w.seen[k]
  BY <1>1, <1>3
<1>9. m - 1 = m - 1 + 0
  BY <1>6
<1> QED BY <1>1, <1>4, <1>5, <1>7, <1>8, <1>9

\* The orphan directory, on the way since it was asked for, is opened.
LEMMA PathOpened ==
  ASSUME disk \in DOMAIN Images, NEW w \in Walks, NEW b \in BOOLEAN, OnPath(w, b), Len(w.frames) > 0,
         Pending(w) = 1, NEW v \in Walks, v.flags = w.flags, v.seen = w.seen, Pending(v) = 0,
         Len(v.frames) = Len(w.frames) + 1,
         w.seen[Len(w.seen)] = v.frames[Len(w.frames) + 1].dir,
         \A k \in 1..Len(w.frames) : v.frames[k].dir = w.frames[k].dir
  PROVE  OnPath(v, TRUE)
<1> DEFINE n == Len(w.frames)
<1>1. /\ n \in Nat \ {0} /\ Len(w.seen) = n - 1 + 1
      /\ w.frames[1].dir = Root
      /\ \A i, j \in 1..Len(w.seen) : w.seen[i] = w.seen[j] => i = j
      /\ \A k \in 1..n - 1 : w.frames[k + 1].dir = w.seen[k]
      /\ \A k \in 1..Len(w.seen) : /\ w.seen[k] \in Steps(View(b), w.frames[k].dir, w.flags)
                                   /\ w.seen[k] \in Reached(View(b), Root, w.flags)
  BY PathFacts
<1>2. MoreIn(View(b), View(TRUE), w.flags)
  <2>1. View(TRUE) = Seen
    BY DEF View
  <2> QED BY <2>1, ViewGives
<1>3. /\ \A d : Steps(View(b), d, w.flags) \subseteq Steps(View(TRUE), d, w.flags)
      /\ Reached(View(b), Root, w.flags) \subseteq Reached(View(TRUE), Root, w.flags)
  BY <1>2, MoreGives
<1>4. v.frames[n + 1].dir = w.seen[Len(w.seen)] /\ \A k \in 1..n : v.frames[k].dir = w.frames[k].dir
  OBVIOUS
<1> HIDE DEF n
<1>5. n \in Nat /\ Len(w.seen) = n /\ 1 \in 1..n /\ (n + 1) - 1 = n
  BY <1>1
<1>6. \A k \in 1..n : v.frames[k + 1].dir = w.seen[k]
  <2> TAKE k \in 1..n
  <2>1. CASE k = n
    BY <2>1, <1>4, <1>5
  <2>2. CASE k # n
    <3>1. k \in 1..n - 1 /\ k + 1 \in 1..n
      BY <2>2, <1>5
    <3> QED BY <3>1, <1>1, <1>4
  <2> QED BY <2>1, <2>2
<1>7. \A k \in 1..n : /\ w.seen[k] \in Steps(View(TRUE), v.frames[k].dir, w.flags)
                      /\ w.seen[k] \in Reached(View(TRUE), Root, w.flags)
  BY <1>1, <1>3, <1>4, <1>5
<1>8. Len(v.frames) = n + 1 /\ Len(w.seen) = (n + 1) - 1 + 0
  BY <1>1, <1>5 DEF n
<1>9. v.frames[1].dir = Root
  BY <1>1, <1>4, <1>5
<1>10. \A k \in 1..Len(v.frames) - 1 : v.frames[k + 1].dir = v.seen[k]
  BY <1>5, <1>6, <1>8
<1>11. Len(v.seen) = Len(v.frames) - 1 + Pending(v)
  BY <1>8
<1>12. \A k \in 1..Len(v.seen) : /\ v.seen[k] \in Steps(View(TRUE), v.frames[k].dir, v.flags)
                                /\ v.seen[k] \in Reached(View(TRUE), Root, v.flags)
  BY <1>5, <1>7
<1>13. \A i, j \in 1..Len(v.seen) : v.seen[i] = v.seen[j] => i = j
  BY <1>1
<1> QED BY <1>9, <1>10, <1>11, <1>12, <1>13, Zenon DEF OnPath

-----------------------------------------------------------------------------
(* And what it has called its callback for *)

\* The walk goes past name e: there is nothing below it, it is on the way, or
\* it cannot be loaded.
LEMMA TracksSkips ==
  ASSUME disk \in DOMAIN Images, NEW w \in Walks, NEW b \in BOOLEAN, NEW V \in SUBSET (0..MaxKey), NEW g,
         Tracks(w, b, V, g), NEW e, Faces(w, b, e), NEW v \in Walks, Skips(w, v), AfterSkips(w, e)
  PROVE  Ledger(v, Hears(g, e, w.flags))
<1> DEFINE n == Len(w.frames)
           h == Hears(g, e, w.flags)
           V2 == V \union ({e.addr} \ (Loadable(image) \union {OrphanDir}))
           Q == Found(v, V2)
<1>1. /\ n \in Nat \ {0} /\ w.pc = "entry" /\ e.addr \in 0..MaxKey /\ OnPath(w, b) /\ Pending(w) = 0
      /\ w.seen \in Seq(0..MaxKey) /\ h \subseteq Shown(View(b), w.flags)
  BY FacesGives
<1>2. /\ v.pc = "entry" /\ v.flags = w.flags /\ v.seen = w.seen /\ Len(v.frames) = n
      /\ SameFrames(w, v, n - 1) /\ v.frames[n].dir = w.frames[n].dir /\ v.frames[n].i = w.frames[n].i + 1
  BY DEF Skips, SameCall
<1>3. g \subseteq h /\ (Wanted(e, w.flags) => e.addr \in h)
  BY HearsMore
<1>4. Found(w, V) \subseteq Q
  BY <1>2 DEF Found
<1>5. IsLoop(w, e) => e.addr \in Q
  BY <1>2 DEF IsLoop, Found
<1>6. GoesInto(image, e, w.flags) => e.addr \in Q
  <2>1. e.addr \notin Loadable(image) \union {OrphanDir} => e.addr \in Q
    BY DEF Found
  <2> HIDE DEF Q
  <2> QED BY <2>1, <1>5 DEF AfterSkips
<1>7. V2 \in SUBSET (0..MaxKey)
  BY <1>1
<1>8. \A d \in V2 : d \in V \/ (d \notin Loadable(image) /\ d # OrphanDir)
  OBVIOUS
<1>9. V \subseteq V2
  OBVIOUS
<1> HIDE DEF V2, Q, h, n
<1>10. Met(e, w.flags, h, Q)
  BY <1>3, <1>6 DEF Met
<1>11. /\ \A d \in V : \A x \in NamesIn(View(b), d) : Met(x, w.flags, h, Q)
       /\ \A k \in 1..n : \A p \in 1..Len(Names(w.frames[k].dir)) :
            p <= w.frames[k].i => Met(Names(w.frames[k].dir)[p], w.flags, h, Q)
  BY <1>3, <1>4, <1>10, TracksOn DEF n
<1>12. \A k \in 1..n : v.frames[k].dir = w.frames[k].dir /\ Past(v, k) = w.frames[k].i
  <2> TAKE k \in 1..n
  <2>1. w.frames[k].i \in Nat
    BY WalkFields DEF n
  <2>2. k \in 1..n - 1 \/ k = n
    BY <1>1
  <2> QED BY <2>1, <2>2, <1>2 DEF Past, SameFrames
<1>13. \A d \in V2 : \A x \in NamesIn(View(b), d) : Met(x, w.flags, h, Q)
  <2> SUFFICES ASSUME NEW d \in V2, d \notin V PROVE NamesIn(View(b), d) = {}
    BY <1>11
  <2>1. d # OrphanDir /\ NamesIn(image, d) = {}
    BY <1>8, NowhereElse
  <2> QED BY <2>1, ViewGives
<1>14. OnPath(v, b)
  <2>1. Pending(v) = 0 /\ Len(w.frames) > 0
    BY <1>1, <1>2 DEF Pending, n
  <2> QED BY <2>1, <1>1, <1>2, <1>12, PathStays DEF n
<1>15. /\ b => orphan_dir # NULL /\ InOrphans(w, V)
       /\ ~b => \A k \in 1..n : w.frames[k].dir # OrphanDir
       /\ ~b /\ OrphanDir \in V => SearchMayFail
  BY DEF Tracks, n
<1>16. ~b /\ OrphanDir \in V2 => SearchMayFail
  BY <1>8, <1>15
<1>17. InOrphans(w, V) => InOrphans(v, V2)
  BY <1>2, <1>9, <1>12 DEF InOrphans, n
<1>18. Tracks(v, b, V2, h)
  BY <1>1, <1>2, <1>11, <1>12, <1>13, <1>14, <1>15, <1>16, <1>17 DEF Tracks, Q
<1> QED BY <1>7, <1>18 DEF Ledger, h

\* It goes down to directory e, or asks for the orphan directory.
LEMMA TracksDown ==
  ASSUME disk \in DOMAIN Images, NEW w \in Walks, NEW b \in BOOLEAN, NEW V \in SUBSET (0..MaxKey), NEW g,
         Tracks(w, b, V, g), NEW e, Faces(w, b, e), NEW v \in Walks, Down(w, e),
         \/ Enters(w, v, e.addr) /\ e.addr # OrphanDir
         \/ Opens(w, v) /\ e.addr = OrphanDir
  PROVE  Ledger(v, Hears(g, e, w.flags))
<1> DEFINE n == Len(w.frames)
           m == Len(v.frames)
           h == Hears(g, e, w.flags)
           a == e.addr
           Q == Found(v, V)
<1>1. /\ n \in Nat \ {0} /\ n \in 1..n /\ w.pc = "entry" /\ a \in 0..MaxKey /\ OnPath(w, b) /\ Pending(w) = 0
      /\ w.seen \in Seq(0..MaxKey) /\ Len(w.seen) = n - 1 /\ h \subseteq Shown(View(b), w.flags)
      /\ a \in Steps(View(b), w.frames[n].dir, w.flags) /\ a \in Reached(View(b), Root, w.flags)
  BY FacesGives DEF Down
<1>2. a \notin ToSet(w.seen)
  BY DEF Down, IsLoop
<1>3. v.flags = w.flags /\ v.seen = Append(w.seen, a)
  BY DEF Enters, Opens, SameCall
<1>4. \/ /\ v.pc = "entry" /\ m = n + 1 /\ SameFrames(w, v, n) /\ a # OrphanDir
         /\ v.frames[n + 1].dir = a /\ v.frames[n + 1].i = 1
      \/ /\ v.pc = "opening" /\ m = n /\ SameFrames(w, v, n - 1)
         /\ v.frames[n].dir = w.frames[n].dir /\ v.frames[n].i = w.frames[n].i
  BY <1>1, FrameGives DEF Enters, Opens
<1>5. g \subseteq h /\ (Wanted(e, w.flags) => a \in h)
  BY HearsMore
<1>6. Found(w, V) \subseteq Q /\ a \in Q
  <2>1. w.seen \in Seq(0..MaxKey) /\ a \in 0..MaxKey
    BY <1>1
  <2> HIDE DEF a
  <2>2. \A x \in 0..MaxKey : ToSet(Append(w.seen, x)) = ToSet(w.seen) \union {x}
    BY <2>1, SeenSet
  <2>3. ToSet(v.seen) = ToSet(w.seen) \union {a}
    BY <2>1, <2>2, <1>3
  <2> QED BY <2>3 DEF Found
<1> HIDE DEF Q, h, n, m, a
<1>7. Met(e, w.flags, h, Q)
  BY <1>5, <1>6 DEF Met, a
<1>8. /\ \A d \in V : \A x \in NamesIn(View(b), d) : Met(x, w.flags, h, Q)
      /\ \A k \in 1..n : \A p \in 1..Len(Names(w.frames[k].dir)) :
           p <= w.frames[k].i => Met(Names(w.frames[k].dir)[p], w.flags, h, Q)
  BY <1>5, <1>6, <1>7, TracksOn DEF n
<1>9. \A k \in 1..n : v.frames[k].dir = w.frames[k].dir /\ Past(v, k) = w.frames[k].i
  <2> TAKE k \in 1..n
  <2>1. v.frames[k].dir = w.frames[k].dir /\ v.frames[k].i = w.frames[k].i
    <3>1. k \in 1..n - 1 \/ k = n
      BY <1>1
    <3> QED BY <3>1, <1>4 DEF SameFrames
  <2>2. ~(k = Len(v.frames) /\ v.pc = "entry")
    BY <1>1, <1>4 DEF m
  <2> QED BY <2>1, <2>2 DEF Past
<1>10. \A k \in 1..m : k \in 1..n \/ (k = n + 1 /\ v.frames[k].dir = a /\ a # OrphanDir /\ Past(v, k) = 0)
  <2> SUFFICES ASSUME NEW k \in 1..m, k \notin 1..n
               PROVE  k = n + 1 /\ v.frames[k].dir = a /\ a # OrphanDir /\ Past(v, k) = 0
    OBVIOUS
  <2>1. k = n + 1 /\ m = n + 1
    BY <1>1, <1>4
  <2>2. v.pc = "entry" /\ v.frames[k].dir = a /\ v.frames[k].i = 1 /\ a # OrphanDir /\ k = Len(v.frames)
    BY <2>1, <1>1, <1>4 DEF m
  <2> QED BY <2>1, <2>2 DEF Past
<1>11. OnPath(v, b)
  <2>1. \/ Len(v.frames) = Len(w.frames) /\ Pending(v) = 1
        \/ /\ Len(v.frames) = Len(w.frames) + 1 /\ Pending(v) = 0
           /\ v.frames[Len(w.frames) + 1].dir = a
    BY <1>4 DEF Pending, n, m
  <2>2. Len(w.frames) > 0 /\ a \in Steps(View(b), w.frames[Len(w.frames)].dir, w.flags)
    BY <1>1 DEF n
  <2> QED BY <2>1, <2>2, <1>1, <1>2, <1>3, <1>9, PathGrows DEF n
<1>12. /\ b => orphan_dir # NULL /\ InOrphans(w, V)
       /\ ~b => \A k \in 1..n : w.frames[k].dir # OrphanDir
       /\ ~b /\ OrphanDir \in V => SearchMayFail
  BY DEF Tracks, n
<1>13. ~b => \A k \in 1..m : v.frames[k].dir # OrphanDir
  BY <1>9, <1>10, <1>12
<1>14. InOrphans(w, V) => InOrphans(v, V)
  <2>1. \A k \in 1..n : k \in 1..m
    BY <1>1, <1>4
  <2> QED BY <2>1, <1>9 DEF InOrphans, n, m
<1>15. ASSUME NEW k \in 1..m, NEW p \in 1..Len(Names(v.frames[k].dir)), p <= Past(v, k)
       PROVE  Met(Names(v.frames[k].dir)[p], w.flags, h, Q)
  <2>1. Past(v, k) # 0
    BY <1>15
  <2>2. k \in 1..n
    BY <2>1, <1>10
  <2> QED BY <2>2, <1>8, <1>9, <1>15
<1>16. Tracks(v, b, V, h)
  BY <1>1, <1>3, <1>8, <1>11, <1>12, <1>13, <1>14, <1>15 DEF Tracks, Q, m
<1> QED BY <1>16 DEF Ledger, h

\* Without an orphan directory it goes on where it was: the search failed.
LEMMA TracksResumes ==
  ASSUME disk \in DOMAIN Images, NEW w \in Walks, NEW b \in BOOLEAN, NEW V \in SUBSET (0..MaxKey), NEW g,
         Tracks(w, b, V, g), WalkOK(image, orphan_dir, w), w.pc = "opening", SearchMayFail,
         NEW v \in Walks, Resumes(w, v)
  PROVE  Ledger(v, g)
<1> DEFINE n == Len(w.frames)
           V2 == V \union {OrphanDir}
           R == Found(w, V)
           Q == Found(v, V2)
<1>1. n \in Nat \ {0} /\ Pending(w) = 1 /\ OnPath(w, b) /\ OrphanDir \in 0..MaxKey
  BY InDirFacts, ImageFacts DEF Pending, Tracks
<1>2. /\ v.pc = "entry" /\ v.flags = w.flags /\ Len(v.frames) = n
      /\ SameFrames(w, v, n - 1) /\ v.frames[n].dir = w.frames[n].dir /\ v.frames[n].i = w.frames[n].i + 1
      /\ v.seen = Front(w.seen)
  BY DEF Resumes, SameCall
<1> HIDE DEF n
<1>3. /\ Len(w.seen) = n /\ w.seen \in Seq(0..MaxKey) /\ w.seen # << >> /\ w.seen[n] = OrphanDir
      /\ \A i, j \in 1..n : w.seen[i] = w.seen[j] => i = j
      /\ \A k \in 1..n - 1 : w.frames[k + 1].dir = w.seen[k]
      /\ w.frames[1].dir = Root
  <2>1. /\ Len(w.seen) = n - 1 + Pending(w) /\ w.seen \in Seq(0..MaxKey)
        /\ \A i, j \in 1..Len(w.seen) : w.seen[i] = w.seen[j] => i = j
        /\ \A k \in 1..n - 1 : w.frames[k + 1].dir = w.seen[k]
        /\ w.frames[1].dir = Root
    <3>1. Len(w.frames) > 0
      BY <1>1 DEF n
    <3> QED BY <3>1, <1>1, PathFacts DEF n
  <2>2. Len(w.seen) = n /\ w.seen[Len(w.seen)] = OrphanDir
    BY <2>1, <1>1 DEF WalkOK
  <2> QED BY <2>1, <2>2, <1>1
<1>4. \A k \in 1..n : v.frames[k].dir = w.frames[k].dir
  <2> TAKE k \in 1..n
  <2>1. k \in 1..n - 1 \/ k = n
    BY <1>1
  <2> QED BY <2>1, <1>2 DEF SameFrames
<1>5. \A k \in 1..n : Past(v, k) = Past(w, k)
  <2> TAKE k \in 1..n
  <2>1. w.frames[k].i \in Nat
    BY WalkFields DEF n
  <2>2. Past(w, k) = w.frames[k].i
    BY DEF Past
  <2>3. CASE k = n
    <3>1. Past(v, k) = v.frames[k].i - 1
      BY <2>3, <1>2 DEF Past
    <3> QED BY <2>1, <2>2, <2>3, <3>1, <1>2
  <2>4. CASE k # n
    <3>1. k \in 1..n - 1
      BY <2>4, <1>1
    <3>2. Past(v, k) = v.frames[k].i
      BY <2>4, <1>2 DEF Past
    <3> QED BY <2>2, <3>1, <3>2, <1>2 DEF SameFrames
  <2> QED BY <2>3, <2>4
<1>6. \A k \in 1..n : w.frames[k].dir # OrphanDir
  <2> TAKE k \in 1..n
  <2>1. CASE k = 1
    BY <2>1, <1>3, DirTreeAssumption
  <2>2. CASE k # 1
    <3>1. k - 1 \in 1..n - 1 /\ k - 1 \in 1..n /\ (k - 1) + 1 = k /\ n \in 1..n /\ k - 1 # n
      BY <2>2, <1>1
    <3>2. w.frames[(k - 1) + 1].dir = w.seen[k - 1]
      BY <3>1, <1>3
    <3> QED BY <3>1, <3>2, <1>3
  <2> QED BY <2>1, <2>2
<1>7. /\ b => orphan_dir # NULL /\ InOrphans(w, V)
      /\ \A d \in V : \A x \in NamesIn(View(b), d) : Met(x, w.flags, g, R)
      /\ \A k \in 1..n : \A p \in 1..Len(Names(w.frames[k].dir)) :
           p <= Past(w, k) => Met(Names(w.frames[k].dir)[p], w.flags, g, R)
      /\ g \subseteq Shown(View(b), w.flags)
  BY DEF Tracks, n
<1>8. OrphanDir \in V \/ NamesIn(View(b), OrphanDir) = {}
  BY <1>6, <1>7, ViewGives DEF InOrphans, n
<1>9. R \subseteq Q
  <2>1. ToSet(w.seen) = ToSet(v.seen) \union {OrphanDir}
    <3>1. w.seen # << >> => ToSet(w.seen) = ToSet(Front(w.seen)) \union {w.seen[Len(w.seen)]}
      BY <1>3, SeenSet
    <3> QED BY <3>1, <1>2, <1>3
  <2> QED BY <2>1 DEF Found
<1>10. V2 \in SUBSET (0..MaxKey) /\ OrphanDir \in V2 /\ \A d \in V2 : d \in V \/ d = OrphanDir
  BY <1>1
<1> HIDE DEF R, Q, V2
<1>11. \A d \in V2 : \A x \in NamesIn(View(b), d) : Met(x, w.flags, g, Q)
  <2>1. \A d \in V2 : NamesIn(View(b), d) = {} \/ d \in V
    BY <1>8, <1>10
  <2> QED BY <2>1, <1>7, <1>9, MetMore
<1>12. \A k \in 1..n : \A p \in 1..Len(Names(v.frames[k].dir)) :
         p <= Past(v, k) => Met(Names(v.frames[k].dir)[p], w.flags, g, Q)
  BY <1>4, <1>5, <1>7, <1>9, MetMore
<1>13. OnPath(v, b)
  <2>1. /\ Pending(v) = 0 /\ Len(v.frames) > 0 /\ Len(w.frames) > 0
        /\ Len(v.frames) = Len(w.frames) - 1 + Pending(w)
    <3>1. Pending(v) = 0
      BY <1>2 DEF Pending
    <3>2. n > 0 /\ n = n - 1 + 1
      BY <1>1
    <3> QED BY <3>1, <3>2, <1>1, <1>2 DEF n
  <2>2. \A k \in 1..Len(v.frames) : v.frames[k].dir = w.frames[k].dir
    BY <1>2, <1>4
  <2> QED BY <2>1, <2>2, <1>1, <1>2, <1>3, PathShrinks
<1>14. /\ b => orphan_dir # NULL /\ InOrphans(v, V2)
       /\ ~b => \A k \in 1..n : v.frames[k].dir # OrphanDir
  BY <1>4, <1>6, <1>7, <1>10 DEF InOrphans
<1>15. Tracks(v, b, V2, g)
  BY <1>2, <1>7, <1>11, <1>12, <1>13, <1>14 DEF Tracks, Q
<1> QED BY <1>10, <1>15 DEF Ledger

\* The orphan directory is opened: what is in it is to be met as well.
LEMMA TracksLooks ==
  ASSUME disk \in DOMAIN Images, NEW w \in Walks, NEW b \in BOOLEAN, NEW V \in SUBSET (0..MaxKey), NEW g,
         Tracks(w, b, V, g), WalkOK(image, orphan_dir, w), w.pc = "opening", orphan_dir # NULL,
         NEW v \in Walks, Looks(w, v)
  PROVE  Ledger(v, g)
<1> DEFINE n == Len(w.frames)
           V2 == IF b THEN V ELSE V \ {OrphanDir}
           R == Found(w, V)
           Q == Found(v, V2)
<1>1. n \in Nat \ {0} /\ Pending(w) = 1 /\ OnPath(w, b) /\ OrphanDir \in 0..MaxKey
  BY InDirFacts, ImageFacts DEF Pending, Tracks
<1>2. /\ v.pc = "entry" /\ v.flags = w.flags /\ v.seen = w.seen /\ Len(v.frames) = n + 1
      /\ SameFrames(w, v, n) /\ v.frames[n + 1].dir = OrphanDir /\ v.frames[n + 1].i = 1
  BY <1>1, FrameGives DEF Looks, SameCall
<1>3. w.seen \in Seq(0..MaxKey) /\ Len(w.seen) \in 1..Len(w.seen) /\ w.seen[Len(w.seen)] = OrphanDir
  <2>1. w.seen \in Seq(0..MaxKey)
    BY WalkFields
  <2>2. Len(w.seen) > 0 /\ w.seen[Len(w.seen)] = OrphanDir
    BY DEF WalkOK
  <2>3. Len(w.seen) \in Nat
    BY <2>1, LenProperties
  <2> QED BY <2>1, <2>2, <2>3
<1>4. OrphanDir \in ToSet(w.seen)
  <2>1. ToSet(w.seen) = {w.seen[i] : i \in 1..Len(w.seen)}
    BY <1>3, SeenSet
  <2> QED BY <2>1, <1>3
<1>5. R \subseteq Q
  BY <1>2, <1>4 DEF Found
<1>6. V2 \in SUBSET (0..MaxKey) /\ V2 \subseteq V /\ (b => V2 = V) /\ (~b => OrphanDir \notin V2)
  OBVIOUS
<1>7. /\ \A d \in V : \A x \in NamesIn(View(b), d) : Met(x, w.flags, g, R)
      /\ \A k \in 1..n : \A p \in 1..Len(Names(w.frames[k].dir)) :
           p <= Past(w, k) => Met(Names(w.frames[k].dir)[p], w.flags, g, R)
      /\ g \subseteq Shown(View(b), w.flags)
  BY DEF Tracks
<1> HIDE DEF n, R, Q, V2
<1>8. \A k \in 1..n : v.frames[k].dir = w.frames[k].dir /\ Past(v, k) = Past(w, k)
  <2> TAKE k \in 1..n
  <2>1. k # n + 1
    BY <1>1
  <2>2. v.frames[k].dir = w.frames[k].dir /\ v.frames[k].i = w.frames[k].i
    BY <1>2 DEF SameFrames
  <2> QED BY <2>1, <2>2, <1>2 DEF Past
<1>9. Past(v, n + 1) = 0
  BY <1>2 DEF Past
<1>10. \A d \in V2 : NamesIn(View(TRUE), d) = NamesIn(View(b), d)
  <2>1. CASE b
    BY <2>1
  <2>2. CASE ~b
    BY <2>2, <1>6, ViewGives
  <2> QED BY <2>1, <2>2
<1>11. \A d \in V2 : \A x \in NamesIn(View(TRUE), d) : Met(x, w.flags, g, Q)
  BY <1>5, <1>6, <1>7, <1>10, MetMore
<1>12. ASSUME NEW k \in 1..n + 1, NEW p \in 1..Len(Names(v.frames[k].dir)), p <= Past(v, k)
       PROVE  Met(Names(v.frames[k].dir)[p], w.flags, g, Q)
  <2>1. Past(v, k) # 0
    BY <1>12
  <2>2. k \in 1..n
    BY <2>1, <1>1, <1>9
  <2> QED BY <2>2, <1>5, <1>7, <1>8, <1>12, MetMore
<1>13. OnPath(v, TRUE)
  <2>1. /\ Pending(v) = 0 /\ Len(w.frames) > 0 /\ Len(v.frames) = Len(w.frames) + 1
        /\ w.seen[Len(w.seen)] = v.frames[Len(w.frames) + 1].dir
    BY <1>1, <1>2, <1>3 DEF Pending, n
  <2> QED BY <2>1, <1>1, <1>2, <1>8, PathOpened DEF n
<1>14. g \subseteq Shown(View(TRUE), w.flags)
  <2>1. View(TRUE) = Seen /\ MoreIn(View(b), Seen, w.flags)
    BY ViewGives DEF View
  <2> QED BY <2>1, <1>7, MoreGives
<1>15. InOrphans(v, V2)
  <2>1. n + 1 \in 1..n + 1
    BY <1>1
  <2> QED BY <2>1, <1>2 DEF InOrphans
<1>16. Tracks(v, TRUE, V2, g)
  BY <1>2, <1>11, <1>12, <1>13, <1>14, <1>15 DEF Tracks, Q
<1> QED BY <1>6, <1>16 DEF Ledger

\* The directory that it has been through is done.
LEMMA TracksLeaves ==
  ASSUME disk \in DOMAIN Images, orphan_dir # NULL => orphan_dir \in Seq(Deleted(image)),
         NEW w \in Walks, NEW b \in BOOLEAN, NEW V \in SUBSET (0..MaxKey), NEW g,
         Tracks(w, b, V, g), WalkOK(image, orphan_dir, w), w.pc = "entry",
         ~(w.frames[Len(w.frames)].i <= Len(Names(w.frames[Len(w.frames)].dir))),
         NEW v \in Walks, NEW ret, Leaves(w, v, ret, Front(w.seen))
  PROVE  /\ Len(w.frames) > 1 => Ledger(v, g)
         /\ Len(w.frames) = 1 => AllShown(w.flags, g)
<1> DEFINE n == Len(w.frames)
           m == n - 1
           c == w.frames[n].dir
           V2 == V \union {c}
           R == Found(w, V)
<1>1. n \in Nat \ {0} /\ n \in 1..n /\ Pending(w) = 0 /\ OnPath(w, b) /\ (n = 1 \/ w.seen # << >>)
  BY InDirFacts DEF Pending, Tracks
<1>2. /\ v.flags = w.flags /\ Len(v.frames) = m /\ SameFrames(w, v, m - 1)
      /\ m > 0 => /\ v.pc = "entry" /\ v.seen = Front(w.seen)
                  /\ v.frames[m].dir = w.frames[m].dir /\ v.frames[m].i = w.frames[m].i + 1
  BY DEF Leaves, SameCall
<1>3. /\ b => orphan_dir # NULL /\ InOrphans(w, V)
      /\ ~b => \A k \in 1..n : w.frames[k].dir # OrphanDir
      /\ ~b /\ OrphanDir \in V => SearchMayFail
      /\ \A d \in V : \A x \in NamesIn(View(b), d) : Met(x, w.flags, g, R)
      /\ \A k \in 1..n : \A p \in 1..Len(Names(w.frames[k].dir)) :
           p <= Past(w, k) => Met(Names(w.frames[k].dir)[p], w.flags, g, R)
      /\ g \subseteq Shown(View(b), w.flags)
  BY DEF Tracks
<1>4. c \in 0..MaxKey /\ w.frames[n].i \in Nat /\ ~(w.frames[n].i <= Len(Names(c)))
  BY <1>1, WalkFields
<1>5. c \in Loadable(image) \/ (c = OrphanDir /\ orphan_dir # NULL)
  BY <1>1 DEF WalkOK
<1>6. /\ Len(w.seen) = m /\ w.seen \in Seq(0..MaxKey) /\ w.frames[1].dir = Root
      /\ \A k \in 1..n - 1 : w.frames[k + 1].dir = w.seen[k]
  <2>1. /\ Len(w.seen) = n - 1 + Pending(w) /\ w.seen \in Seq(0..MaxKey) /\ w.frames[1].dir = Root
        /\ \A k \in 1..n - 1 : w.frames[k + 1].dir = w.seen[k]
    <3>1. Len(w.frames) > 0
      BY <1>1
    <3> QED BY <3>1, <1>1, PathFacts
  <2> HIDE DEF n
  <2> QED BY <2>1, <1>1
<1>7. \A x \in NamesIn(View(b), c) : \E p \in 1..Len(Names(c)) : Names(c)[p] = x
  <2> HIDE DEF c
  <2>1. CASE c # OrphanDir
    <3>1. c \in Loadable(image) /\ NamesIn(View(b), c) = NamesIn(image, c)
      BY <2>1, <1>5, ViewGives
    <3> QED BY <3>1, NamesAreIn
  <2>2. CASE c = OrphanDir
    <3>1. b /\ orphan_dir # NULL
      BY <2>2, <1>1, <1>3 DEF c
    <3>2. NamesIn(View(b), c) = ToSet(Names(c))
      BY <2>2, <3>1, ViewGives
    <3>3. Names(c) \in Seq(NameSet)
      BY <2>2, <3>1, OrphanNamesFacts
    <3>4. ToSet(Names(c)) = {Names(c)[i] : i \in 1..Len(Names(c))}
      BY <3>3, SeenSet
    <3> QED BY <3>2, <3>4
  <2> QED BY <2>1, <2>2
<1>8. Len(Names(c)) \in Nat
  <2>1. CASE c \in Loadable(image)
    BY <2>1, NamesAreIn
  <2>2. CASE c = OrphanDir /\ orphan_dir # NULL
    <3>1. Names(c) \in Seq(NameSet)
      BY <2>2, OrphanNamesFacts
    <3> QED BY <3>1, LenProperties
  <2> QED BY <2>1, <2>2, <1>5
<1>9. \A x \in NamesIn(View(b), c) : Met(x, w.flags, g, R)
  <2> TAKE x \in NamesIn(View(b), c)
  <2>1. PICK p \in 1..Len(Names(c)) : Names(c)[p] = x
    BY <1>7
  <2>2. Past(w, n) = w.frames[n].i - 1
    BY DEF Past
  <2>3. \A q \in 1..Len(Names(c)) : q <= Past(w, n) => Met(Names(c)[q], w.flags, g, R)
    BY <1>1, <1>3
  <2> HIDE DEF R, c, n
  <2>4. p <= Past(w, n)
    BY <2>1, <2>2, <1>4, <1>8
  <2> QED BY <2>1, <2>3, <2>4
<1>10. \A d \in V2 : \A x \in NamesIn(View(b), d) : Met(x, w.flags, g, R)
  BY <1>3, <1>9
<1>11. V2 \in SUBSET (0..MaxKey) /\ (~b /\ OrphanDir \in V2 => SearchMayFail)
  BY <1>1, <1>3, <1>4
<1>12. CASE n = 1
  <2>1. R = V2
    <3>1. ToSet(w.seen) = {w.seen[i] : i \in 1..Len(w.seen)}
      BY <1>6, SeenSet
    <3>2. ToSet(w.seen) = {} /\ c = Root
      BY <3>1, <1>6, <1>12
    <3> QED BY <3>2 DEF Found
  <2>2. Root \in V2
    BY <1>6, <1>12
  <2>3. \A d \in V2 : Steps(View(b), d, w.flags) \subseteq V2
    <3>1. \A x : GoesInto(View(b), x, w.flags) = GoesInto(image, x, w.flags)
      BY ViewGives
    <3> HIDE DEF V2, R
    <3> QED BY <3>1, <2>1, <1>10 DEF Steps, Met
  <2> HIDE DEF V2, R
  <2>4. Reached(View(b), Root, w.flags) \subseteq V2
    BY <2>2, <2>3, ReachedGives
  <2>5. Shown(View(b), w.flags) \subseteq g
    BY <2>4, <1>10 DEF Shown, Below, Met
  <2>6. g = Shown(View(b), w.flags)
    BY <2>5, <1>3
  <2>7. AllShown(w.flags, g)
    <3>1. CASE b
      BY <3>1, <2>6, <1>3 DEF AllShown, View
    <3>2. CASE ~b
      BY <3>2, <2>4, <2>6, <1>11 DEF AllShown, View
    <3> QED BY <3>1, <3>2
  <2> QED BY <2>7, <1>12
<1>13. CASE n > 1
  <2> DEFINE Q == Found(v, V2)
  <2>1. /\ v.pc = "entry" /\ v.seen = Front(w.seen)
        /\ v.frames[m].dir = w.frames[m].dir /\ v.frames[m].i = w.frames[m].i + 1
    BY <1>1, <1>2, <1>13
  <2>2. m \in Nat \ {0} /\ n = m + 1
    BY <1>1, <1>13
  <2>3. c = w.seen[m] /\ w.seen # << >>
    BY <2>2, <1>1, <1>6, <1>13
  <2>4. R \subseteq Q
    <3>1. w.seen # << >> => ToSet(w.seen) = ToSet(Front(w.seen)) \union {w.seen[Len(w.seen)]}
      BY <1>6, SeenSet
    <3>2. ToSet(w.seen) = ToSet(v.seen) \union {c}
      BY <3>1, <2>1, <2>3, <1>6
    <3> HIDE DEF c
    <3> QED BY <3>2 DEF Found
  <2>5. c \in V2 /\ V \subseteq V2
    OBVIOUS
  <2> HIDE DEF Q, R, V2, m, n, c
  <2>6. \A k \in 1..n : k \in 1..m \/ k = n
    BY <2>2
  <2>7. \A k \in 1..m : k \in 1..n /\ k # n
    BY <2>2
  <2>8. \A k \in 1..m : v.frames[k].dir = w.frames[k].dir
    <3> TAKE k \in 1..m
    <3>1. k \in 1..m - 1 \/ k = m
      BY <2>2
    <3> QED BY <3>1, <2>1, <1>2 DEF SameFrames
  <2>9. \A k \in 1..m : Past(v, k) = Past(w, k)
    <3> TAKE k \in 1..m
    <3>1. w.frames[k].i \in Nat
      BY <2>7, WalkFields DEF n
    <3>2. Past(w, k) = w.frames[k].i
      BY <2>7 DEF Past, n
    <3>3. CASE k = m
      <4>1. Past(v, k) = v.frames[k].i - 1
        BY <3>3, <2>1, <1>2 DEF Past
      <4> QED BY <3>1, <3>2, <3>3, <4>1, <2>1
    <3>4. CASE k # m
      <4>1. k \in 1..m - 1
        BY <3>4, <2>2
      <4>2. Past(v, k) = v.frames[k].i
        BY <3>4, <1>2 DEF Past
      <4> QED BY <4>1, <4>2, <3>2, <1>2 DEF SameFrames
    <3> QED BY <3>3, <3>4
  <2>10. OnPath(v, b)
    <3>1. Pending(v) = 0 /\ m > 0 /\ m = n - 1 + 0 /\ n > 0
      BY <2>1, <2>2 DEF Pending
    <3>2. /\ Pending(v) = 0 /\ Len(v.frames) > 0 /\ Len(w.frames) > 0
          /\ Len(v.frames) = Len(w.frames) - 1 + Pending(w)
      BY <3>1, <1>1, <1>2 DEF n
    <3>3. \A k \in 1..Len(v.frames) : v.frames[k].dir = w.frames[k].dir
      BY <2>8, <1>2
    <3> QED BY <3>2, <3>3, <2>1, <2>3, <1>1, <1>2, PathShrinks
  <2>11. InOrphans(w, V) => InOrphans(v, V2)
    BY <2>5, <2>6, <2>8, <1>2 DEF InOrphans, n, c
  <2>12. \A d \in V2 : \A x \in NamesIn(View(b), d) : Met(x, w.flags, g, Q)
    BY <2>4, <1>10, MetMore
  <2>13. \A k \in 1..m : \A p \in 1..Len(Names(v.frames[k].dir)) :
           p <= Past(v, k) => Met(Names(v.frames[k].dir)[p], w.flags, g, Q)
    BY <2>4, <2>7, <2>8, <2>9, <1>3, MetMore
  <2>14. ~b => \A k \in 1..m : v.frames[k].dir # OrphanDir
    BY <2>7, <2>8, <1>3
  <2>15. Tracks(v, b, V2, g)
    BY <2>10, <2>11, <2>12, <2>13, <2>14, <1>2, <1>3, <1>11 DEF Tracks, Q
  <2>16. Ledger(v, g)
    BY <2>15, <1>11 DEF Ledger
  <2> QED BY <2>16, <1>13 DEF n
<1> QED BY <1>12, <1>13

\* A walk that comes to the depth limit shows that some way is too long.
LEMMA TooFarDownIsTooDeep ==
  ASSUME disk \in DOMAIN Images, NEW w \in Walks, NEW b \in BOOLEAN, NEW V, NEW g, Tracks(w, b, V, g),
         NEW e, Faces(w, b, e), GoesInto(image, e, w.flags), ~IsLoop(w, e), TooFarDown(w)
  PROVE  TooDeep(Seen, Root, w.flags)
<1> DEFINE n == Len(w.frames)
           D == MaxDepth
           im == View(b)
           a == e.addr
           f == [k \in 1..D + 1 |-> IF k <= n - 1 THEN w.seen[k] ELSE a]
<1>1. /\ n \in Nat \ {0} /\ w.seen \in Seq(0..MaxKey) /\ Len(w.seen) = n - 1 /\ OnPath(w, b)
      /\ a \in Steps(im, w.frames[n].dir, w.flags)
  BY FacesGives
<1>2. D \in Nat \ {0} /\ n - 1 >= D
  BY DirTreeAssumption DEF TooFarDown
<1>3. \A k \in 1..n - 1 : w.seen[k] # a
  <2>1. ToSet(w.seen) = {w.seen[i] : i \in 1..Len(w.seen)}
    BY <1>1, SeenSet
  <2> QED BY <2>1, <1>1 DEF IsLoop
<1>4. /\ w.frames[1].dir = Root
      /\ \A i, j \in 1..n - 1 : w.seen[i] = w.seen[j] => i = j
      /\ \A k \in 1..n - 1 :
           w.frames[k + 1].dir = w.seen[k] /\ w.seen[k] \in Steps(im, w.frames[k].dir, w.flags)
  BY <1>1 DEF OnPath
<1> HIDE DEF n, D, im, a
<1>5. \A k \in 1..D + 1 : k \in 1..n - 1 \/ (k = n /\ ~(k <= n - 1))
  BY <1>1, <1>2
<1>6. \A k \in 1..D + 1 : /\ k \in 1..n - 1 => f[k] = w.seen[k]
                          /\ k = n => f[k] = a
  BY <1>1, <1>2
<1>7. ASSUME NEW k \in 1..D + 1
      PROVE  f[k] \in Steps(im, IF k = 1 THEN Root ELSE f[k - 1], w.flags)
  <2>1. f[k] \in Steps(im, w.frames[k].dir, w.flags)
    BY <1>1, <1>4, <1>5, <1>6
  <2>2. CASE k = 1
    BY <2>1, <2>2, <1>4
  <2>3. CASE k # 1
    <3>1. k - 1 \in 1..D + 1 /\ k - 1 \in 1..n - 1 /\ (k - 1) + 1 = k
      BY <2>3, <1>2, <1>5
    <3>2. f[k - 1] = w.frames[k].dir
      BY <3>1, <1>4, <1>6
    <3> QED BY <3>2, <2>1, <2>3
  <2> QED BY <2>2, <2>3
<1>8. \A i, j \in 1..D + 1 : f[i] = f[j] => i = j
  <2> HIDE DEF f
  <2> QED BY <1>3, <1>4, <1>5, <1>6
<1>9. f \in [1..D + 1 -> Places(im, Root, w.flags)]
  <2>1. \A k \in 1..D + 1 : f[k] \in Places(im, Root, w.flags)
    BY <1>7, StepsArePlaces
  <2>2. f = [k \in 1..D + 1 |-> f[k]]
    OBVIOUS
  <2> HIDE DEF f
  <2> QED BY <2>1, <2>2
<1>10. DOMAIN f = 1..D + 1
  OBVIOUS
<1> HIDE DEF f
<1>11. IsWay(im, Root, w.flags, f)
  BY <1>7, <1>8, <1>10 DEF IsWay
<1>12. TooDeep(im, Root, w.flags)
  BY <1>9, <1>11 DEF TooDeep, D
<1>13. MoreIn(im, Seen, w.flags)
  BY ViewGives DEF im
<1> QED BY <1>12, <1>13, MoreGives

\* The walk goes on from name e.
LEMMA TracksGoesOn ==
  ASSUME disk \in DOMAIN Images, NEW w \in Walks, NEW b \in BOOLEAN, NEW V \in SUBSET (0..MaxKey), NEW g,
         Tracks(w, b, V, g), NEW e, Faces(w, b, e), NEW u \in Walks, Amended(w, u),
         NEW v \in Walks, GoneOn(u, v, e), ~TooDeep(Seen, Root, w.flags)
  PROVE  Ledger(v, Hears(g, e, w.flags))
<1>1. u.flags = w.flags /\ u.pc = w.pc /\ u.frames = w.frames
  BY DEF Amended, SameCall
<1>2. Tracks(u, b, V, g) /\ Faces(u, b, e)
  <2>1. Tracks(u, b, V, g)
    BY TracksAmended
  <2>2. Faces(u, b, e)
    BY <1>1 DEF Faces
  <2> QED BY <2>1, <2>2
<1>3. CASE AfterSkips(u, e) /\ Skips(u, v)
  <2>1. Ledger(v, Hears(g, e, u.flags))
    BY <1>2, <1>3, TracksSkips
  <2> QED BY <2>1, <1>1
<1>4. CASE Down(u, e) /\ e.addr # OrphanDir /\ Enters(u, v, e.addr)
  <2>1. Ledger(v, Hears(g, e, u.flags))
    BY <1>2, <1>4, TracksDown
  <2> QED BY <2>1, <1>1
<1>5. CASE Down(u, e) /\ e.addr = OrphanDir /\ Opens(u, v)
  <2>1. Ledger(v, Hears(g, e, u.flags))
    BY <1>2, <1>5, TracksDown
  <2> QED BY <2>1, <1>1
<1>6. CASE GoesInto(image, e, u.flags) /\ ~IsLoop(u, e) /\ TooFarDown(u)
  <2>1. TooDeep(Seen, Root, u.flags)
    BY <1>2, <1>6, TooFarDownIsTooDeep
  <2> QED BY <2>1, <1>1
<1> QED BY <1>3, <1>4, <1>5, <1>6 DEF GoneOn

\* It begins with the root directory.
LEMMA TracksRoot ==
  ASSUME NEW v \in Walks, v.pc = "entry", v.seen = << >>, Len(v.frames) = 1, v.frames[1] = Frame(Root)
  PROVE  Ledger(v, {})
<1>1. v.frames[1].dir = Root /\ v.frames[1].i = 1 /\ Root # OrphanDir
  BY FrameGives, ImagesAssumption, DirTreeAssumption
<1>2. \A k \in 1..Len(v.frames) : k = 1
  OBVIOUS
<1>3. Len(v.seen) = 0 /\ Pending(v) = 0 /\ Past(v, 1) = 0
  BY <1>1 DEF Pending, Past
<1>4. OnPath(v, FALSE)
  BY <1>1, <1>3 DEF OnPath
<1>5. \A k \in 1..Len(v.frames) : \A p \in 1..Len(Names(v.frames[k].dir)) : ~(p <= Past(v, k))
  BY <1>2, <1>3
<1>6. Tracks(v, FALSE, {}, {})
  BY <1>1, <1>2, <1>4, <1>5 DEF Tracks
<1> QED BY <1>6 DEF Ledger

-----------------------------------------------------------------------------
(* What a step leaves of that as it is *)

LEMMA SeenIsNow == SeenIs
BY SeenNames DEF SeenIs

LEMMA SeenIsNext == SeenIs'
BY SeenIsNow, PTL

LEMMA SameLedger ==
  ASSUME disk' = disk, orphan_dir' = orphan_dir
  PROVE  /\ \A w, g : Ledger(w, g) => Ledger(w, g)'
         /\ \A flags, g : AllShown(flags, g) => AllShown(flags, g)'
         /\ \A flags : TooDeep(Seen, Root, flags) => TooDeep(Seen, Root, flags)'
<1>1. image' = image
  BY DEF image
<1>2. \A d : Names(d)' = Names(d)
  BY DEF Names
<1>3. Seen' = Seen
  BY <1>1, <1>2 DEF Seen
<1>4. SearchMayFail' = SearchMayFail
  BY <1>1 DEF SearchMayFail
<1>5. \A b : View(b)' = View(b)
  BY <1>1, <1>3 DEF View
<1>6. \A e, flags, g, R : Met(e, flags, g, R)' = Met(e, flags, g, R)
  BY <1>1 DEF Met
<1>7. \A w, b : OnPath(w, b)' = OnPath(w, b)
  BY <1>5 DEF OnPath
<1>8. ASSUME NEW w, NEW b, NEW V, NEW g, Tracks(w, b, V, g) PROVE Tracks(w, b, V, g)'
  BY <1>2, <1>4, <1>5, <1>6, <1>7, <1>8 DEF Tracks
<1>9. \A w, g : Ledger(w, g) => Ledger(w, g)'
  BY <1>8 DEF Ledger
<1>10. \A flags, g : AllShown(flags, g) => AllShown(flags, g)'
  BY <1>1, <1>3, <1>4 DEF AllShown
<1>11. \A flags : TooDeep(Seen, Root, flags) => TooDeep(Seen, Root, flags)'
  BY <1>3
<1> QED BY <1>9, <1>10, <1>11

\* A walk that has not been in the orphan directory has met none of its names
\* when it is made.
LEMMA LedgerStays ==
  ASSUME disk \in DOMAIN Images, disk' = disk, Made
  PROVE  /\ \A w, g : Ledger(w, g) => Ledger(w, g)'
         /\ \A flags, g : AllShown(flags, g) => AllShown(flags, g)'
         /\ \A flags : TooDeep(Seen, Root, flags) => TooDeep(Seen, Root, flags)'
<1>1. CASE orphan_dir' = orphan_dir
  BY <1>1, SameLedger
<1>2. CASE orphan_dir = NULL
  <2>1. image' = image
    BY DEF image
  <2>2. \A d : d # OrphanDir => Names(d)' = Names(d)
    BY DEF Names
  <2>3. SearchMayFail' = SearchMayFail
    BY <2>1 DEF SearchMayFail
  <2>4. \A e, flags, g, R : Met(e, flags, g, R)' = Met(e, flags, g, R)
    BY <2>1 DEF Met
  <2>5. \A b : ~b => View(b) = image /\ View(b)' = image
    BY <2>1 DEF View
  <2>6. ASSUME NEW w, NEW b, NEW V, NEW g, Tracks(w, b, V, g) PROVE Tracks(w, b, V, g)'
    <3>1. ~b /\ \A k \in 1..Len(w.frames) : w.frames[k].dir # OrphanDir
      BY <1>2, <2>6 DEF Tracks
    <3>2. View(b) = image /\ View(b)' = image
      BY <3>1, <2>5
    <3>3. OnPath(w, b)'
      BY <3>2, <2>6 DEF Tracks, OnPath
    <3>4. \A k \in 1..Len(w.frames) : Names(w.frames[k].dir)' = Names(w.frames[k].dir)
      BY <3>1, <2>2
    <3> QED BY <3>1, <3>2, <3>3, <3>4, <2>3, <2>4, <2>6 DEF Tracks
  <2>7. \A w, g : Ledger(w, g) => Ledger(w, g)'
    BY <2>6 DEF Ledger
  <2>8. \A flags, g : AllShown(flags, g) => AllShown(flags, g)'
    BY <1>2, <2>1, <2>3 DEF AllShown
  <2>9. ASSUME NEW flags, TooDeep(Seen, Root, flags) PROVE TooDeep(Seen, Root, flags)'
    <3>1. PICK im, jm : im = Seen /\ jm = Seen'
      OBVIOUS
    <3>2. /\ \A d : d # OrphanDir => NamesIn(im, d) = NamesIn(image, d)
          /\ NamesIn(im, OrphanDir) = {}
          /\ \A e : GoesInto(im, e, flags) = GoesInto(image, e, flags)
      BY <1>2, <3>1, SeenIsNow DEF SeenIs
    <3>3. /\ \A d : d # OrphanDir => NamesIn(jm, d) = NamesIn(image, d)
          /\ \A e : GoesInto(jm, e, flags) = GoesInto(image, e, flags)
      BY <2>1, <3>1, SeenIsNext DEF SeenIs
    <3>4. MoreIn(im, jm, flags)
      <4>1. \A d : d = OrphanDir \/ d # OrphanDir
        OBVIOUS
      <4> QED BY <4>1, <3>2, <3>3 DEF MoreIn
    <3>5. TooDeep(jm, Root, flags)
      BY <2>9, <3>1, <3>4, MoreGives
    <3> QED BY <3>1, <3>5
  <2> QED BY <2>7, <2>8, <2>9
<1> QED BY <1>1, <1>2 DEF Made

LEMMA SeesStays ==
  ASSUME disk \in DOMAIN Images, disk' = disk, Made, NEW t, t \in refused => t \in refused'
  PROVE  /\ \A w, flags, g : Sees(t, w, flags, g) => Sees(t, w, flags, g)'
         /\ \A s, b, flags, g : Shows(t, s, b, flags, g) => Shows(t, s, b, flags, g)'
<1>1. /\ \A w, g : Ledger(w, g) => Ledger(w, g)'
      /\ \A flags, g : AllShown(flags, g) => AllShown(flags, g)'
      /\ \A flags : TooDeep(Seen, Root, flags) => TooDeep(Seen, Root, flags)'
  BY LedgerStays
<1>2. \A flags : Heard(t, flags)' => Heard(t, flags)
  BY <1>1 DEF Heard
<1>3. ASSUME NEW w, NEW flags, NEW g, Sees(t, w, flags, g) PROVE Sees(t, w, flags, g)'
  BY <1>1, <1>2, <1>3 DEF Sees
<1>4. ASSUME NEW s, NEW b, NEW flags, NEW g, Shows(t, s, b, flags, g) PROVE Shows(t, s, b, flags, g)'
  BY <1>1, <1>2, <1>3, <1>4 DEF Shows
<1> QED BY <1>3, <1>4

-----------------------------------------------------------------------------
(* When a search for orphans fails *)

LEMMA FailsStay ==
  ASSUME disk' = disk
  PROVE  (CanFail <=> CanFail') /\ \A s, b : FailsOK(s, b) => FailsOK(s, b)'
<1>1. image' = image
  BY DEF image
<1>2. CanFail' = CanFail
  BY <1>1 DEF CanFail, SearchMayFail
<1>3. \A w : Fails(w)' = Fails(w)
  BY <1>1, <1>2 DEF Fails
<1> QED BY <1>2, <1>3 DEF FailsOK

LEMMA FailStep ==
  ASSUME TypeInv, FailInv, NEW t \in Threads, disk' = disk, NEW r, NEW b,
         stack' = [stack EXCEPT ![t] = r], back' = [back EXCEPT ![t] = b], FailsOK(r, b)
  PROVE  FailInv'
<1>1. stack \in [Threads -> Seq(Jobs)] /\ back \in [Threads -> Returned]
  BY ThreadFacts
<1>2. ASSUME NEW u \in Threads PROVE FailsOK(stack[u], back[u])'
  <2>1. PICK s, c : s = stack[u] /\ c = back[u]
    OBVIOUS
  <2>2. FailsOK(s, c)' /\ FailsOK(r, b)'
    BY <2>1, FailsStay DEF FailInv
  <2>3. (stack'[u] = s /\ back'[u] = c) \/ (stack'[u] = r /\ back'[u] = b)
    BY <1>1, <2>1
  <2> QED BY <2>2, <2>3 DEF FailsOK
<1> QED BY <1>2 DEF FailInv

LEMMA FailsReplaced ==
  ASSUME NEW s, StackOK(s), s # << >>, NEW b, FailsOK(s, b), NEW r, NEW j, Replaced(s, r, j),
         NEW S, r \in Seq(S), IsNested(j) => Fails(j), ~Waits(j)
  PROVE  FailsOK(r, b)
<1> DEFINE n == Len(s)
<1>1. n \in Nat \ {0} /\ Len(r) = n /\ r[n] = j /\ \A i \in 1..n - 1 : r[i] = s[i]
  BY StackFacts DEF Replaced
<1>2. Last(r) = j
  BY <1>1, FrontLast, EmptySeq
<1>3. ASSUME NEW i \in 1..n, IsNested(r[i]) PROVE Fails(r[i])
  <2>1. i \in 1..n - 1 \/ i = n
    BY <1>1
  <2>2. \A k \in 1..n : IsNested(s[k]) => Fails(s[k])
    BY DEF FailsOK
  <2> QED BY <2>1, <2>2, <1>1, <1>3
<1> QED BY <1>1, <1>2, <1>3 DEF FailsOK

LEMMA FailsPushed ==
  ASSUME NEW s, StackOK(s), s # << >>, NEW b, FailsOK(s, b), NEW r, NEW j, NEW k, Pushed(s, r, j, k),
         NEW S, r \in Seq(S), IsNested(j) => Fails(j), IsNested(k) => Fails(k), ~Waits(k)
  PROVE  FailsOK(r, b)
<1> DEFINE n == Len(s)
<1>1. n \in Nat \ {0} /\ Len(r) = n + 1 /\ r[n] = j /\ r[n + 1] = k /\ \A i \in 1..n - 1 : r[i] = s[i]
  BY StackFacts DEF Pushed
<1>2. Last(r) = k
  <2>1. r # << >>
    BY <1>1, EmptySeq
  <2> QED BY <2>1, <1>1, FrontLast
<1>3. ASSUME NEW i \in 1..n + 1, IsNested(r[i]) PROVE Fails(r[i])
  <2>1. i \in 1..n - 1 \/ i = n \/ i = n + 1
    BY <1>1
  <2>2. \A m \in 1..n : IsNested(s[m]) => Fails(s[m])
    BY DEF FailsOK
  <2>3. \A m \in 1..n - 1 : m \in 1..n
    BY <1>1
  <2> QED BY <2>1, <2>2, <2>3, <1>1, <1>3
<1> QED BY <1>1, <1>2, <1>3 DEF FailsOK

LEMMA FailsPopped ==
  ASSUME NEW s, StackOK(s), s # << >>, NEW b, FailsOK(s, b), NEW r, Popped(s, r),
         r \in Seq(Jobs), NEW c, c = "ERROR" /\ ~IsUser(Last(s)) => CanFail
  PROVE  FailsOK(r, c)
<1> DEFINE n == Len(s)
<1>1. n \in Nat \ {0} /\ Len(r) = n - 1 /\ Last(s) = s[n] /\ \A i \in 1..n - 1 : r[i] = s[i]
  BY StackFacts DEF Popped
<1>2. ASSUME NEW i \in 1..n - 1, IsNested(r[i]) PROVE Fails(r[i])
  <2>1. i \in 1..n
    <3> HIDE DEF n
    <3> QED BY <1>1
  <2> QED BY <2>1, <1>1, <1>2 DEF FailsOK
<1>3. ASSUME r # << >>, c = "ERROR" PROVE CanFail \/ n = 1
  <2>1. IsUser(s[n]) => n = 1
    BY <1>1 DEF StackOK
  <2> QED BY <2>1, <1>1, <1>3
<1>4. n = 1 => r = << >>
  BY <1>1, EmptySeq
<1> QED BY <1>1, <1>2, <1>3, <1>4 DEF FailsOK

\* The name that the walk is at has been dealt with.
LEMMA AfterGoesOn ==
  ASSUME NEW u \in Walks, u.frames # << >>, Len(u.frames) = 1 \/ u.seen # << >>, NEW e \in NameSet
  PROVE  \E v \in Walks :
           /\ GoneOn(u, v, e) /\ v.action = u.action
           /\ \/ v.pc = "entry" /\ After(u, e) = <<v>>
              \/ v.pc = "opening" /\ After(u, e) = <<v, SearchAfter(-1)>>
<1>1. CASE \E v \in Walks : AfterSkips(u, e) /\ After(u, e) = <<v>> /\ Skips(u, v)
  <2>1. PICK v \in Walks : AfterSkips(u, e) /\ After(u, e) = <<v>> /\ Skips(u, v)
    BY <1>1
  <2>2. v.pc = "entry" /\ v.action = u.action
    BY <2>1 DEF Skips, SameCall
  <2> QED BY <2>1, <2>2, Zenon DEF GoneOn
<1>2. CASE \E v \in Walks : /\ Down(u, e) /\ e.addr \in Loadable(image) \ {OrphanDir}
                            /\ After(u, e) = <<v>> /\ Enters(u, v, e.addr)
  <2>1. PICK v \in Walks : /\ Down(u, e) /\ e.addr \in Loadable(image) \ {OrphanDir}
                           /\ After(u, e) = <<v>> /\ Enters(u, v, e.addr)
    BY <1>2
  <2>2. v.pc = "entry" /\ v.action = u.action
    BY <2>1 DEF Enters, SameCall
  <2> QED BY <2>1, <2>2, Zenon DEF GoneOn
<1>3. CASE \E v \in Walks : /\ Down(u, e) /\ e.addr = OrphanDir
                            /\ After(u, e) = <<v, SearchAfter(-1)>> /\ Opens(u, v)
  <2>1. PICK v \in Walks : /\ Down(u, e) /\ e.addr = OrphanDir
                           /\ After(u, e) = <<v, SearchAfter(-1)>> /\ Opens(u, v)
    BY <1>3
  <2>2. v.pc = "opening" /\ v.action = u.action
    BY <2>1 DEF Opens, SameCall
  <2> QED BY <2>1, <2>2, Zenon DEF GoneOn
<1>4. CASE \E v \in Walks : /\ GoesInto(image, e, u.flags) /\ ~IsLoop(u, e) /\ TooFarDown(u)
                            /\ After(u, e) = <<v>> /\ Leaves(u, v, "ERROR", u.seen)
  <2>1. PICK v \in Walks : /\ GoesInto(image, e, u.flags) /\ ~IsLoop(u, e) /\ TooFarDown(u)
                           /\ After(u, e) = <<v>> /\ Leaves(u, v, "ERROR", u.seen)
    BY <1>4
  <2>2. Len(u.frames) - 1 > 0
    <3>1. Len(u.frames) - 1 >= MaxDepth /\ Len(u.frames) \in Nat
      BY <2>1, WalkFields DEF TooFarDown
    <3> QED BY <3>1, DirTreeAssumption
  <2>3. v.pc = "entry" /\ v.action = u.action
    BY <2>1, <2>2 DEF Leaves, SameCall
  <2> QED BY <2>1, <2>3, Zenon DEF GoneOn
<1> QED BY <1>1, <1>2, <1>3, <1>4, AfterGives, Zenon

LEMMA VisitGoesOn ==
  ASSUME TypeInv, NEW t \in Threads, VisitName(t)
  PROVE  /\ AtName(t) /\ CallsBack(t, "CONT") /\ back' = back /\ disk' = disk /\ orphan_dir' = orphan_dir
         /\ \E s \in Seq(Jobs) : \E u \in Walks, v \in Walks : Visits(t, s, u, v)
<1> DEFINE w == Top(t)
           e == Name(t)
           last == IsLastName(t)
           u == Visited(w, e, last)
<1>1. /\ AtName(t) /\ CallsBack(t, "CONT") /\ e \in NameSet
      /\ w \in Walks /\ w.pc = "entry" /\ w.frames # << >> /\ (Len(w.frames) = 1 \/ w.seen # << >>)
      /\ stack' = [stack EXCEPT ![t] = Remembering(t, Front(stack[t]), e) \o After(u, e)]
      /\ disk' = disk /\ orphan_dir' = orphan_dir /\ back' = back
  BY VisitGives
<1>2. At(t, "walk", "entry")
  BY <1>1 DEF AtName, InDir
<1>3. PICK s \in Seq(Jobs) :
        /\ StackOK(s) /\ s # << >> /\ Len(s) = Len(stack[t]) /\ Last(s) = w
        /\ Front(s) = Remembering(t, Front(stack[t]), e)
        /\ ~Remembers(w, e) => s = stack[t]
        /\ Remembers(w, e) =>
             /\ Len(s) > 1 /\ IsSearch(stack[t][Len(s) - 1])
             /\ Told(stack[t][Len(s) - 1], s[Len(s) - 1], e.addr)
             /\ \A i \in 1..Len(s) : i # Len(s) - 1 => s[i] = stack[t][i]
  BY <1>1, <1>2, RememberingGives
<1>4. last \in BOOLEAN
  BY DEF IsLastName
<1> HIDE DEF last, e, w
<1>5. u \in Walks /\ Amended(w, u)
  BY <1>1, <1>4, VisitedGives
<1> HIDE DEF u
<1>6. /\ u.frames # << >> /\ (Len(u.frames) = 1 \/ u.seen # << >>) /\ u.action = w.action
  BY <1>1, <1>5 DEF Amended, SameCall
<1>7. PICK v \in Walks :
        /\ GoneOn(u, v, e) /\ v.action = u.action
        /\ \/ v.pc = "entry" /\ After(u, e) = <<v>>
           \/ v.pc = "opening" /\ After(u, e) = <<v, SearchAfter(-1)>>
  BY <1>1, <1>5, <1>6, AfterGoesOn
<1>8. \A i \in 1..Len(s) : s[i] = stack[t][i] \/ (i = Len(s) - 1 /\ IsSearch(s[i]))
  <2>1. Remembers(w, e) => IsSearch(s[Len(s) - 1])
    BY <1>3 DEF Told, Searches, IsSearch
  <2> QED BY <2>1, <1>3
<1>9. \/ v.pc = "entry" /\ stack' = [stack EXCEPT ![t] = Front(s) \o <<v>>]
      \/ v.pc = "opening" /\ stack' = [stack EXCEPT ![t] = Front(s) \o <<v, SearchAfter(-1)>>]
  <2>1. stack' = [stack EXCEPT ![t] = Front(s) \o After(u, e)]
    BY <1>1, <1>3
  <2> QED BY <2>1, <1>7
<1>10. Visits(t, s, u, v)
  <2>1. /\ StackOK(s) /\ s # << >> /\ Len(s) = Len(stack[t]) /\ Last(s) = Top(t)
        /\ Amended(Top(t), u) /\ GoneOn(u, v, Name(t)) /\ v.action = Top(t).action
    BY <1>3, <1>5, <1>6, <1>7 DEF w, e
  <2> HIDE DEF w, e
  <2> QED BY <2>1, <1>8, <1>9 DEF Visits
<1> QED BY <1>1, <1>5, <1>10

\* A step, by how it changes the stack.
LEMMA FailGoesOn ==
  ASSUME TypeInv, FailInv, NEW t \in Threads, stack[t] # << >>, disk' = disk,
         NEW j, GoesOn(t, j), IsNested(j) => Fails(j), ~Waits(j)
  PROVE  FailInv'
<1>1. PICK s, b, r : s = stack[t] /\ b = back[t] /\ r = Append(Front(s), j)
  OBVIOUS
<1>2. /\ StackOK(s) /\ s # << >> /\ s \in Seq(Jobs) /\ FailsOK(s, b)
      /\ back \in [Threads -> Returned]
  BY <1>1, ThreadFacts DEF FailInv
<1>3. s \in Seq(Jobs \union {j}) /\ j \in Jobs \union {j}
  BY <1>2
<1>4. Replaced(s, r, j) /\ r \in Seq(Jobs \union {j})
  BY <1>1, <1>2, <1>3, FrontReplaced
<1>5. FailsOK(r, b)
  BY <1>2, <1>4, FailsReplaced
<1>6. stack' = [stack EXCEPT ![t] = r] /\ back' = [back EXCEPT ![t] = b]
  BY <1>1, <1>2 DEF GoesOn
<1> QED BY <1>5, <1>6, FailStep

LEMMA FailStarts ==
  ASSUME TypeInv, FailInv, NEW t \in Threads, stack[t] # << >>, disk' = disk,
         NEW j, NEW k, Starts(t, j, k),
         IsNested(j) => Fails(j), IsNested(k) => Fails(k), ~Waits(k)
  PROVE  FailInv'
<1>1. PICK s, b, r : s = stack[t] /\ b = back[t] /\ r = Front(s) \o <<j, k>>
  OBVIOUS
<1>2. /\ StackOK(s) /\ s # << >> /\ s \in Seq(Jobs) /\ FailsOK(s, b)
      /\ back \in [Threads -> Returned]
  BY <1>1, ThreadFacts DEF FailInv
<1>3. s \in Seq(Jobs \union {j, k}) /\ j \in Jobs \union {j, k} /\ k \in Jobs \union {j, k}
  BY <1>2
<1>4. Pushed(s, r, j, k) /\ r \in Seq(Jobs \union {j, k})
  BY <1>1, <1>2, <1>3, FrontPushed
<1>5. FailsOK(r, b)
  BY <1>2, <1>4, FailsPushed
<1>6. stack' = [stack EXCEPT ![t] = r] /\ back' = [back EXCEPT ![t] = b]
  BY <1>1, <1>2 DEF Starts
<1> QED BY <1>5, <1>6, FailStep

LEMMA FailReturns ==
  ASSUME TypeInv, FailInv, NEW t \in Threads, stack[t] # << >>, disk' = disk,
         NEW c, Returns(t, c), c = "ERROR" /\ ~IsUser(Top(t)) => CanFail
  PROVE  FailInv'
<1>1. PICK s, b, r : s = stack[t] /\ b = back[t] /\ r = Front(s)
  OBVIOUS
<1>2. StackOK(s) /\ s # << >> /\ FailsOK(s, b) /\ Last(s) = Top(t)
  BY <1>1, ThreadFacts DEF FailInv, Top
<1>3. Popped(s, r) /\ r \in Seq(Jobs)
  BY <1>1, <1>2, PoppedOK DEF StackOK
<1>4. FailsOK(r, c)
  BY <1>2, <1>3, FailsPopped
<1>5. stack' = [stack EXCEPT ![t] = r] /\ back' = [back EXCEPT ![t] = c]
  BY <1>1 DEF Returns
<1> QED BY <1>4, <1>5, FailStep

\* The walk on top goes on.
LEMMA WalkGoesOnFails ==
  ASSUME TypeInv, FailInv, NEW t \in Threads, NEW p, At(t, "walk", p), disk' = disk,
         NEW v \in Walks, GoesOn(t, v), v.pc # "opening", IsNested(v) => Fails(v)
  PROVE  FailInv'
<1>1. stack[t] # << >>
  BY DEF At
<1>2. ~Waits(v)
  BY WalkFields DEF Waits, IsSearch, IsUser
<1> QED BY <1>1, <1>2, FailGoesOn

LEMMA VisitNameFails ==
  ASSUME TypeInv, FailInv, NEW t \in Threads, VisitName(t)
  PROVE  FailInv'
<1>1. AtName(t) /\ back' = back /\ disk' = disk /\ stack[t] # << >>
  BY VisitGoesOn DEF AtName, InDir, At
<1>2. PICK s \in Seq(Jobs), u \in Walks, v \in Walks : Visits(t, s, u, v)
  BY VisitGoesOn
<1>3. PICK b, w : b = back[t] /\ w = Top(t)
  OBVIOUS
<1>4. /\ StackOK(s) /\ s # << >> /\ Len(s) = Len(stack[t]) /\ Last(s) = w
      /\ \A i \in 1..Len(s) : s[i] = stack[t][i] \/ (i = Len(s) - 1 /\ IsSearch(s[i]))
      /\ \/ v.pc = "entry" /\ stack' = [stack EXCEPT ![t] = Front(s) \o <<v>>]
         \/ v.pc = "opening" /\ stack' = [stack EXCEPT ![t] = Front(s) \o <<v, SearchAfter(-1)>>]
  BY <1>2, <1>3 DEF Visits
<1>5. /\ w.kind = "walk" /\ w.pc = "entry" /\ v.kind = "walk"
      /\ back \in [Threads -> Returned] /\ FailsOK(stack[t], b)
  BY <1>1, <1>3, ThreadFacts, WalkFields DEF AtName, InDir, At, FailInv
<1>6. FailsOK(s, b)
  <2>1. \A i \in 1..Len(s) : IsNested(s[i]) => s[i] = stack[t][i]
    BY <1>4 DEF IsNested, IsSearch
  <2>2. \A i \in 1..Len(s) : IsNested(s[i]) => Fails(s[i])
    BY <2>1, <1>4, <1>5 DEF FailsOK
  <2>3. ~Waits(Last(s))
    BY <1>4, <1>5 DEF Waits, IsSearch
  <2> QED BY <2>2, <2>3 DEF FailsOK
<1>7. v.pc \in {"entry", "opening"} /\ Fails(v)
  BY <1>4 DEF Fails
<1>8. back' = [back EXCEPT ![t] = b]
  BY <1>1, <1>3, <1>5
<1>9. CASE v.pc = "entry" /\ stack' = [stack EXCEPT ![t] = Front(s) \o <<v>>]
  <2>1. PICK r : r = Front(s) \o <<v>>
    OBVIOUS
  <2>2. s \in Seq(Jobs \union {v}) /\ v \in Jobs \union {v}
    OBVIOUS
  <2>3. Replaced(s, r, v) /\ r \in Seq(Jobs \union {v})
    BY <2>1, <2>2, <1>4, FrontReplaced
  <2>4. ~Waits(v)
    BY <1>5, <1>9 DEF Waits, IsSearch
  <2>5. FailsOK(r, b)
    BY <2>3, <2>4, <1>4, <1>6, <1>7, FailsReplaced
  <2> QED BY <2>1, <2>5, <1>1, <1>8, <1>9, FailStep
<1>10. CASE v.pc = "opening" /\ stack' = [stack EXCEPT ![t] = Front(s) \o <<v, SearchAfter(-1)>>]
  <2>1. PICK k, r : k = SearchAfter(-1) /\ r = Front(s) \o <<v, k>>
    OBVIOUS
  <2>2. /\ s \in Seq(Jobs \union {v, k}) /\ v \in Jobs \union {v, k} /\ k \in Jobs \union {v, k}
    OBVIOUS
  <2>3. Pushed(s, r, v, k) /\ r \in Seq(Jobs \union {v, k})
    BY <2>1, <2>2, <1>4, FrontPushed
  <2>4. IsSearch(k) /\ k.pc = "lock"
    BY <2>1, SearchAfterGives
  <2>5. ~Waits(k) /\ ~IsNested(k)
    BY <2>4 DEF Waits, IsNested, IsSearch, IsUser
  <2>6. FailsOK(r, b)
    BY <2>3, <2>5, <1>4, <1>6, <1>7, FailsPushed
  <2> QED BY <2>1, <2>6, <1>1, <1>8, <1>10, FailStep
<1> QED BY <1>4, <1>9, <1>10

LEMMA CheckNamedFails ==
  ASSUME TypeInv, FailInv, NEW t \in Threads, CheckNamed(t)
  PROVE  FailInv'
<1> DEFINE w == Top(t)
           save == list_inum_named = Empty /\ w.addr = Root /\ "RECURSE" \in w.flags
           v == Into([w EXCEPT !.save = save])
<1>1. /\ At(t, "walk", "check") /\ GoesOn(t, v) /\ disk' = disk
  BY Zenon DEF CheckNamed
<1>2. /\ w \in Walks /\ WalkOK(image, orphan_dir, w) /\ w.pc = "check"
      /\ stack[t] # << >> /\ w = Last(stack[t]) /\ StackOK(stack[t]) /\ FailsOK(stack[t], back[t])
  BY <1>1, TopFacts, ThreadFacts DEF FailInv
<1>3. IsNested(w) => Fails(w)
  BY <1>2, StackFacts DEF FailsOK
<1> HIDE DEF w
<1>4. w.frames = << >> /\ save \in BOOLEAN
  BY <1>2 DEF WalkOK
<1> HIDE DEF save
<1>5. /\ v \in Walks /\ SameCall(w, v)
      /\ w.addr \in Loadable(image) => v.pc = "entry"
      /\ w.addr \notin Loadable(image) => v.pc = "returned"
  BY <1>2, <1>4, IntoGives
<1> HIDE DEF v
<1>6. v.pc # "opening"
  BY <1>5
<1>7. IsNested(v) => IsNested(w)
  BY <1>2, <1>5, WalkFields DEF IsNested, SameCall
<1>8. IsNested(v) => Fails(v)
  <2> SUFFICES ASSUME IsNested(v), v.pc = "returned" PROVE CanFail
    BY <1>5 DEF Fails
  <2>1. w.addr \notin Loadable(image)
    BY <1>5
  <2>2. w.addr = Root \/ (w.addr \in Deleted(image) /\ image.meta[w.addr].dir)
    BY <1>2, <1>3, <1>7 DEF Fails
  <2> QED BY <2>1, <2>2 DEF CanFail, SearchMayFail, Loadable
<1> QED BY <1>1, <1>5, <1>6, <1>8, WalkGoesOnFails

LEMMA OrphanDirOpenedFails ==
  ASSUME TypeInv, FailInv, NEW t \in Threads, OrphanDirOpened(t)
  PROVE  FailInv'
<1>1. At(t, "walk", "opening") /\ disk' = disk /\ Top(t) \in Walks /\ IsUser(Top(t))
  BY OrphanDirOpenedGives
<1>2. PICK v \in Walks : GoesOn(t, v) /\ (Resumes(Top(t), v) \/ Looks(Top(t), v))
  BY OrphanDirOpenedGives
<1>3. v.pc = "entry" /\ v.action = "user"
  BY <1>1, <1>2 DEF Resumes, Looks, SameCall, IsUser
<1>4. ~IsNested(v)
  BY <1>3 DEF IsNested
<1> QED BY <1>1, <1>2, <1>3, <1>4, WalkGoesOnFails

LEMMA CallbackStopsFails ==
  ASSUME TypeInv, FailInv, NEW t \in Threads, CallbackStops(t)
  PROVE  FailInv'
<1> DEFINE w == Top(t)
           v == Stopped(w)
<1>1. At(t, "walk", "entry") /\ GoesOn(t, v) /\ disk' = disk
  BY DEF CallbackStops, Stopped, AtName, InDir
<1>2. w \in Walks
  BY <1>1, TopFacts
<1> HIDE DEF w
<1>3. v \in Walks /\ v.pc = "returned" /\ v.ret = "STOP"
  BY <1>2, StoppedGives
<1> HIDE DEF v
<1>4. Fails(v)
  BY <1>3 DEF Fails
<1> QED BY <1>1, <1>3, <1>4, WalkGoesOnFails

LEMMA CallbackFailsFails ==
  ASSUME TypeInv, FailInv, NEW t \in Threads, CallbackFails(t)
  PROVE  FailInv'
<1> DEFINE w == Top(t)
           v == Leave(w, "ERROR")
<1>1. /\ AtName(t) /\ CallsBack(t, "ERROR") /\ InDir(t) /\ At(t, "walk", "entry")
      /\ GoesOn(t, v) /\ disk' = disk /\ UNCHANGED shared /\ "ERROR" \in Returned
  BY DEF CallbackFails, AtName, InDir, Returned
<1>2. CallerOK'
  BY <1>1, CallsBackOK
<1>3. v \in Walks /\ Leaves(w, v, "ERROR", Front(w.seen))
  BY <1>1, <1>2, LeaveOK
<1>4. w.action = "user"
  BY <1>1 DEF CallsBack, Answers, OrphanAnswer
<1>5. ~IsNested(v) /\ v.pc # "opening"
  <2>1. w \in Walks /\ WalkOK(image, orphan_dir, w) /\ w.pc = "entry"
    BY <1>1, TopFacts
  <2> HIDE DEF w, v
  <2>2. v.action = "user"
    BY <1>3, <1>4 DEF Leaves, SameCall
  <2>3. Len(w.frames) - 1 = 0 \/ Len(w.frames) - 1 > 0
    <3>1. Len(w.frames) \in Nat \ {0}
      BY <2>1, InDirFacts
    <3>2. \A n \in Nat \ {0} : n - 1 = 0 \/ n - 1 > 0
      OBVIOUS
    <3> QED BY <3>1, <3>2
  <2>4. v.pc # "opening"
    BY <2>3, <1>3 DEF Leaves
  <2> QED BY <2>2, <2>4 DEF IsNested
<1> QED BY <1>1, <1>3, <1>5, WalkGoesOnFails

LEMMA DirEndsFails ==
  ASSUME TypeInv, FailInv, NEW t \in Threads, DirEnds(t)
  PROVE  FailInv'
<1> DEFINE w == Top(t)
           v == Leave(w, "CONT")
<1>1. /\ InDir(t) /\ At(t, "walk", "entry") /\ UNCHANGED caller
      /\ GoesOn(t, v) /\ disk' = disk /\ UNCHANGED shared /\ "CONT" \in Returned
  BY DEF DirEnds, InDir, Returned
<1>2. CallerOK'
  BY <1>1, CallerStays
<1>3. v \in Walks /\ Leaves(w, v, "CONT", Front(w.seen))
  BY <1>1, <1>2, LeaveOK
<1>4. v.pc # "opening" /\ Fails(v)
  <2>1. w \in Walks /\ WalkOK(image, orphan_dir, w) /\ w.pc = "entry"
    BY <1>1, TopFacts
  <2> HIDE DEF w, v
  <2>2. Len(w.frames) - 1 = 0 \/ Len(w.frames) - 1 > 0
    <3>1. Len(w.frames) \in Nat \ {0}
      BY <2>1, InDirFacts
    <3>2. \A n \in Nat \ {0} : n - 1 = 0 \/ n - 1 > 0
      OBVIOUS
    <3> QED BY <3>1, <3>2
  <2>3. (v.pc = "returned" /\ v.ret = "CONT") \/ v.pc = "entry"
    BY <2>2, <1>3 DEF Leaves
  <2> QED BY <2>3 DEF Fails
<1> QED BY <1>1, <1>3, <1>4, WalkGoesOnFails

LEMMA EndWalkFails ==
  ASSUME TypeInv, FailInv, NEW t \in Threads, EndWalk(t)
  PROVE  FailInv'
<1>1. At(t, "walk", "returned") /\ disk' = disk /\ Returns(t, Top(t).ret)
  BY DEF EndWalk
<1>2. /\ stack[t] # << >> /\ StackOK(stack[t]) /\ FailsOK(stack[t], back[t])
      /\ Top(t) = Last(stack[t]) /\ Top(t).pc = "returned" /\ (IsUser(Top(t)) \/ IsNested(Top(t)))
  BY <1>1, TopFacts, ThreadFacts DEF FailInv
<1>3. IsNested(Top(t)) => Fails(Top(t))
  BY <1>2, StackFacts DEF FailsOK
<1>4. Top(t).ret = "ERROR" /\ ~IsUser(Top(t)) => CanFail
  BY <1>2, <1>3 DEF Fails
<1> QED BY <1>1, <1>2, <1>4, FailReturns

\* A search goes on.
LEMMA SearchGoesOnFails ==
  ASSUME TypeInv, FailInv, NEW t \in Threads, NEW p, At(t, "search", p), disk' = disk,
         NEW k, GoesOn(t, k), IsSearch(k), k.pc # "walking"
  PROVE  FailInv'
<1>1. stack[t] # << >> /\ ~IsNested(k) /\ ~Waits(k)
  BY DEF At, IsNested, IsSearch, IsUser, Waits
<1> QED BY <1>1, FailGoesOn

LEMMA SearchStartsFails ==
  ASSUME TypeInv, FailInv, NEW t \in Threads, NEW p, At(t, "search", p), disk' = disk,
         NEW k, IsSearch(k), NEW a \in 0..MaxKey, NEW action \in {"named", "orphan"},
         Starts(t, k, Walk(a, Search, action)),
         a = Root \/ (a \in Deleted(image) /\ image.meta[a].dir)
  PROVE  FailInv'
<1>1. PICK x : x = Walk(a, Search, action)
  OBVIOUS
<1>2. WalkGives(a, Search, action)
  <2>1. Search \in AnyFlags
    BY DEF Search, AnyFlags
  <2> QED BY <2>1, NewWalk
<1>3. x.kind = "walk" /\ x.pc = "check" /\ x.addr = a
  BY <1>1, <1>2 DEF WalkGives
<1>4. Fails(x) /\ ~Waits(x)
  BY <1>3 DEF Fails, Waits, IsSearch
<1>5. stack[t] # << >> /\ ~IsNested(k)
  BY DEF At, IsNested, IsSearch
<1>6. Starts(t, k, x)
  BY <1>1
<1> QED BY <1>4, <1>5, <1>6, FailStarts

LEMMA SearchReturnsFails ==
  ASSUME TypeInv, FailInv, NEW t \in Threads, NEW p, At(t, "search", p), disk' = disk,
         NEW c, Returns(t, c), c = "ERROR" => CanFail
  PROVE  FailInv'
<1>1. stack[t] # << >>
  BY DEF At
<1> QED BY <1>1, FailReturns

LEMMA TakeOrphanLockFails ==
  ASSUME TypeInv, FailInv, NEW t \in Threads, TakeOrphanLock(t)
  PROVE  FailInv'
<1>1. At(t, "search", "lock") /\ disk' = disk
  BY DEF TakeOrphanLock
<1>2. CASE Returns(t, "CONT")
  BY <1>1, <1>2, SearchReturnsFails
<1>3. CASE GoesOn(t, [Top(t) EXCEPT !.pc = "load"])
  <2>1. PICK k : k = [Top(t) EXCEPT !.pc = "load"]
    OBVIOUS
  <2>2. IsSearch(k) /\ k.pc = "load"
    BY <2>1, <1>1, SearchMoves
  <2> QED BY <2>1, <2>2, <1>1, <1>3, SearchGoesOnFails
<1> QED BY <1>2, <1>3 DEF TakeOrphanLock

LEMMA LoadInumNamedFails ==
  ASSUME TypeInv, FailInv, NEW t \in Threads, LoadInumNamed(t)
  PROVE  FailInv'
<1>1. At(t, "search", "load") /\ disk' = disk
  BY DEF LoadInumNamed
<1>2. CASE GoesOn(t, [Top(t) EXCEPT !.pc = "metas"])
  <2>1. PICK k : k = [Top(t) EXCEPT !.pc = "metas"]
    OBVIOUS
  <2>2. IsSearch(k) /\ k.pc = "metas"
    BY <2>1, <1>1, SearchMoves
  <2> QED BY <2>1, <2>2, <1>1, <1>2, SearchGoesOnFails
<1>3. CASE Starts(t, [Top(t) EXCEPT !.pc = "walking"], Walk(Root, Search, "named"))
  <2>1. PICK k : k = [Top(t) EXCEPT !.pc = "walking"]
    OBVIOUS
  <2>2. IsSearch(k)
    BY <2>1, <1>1, SearchMoves
  <2>3. Root \in 0..MaxKey
    BY ImagesAssumption
  <2> QED BY <2>1, <2>2, <2>3, <1>1, <1>3, SearchStartsFails
<1> QED BY <1>2, <1>3 DEF LoadInumNamed

LEMMA WalkedFails ==
  ASSUME TypeInv, FailInv, NEW t \in Threads, Walked(t)
  PROVE  FailInv'
<1>1. At(t, "search", "walking") /\ disk' = disk
  BY DEF Walked, SearchFails
<1>2. CASE back[t] = "ERROR"
  <2>1. Returns(t, "ERROR")
    BY <1>2 DEF Walked, SearchFails
  <2>2. /\ stack[t] # << >> /\ FailsOK(stack[t], back[t])
        /\ Last(stack[t]) = Top(t) /\ IsSearch(Top(t)) /\ Top(t).pc = "walking"
    BY <1>1, TopFacts DEF FailInv
  <2>3. CanFail
    BY <2>2, <1>2 DEF FailsOK, Waits
  <2> QED BY <2>1, <2>3, <1>1, SearchReturnsFails
<1>3. CASE back[t] # "ERROR"
  <2>1. PICK k : k = [Top(t) EXCEPT !.pc = "metas"]
    OBVIOUS
  <2>2. IsSearch(k) /\ k.pc = "metas"
    BY <2>1, <1>1, SearchMoves
  <2>3. GoesOn(t, k)
    BY <2>1, <1>3 DEF Walked
  <2> QED BY <2>2, <2>3, <1>1, SearchGoesOnFails
<1> QED BY <1>2, <1>3

LEMMA MetaWalkFailsFails ==
  ASSUME TypeInv, FailInv, NEW t \in Threads, MetaWalkFails(t)
  PROVE  FailInv'
<1>1. At(t, "search", "metas") /\ disk' = disk /\ Returns(t, "ERROR") /\ CanFail
  BY DEF MetaWalkFails, SearchFails, CanFail, SearchMayFail
<1> QED BY <1>1, SearchReturnsFails

LEMMA FindOrphanFails ==
  ASSUME TypeInv, FailInv, NEW t \in Threads, FindOrphan(t)
  PROVE  FailInv'
<1>1. PICK j, a : j = Top(t) /\ a = Min(Ahead(t))
  OBVIOUS
<1>2. /\ At(t, "search", "metas") /\ a \in Deleted(image) /\ disk' = disk
      /\ \/ GoesOn(t, Passing(j, a))
         \/ GoesOn(t, Listing(j, a))
         \/ /\ image.meta[a].dir
            /\ Starts(t, [Listing(j, a) EXCEPT !.pc = "walking"], Walk(a, Search, "orphan"))
  BY <1>1, FindOrphanGives
<1>3. j \in Searches /\ j.names \in Seq(Deleted(image)) /\ j.pc = "metas" /\ disk \in DOMAIN Images
  BY <1>1, <1>2, SearchMoves, ThreadFacts
<1>4. PICK k, l, m : k = Passing(j, a) /\ l = Listing(j, a) /\ m = [l EXCEPT !.pc = "walking"]
  OBVIOUS
<1>5. k \in Searches /\ k.pc = "metas" /\ l \in Searches /\ l.pc = "metas"
  BY <1>2, <1>3, <1>4, ListingGives
<1>6. m \in Searches
  BY <1>4, <1>5 DEF Searches
<1>7. IsSearch(k) /\ IsSearch(l) /\ IsSearch(m)
  BY <1>5, <1>6 DEF Searches, IsSearch
<1>8. CASE GoesOn(t, k)
  BY <1>2, <1>5, <1>7, <1>8, SearchGoesOnFails
<1>9. CASE GoesOn(t, l)
  BY <1>2, <1>5, <1>7, <1>9, SearchGoesOnFails
<1>10. CASE image.meta[a].dir /\ Starts(t, m, Walk(a, Search, "orphan"))
  <2>1. a \in 0..MaxKey
    BY <1>2, <1>3, ImageFacts
  <2> QED BY <2>1, <1>2, <1>7, <1>10, SearchStartsFails
<1> QED BY <1>2, <1>4, <1>8, <1>9, <1>10

LEMMA SearchEndsFails ==
  ASSUME TypeInv, FailInv, NEW t \in Threads, SearchEnds(t)
  PROVE  FailInv'
<1>1. At(t, "search", "metas") /\ disk' = disk /\ Returns(t, "CONT")
  BY DEF SearchEnds
<1> QED BY <1>1, SearchReturnsFails

LEMMA NewCallFails ==
  ASSUME TypeInv, FailInv, NEW t \in Threads, NEW flags, NewCall(t, flags), NEW j,
         stack' = [stack EXCEPT ![t] = <<j>>], ~IsNested(j), ~Waits(j)
  PROVE  FailInv'
<1>1. disk' = disk /\ back' = back /\ back \in [Threads -> Returned]
  BY ThreadFacts DEF NewCall
<1>2. PICK b, r : b = back[t] /\ r = <<j>>
  OBVIOUS
<1>3. Len(r) = 1 /\ r[1] = j /\ Last(r) = j /\ \A i \in 1..Len(r) : i = 1
  BY <1>2 DEF Last
<1>4. FailsOK(r, b)
  BY <1>3 DEF FailsOK
<1>5. stack' = [stack EXCEPT ![t] = r] /\ back' = [back EXCEPT ![t] = b]
  BY <1>1, <1>2
<1> QED BY <1>1, <1>4, <1>5, FailStep

LEMMA InitFail == Init => FailInv
<1> SUFFICES ASSUME Init, NEW t \in Threads PROVE FailsOK(stack[t], back[t])
  BY DEF FailInv
<1>1. stack[t] = << >> /\ Len(stack[t]) = 0
  BY DEF Init
<1> QED BY <1>1 DEF FailsOK

LEMMA NextFail == TypeInv /\ FailInv /\ [Next]_vars => FailInv'
<1> SUFFICES ASSUME TypeInv, FailInv, [Next]_vars PROVE FailInv'
  OBVIOUS
<1>1. CASE Next
  <2>1. PICK t \in Threads :
          (\E flags \in WalkFlags : WalkDirectories(t, flags)) \/ OpenOrphanDir(t) \/ Step(t)
    BY <1>1, Zenon DEF Next
  <2>2. CASE Step(t)
    <3>1. \/ CheckNamed(t) \/ OrphanDirOpened(t) \/ CallbackStops(t) \/ CallbackFails(t)
          \/ VisitName(t) \/ DirEnds(t) \/ EndWalk(t)
          \/ TakeOrphanLock(t) \/ LoadInumNamed(t) \/ Walked(t) \/ MetaWalkFails(t)
          \/ FindOrphan(t) \/ SearchEnds(t)
      BY <2>2, Zenon DEF Step
    <3> QED BY <3>1, CheckNamedFails, OrphanDirOpenedFails, CallbackStopsFails, CallbackFailsFails,
               VisitNameFails, DirEndsFails, EndWalkFails, TakeOrphanLockFails, LoadInumNamedFails,
               WalkedFails, MetaWalkFailsFails, FindOrphanFails, SearchEndsFails
  <2>3. ASSUME NEW flags \in WalkFlags, WalkDirectories(t, flags) PROVE FailInv'
    <3>1. PICK w : w = Walk(Root, flags, "user")
      OBVIOUS
    <3>2. Root \in 0..MaxKey /\ flags \in AnyFlags
      BY ImagesAssumption, CallsAssumption DEF AnyFlags
    <3>3. w.kind = "walk" /\ w.action = "user" /\ w.pc = "check"
      <4>1. WalkGives(Root, flags, "user")
        BY <3>2, NewWalk
      <4> QED BY <3>1, <4>1 DEF WalkGives
    <3>4. ~IsNested(w) /\ ~Waits(w)
      BY <3>3 DEF IsNested, Waits, IsSearch
    <3>5. NewCall(t, flags) /\ stack' = [stack EXCEPT ![t] = <<w>>]
      BY <2>3, <3>1 DEF WalkDirectories
    <3> QED BY <3>4, <3>5, NewCallFails
  <2>4. CASE OpenOrphanDir(t)
    <3>1. PICK j : j = SearchAfter(-1)
      OBVIOUS
    <3>2. IsSearch(j) /\ j.pc = "lock"
      BY <3>1, SearchAfterGives
    <3>3. ~IsNested(j) /\ ~Waits(j)
      BY <3>2 DEF IsNested, Waits, IsSearch, IsUser
    <3>4. NewCall(t, NoWalk) /\ stack' = [stack EXCEPT ![t] = <<j>>]
      BY <2>4, <3>1 DEF OpenOrphanDir
    <3> QED BY <3>3, <3>4, NewCallFails
  <2> QED BY <2>1, <2>2, <2>3, <2>4
<1>2. CASE UNCHANGED vars
  <2>1. disk' = disk /\ stack' = stack /\ back' = back
    BY <1>2 DEF vars
  <2>2. ASSUME NEW t \in Threads PROVE FailsOK(stack[t], back[t])'
    <3>1. PICK s, b : s = stack[t] /\ b = back[t]
      OBVIOUS
    <3>2. FailsOK(s, b)'
      BY <2>1, <3>1, FailsStay DEF FailInv
    <3> QED BY <3>1, <3>2, <2>1 DEF FailsOK
  <2> QED BY <2>2 DEF FailInv
<1> QED BY <1>1, <1>2

-----------------------------------------------------------------------------
(* What the callback was called for, step by step *)

LEMMA ShowsStep ==
  ASSUME TypeInv, ShowsInv, NEW t \in Threads, disk' = disk, Made,
         NEW r, NEW b, NEW flags, NEW h,
         stack' = [stack EXCEPT ![t] = r], back' = [back EXCEPT ![t] = b],
         call' = [call EXCEPT ![t] = flags], given' = [given EXCEPT ![t] = h],
         \A u \in Threads \ {t} : u \in refused => u \in refused',
         Shows(t, r, b, flags, h)'
  PROVE  ShowsInv'
<1>1. /\ disk \in DOMAIN Images
      /\ stack \in [Threads -> Seq(Jobs)] /\ back \in [Threads -> Returned]
      /\ call \in [Threads -> WalkFlags \union {NoWalk}]
      /\ given \in [Threads -> SUBSET (0..MaxKey)]
  BY DEF TypeInv, CallerOK
<1>2. ASSUME NEW u \in Threads PROVE Shows(u, stack[u], back[u], call[u], given[u])'
  <2>1. CASE u = t
    <3>1. stack'[u] = r /\ back'[u] = b /\ call'[u] = flags /\ given'[u] = h
      BY <1>1, <2>1
    <3> QED BY <2>1, <3>1 DEF Shows, Sees, Heard
  <2>2. CASE u # t
    <3>1. PICK s, c, f, g : s = stack[u] /\ c = back[u] /\ f = call[u] /\ g = given[u]
      OBVIOUS
    <3>2. Shows(u, s, c, f, g)
      BY <3>1 DEF ShowsInv
    <3>3. u \in refused => u \in refused'
      BY <2>2
    <3>4. Shows(u, s, c, f, g)'
      BY <1>1, <3>2, <3>3, SeesStays
    <3>5. stack'[u] = s /\ back'[u] = c /\ call'[u] = f /\ given'[u] = g
      BY <1>1, <2>2, <3>1
    <3> QED BY <3>4, <3>5 DEF Shows, Sees, Heard
  <2> QED BY <2>1, <2>2
<1> QED BY <1>2 DEF ShowsInv

\* The walk of the user stays where it is while others are above it.
LEMMA FirstIsKept ==
  ASSUME NEW s, StackOK(s), s # << >>, ~IsUser(Last(s)), NEW r, NEW j, NEW k,
         Replaced(s, r, j) \/ Pushed(s, r, j, k) \/ Popped(s, r), IsUser(s[1])
  PROVE  r # << >> /\ r[1] = s[1]
<1> DEFINE n == Len(s)
<1>1. n \in Nat \ {0} /\ Last(s) = s[n]
  BY StackFacts
<1>2. n # 1
  BY <1>1
<1>3. Len(r) \in {n, n + 1, n - 1} /\ \A i \in 1..n - 1 : r[i] = s[i]
  BY DEF Replaced, Pushed, Popped
<1> HIDE DEF n
<1>4. 1 \in 1..n - 1 /\ Len(r) # 0
  BY <1>1, <1>2, <1>3
<1>5. r # << >>
  BY <1>4, EmptySeq
<1> QED BY <1>3, <1>4, <1>5

\* A step above a walk of a user, or without one.
LEMMA BelowStays ==
  ASSUME TypeInv, ShowsInv, NEW t \in Threads, stack[t] # << >>, disk' = disk, Made,
         call' = call, given' = given, refused' = refused,
         NEW r, NEW b, stack' = [stack EXCEPT ![t] = r], back' = [back EXCEPT ![t] = b],
         IsUser(stack[t][1]) => r # << >> /\ r[1] = stack[t][1]
  PROVE  ShowsInv'
<1>1. PICK s, c, f, g : s = stack[t] /\ c = back[t] /\ f = call[t] /\ g = given[t]
  OBVIOUS
<1>2. /\ disk \in DOMAIN Images /\ Shows(t, s, c, f, g)
      /\ call \in [Threads -> WalkFlags \union {NoWalk}]
      /\ given \in [Threads -> SUBSET (0..MaxKey)]
  BY <1>1 DEF ShowsInv, TypeInv, CallerOK
<1>3. Shows(t, r, b, f, g)
  <2> SUFFICES ASSUME f \in WalkFlags PROVE Shows(t, r, b, f, g)
    BY DEF Shows
  <2>1. IsUser(s[1]) /\ Sees(t, s[1], f, g)
    BY <1>1, <1>2 DEF Shows
  <2> QED BY <2>1, <1>1 DEF Shows
<1>4. Shows(t, r, b, f, g)'
  BY <1>2, <1>3, SeesStays
<1>5. call' = [call EXCEPT ![t] = f] /\ given' = [given EXCEPT ![t] = g]
  BY <1>1, <1>2
<1> QED BY <1>4, <1>5, ShowsStep

LEMMA AboveShows ==
  ASSUME TypeInv, ShowsInv, NEW t \in Threads, stack[t] # << >>, ~IsUser(Top(t)), disk' = disk, Made,
         call' = call, given' = given, refused' = refused,
         (\E j : GoesOn(t, j)) \/ (\E j, k : Starts(t, j, k)) \/ (\E c : Returns(t, c))
  PROVE  ShowsInv'
<1>1. PICK s, b : s = stack[t] /\ b = back[t]
  OBVIOUS
<1>2. /\ StackOK(s) /\ s # << >> /\ s \in Seq(Jobs) /\ Last(s) = Top(t)
      /\ back \in [Threads -> Returned]
  BY <1>1, ThreadFacts DEF Top
<1>3. CASE \E j : GoesOn(t, j)
  <2>1. PICK j : GoesOn(t, j)
    BY <1>3
  <2>2. PICK r : r = Append(Front(s), j)
    OBVIOUS
  <2>3. Replaced(s, r, j)
    BY <1>2, <2>2, FrontGives
  <2>4. IsUser(s[1]) => r # << >> /\ r[1] = s[1]
    BY <1>2, <2>3, FirstIsKept
  <2>5. stack' = [stack EXCEPT ![t] = r] /\ back' = [back EXCEPT ![t] = b]
    BY <1>1, <1>2, <2>1, <2>2 DEF GoesOn
  <2> QED BY <1>1, <2>4, <2>5, BelowStays
<1>4. CASE \E j, k : Starts(t, j, k)
  <2>1. PICK j, k : Starts(t, j, k)
    BY <1>4
  <2>2. PICK r : r = Front(s) \o <<j, k>>
    OBVIOUS
  <2>3. Pushed(s, r, j, k)
    BY <1>2, <2>2, FrontCalls
  <2>4. IsUser(s[1]) => r # << >> /\ r[1] = s[1]
    BY <1>2, <2>3, FirstIsKept
  <2>5. stack' = [stack EXCEPT ![t] = r] /\ back' = [back EXCEPT ![t] = b]
    BY <1>1, <1>2, <2>1, <2>2 DEF Starts
  <2> QED BY <1>1, <2>4, <2>5, BelowStays
<1>5. CASE \E c : Returns(t, c)
  <2>1. PICK c : Returns(t, c)
    BY <1>5
  <2>2. PICK r : r = Front(s)
    OBVIOUS
  <2>3. Popped(s, r)
    BY <1>2, <2>2, PoppedOK
  <2>4. IsUser(s[1]) => r # << >> /\ r[1] = s[1]
    BY <1>2, <2>3, FirstIsKept
  <2>5. stack' = [stack EXCEPT ![t] = r] /\ back' = [back EXCEPT ![t] = c]
    BY <1>1, <2>1, <2>2 DEF Returns
  <2> QED BY <1>1, <2>4, <2>5, BelowStays
<1> QED BY <1>3, <1>4, <1>5

\* A walk of a user is alone in its thread while it is on top.
LEMMA UserIsAlone ==
  ASSUME TypeInv, ShowsInv, NEW t \in Threads, stack[t] # << >>, IsUser(Top(t))
  PROVE  /\ Len(stack[t]) = 1 /\ stack[t][1] = Top(t)
         /\ call[t] \in WalkFlags => Sees(t, Top(t), call[t], given[t])
<1>1. StackOK(stack[t]) /\ Len(stack[t]) \in 1..Len(stack[t]) /\ Top(t) = stack[t][Len(stack[t])]
  BY ThreadFacts, StackFacts DEF Top
<1>2. Len(stack[t]) = 1
  BY <1>1 DEF StackOK
<1>3. Shows(t, stack[t], back[t], call[t], given[t])
  BY DEF ShowsInv
<1> QED BY <1>1, <1>2, <1>3 DEF Shows

LEMMA UserMoves ==
  ASSUME TypeInv, ShowsInv, NEW t \in Threads, disk' = disk, orphan_dir' = orphan_dir,
         call' = call, refused \subseteq refused', back' = back,
         NEW r, NEW v, stack' = [stack EXCEPT ![t] = r], r # << >>, r[1] = v, IsUser(v),
         NEW h, given' = [given EXCEPT ![t] = h],
         NEW f, f = call[t], f \in WalkFlags => Sees(t, v, f, h)'
  PROVE  ShowsInv'
<1>1. PICK b : b = back[t]
  OBVIOUS
<1>2. call \in [Threads -> WalkFlags \union {NoWalk}] /\ back \in [Threads -> Returned]
  BY DEF TypeInv, CallerOK
<1>3. call' = [call EXCEPT ![t] = f] /\ back' = [back EXCEPT ![t] = b]
  BY <1>1, <1>2
<1>4. Shows(t, r, b, f, h)'
  BY DEF Shows
<1>5. Made /\ \A u \in Threads \ {t} : u \in refused => u \in refused'
  BY DEF Made
<1> QED BY <1>3, <1>4, <1>5, ShowsStep

LEMMA UserGoesOn ==
  ASSUME TypeInv, ShowsInv, NEW t \in Threads, stack[t] # << >>, IsUser(Top(t)), disk' = disk,
         orphan_dir' = orphan_dir, call' = call, refused' = refused, NEW v, GoesOn(t, v), IsUser(v),
         NEW h, given' = [given EXCEPT ![t] = h],
         NEW f, f = call[t], f \in WalkFlags => Sees(t, v, f, h)
  PROVE  ShowsInv'
<1>1. PICK s, r : s = stack[t] /\ r = Append(Front(s), v)
  OBVIOUS
<1>2. s \in Seq(Jobs) /\ s # << >> /\ Len(s) = 1
  BY <1>1, ThreadFacts, UserIsAlone
<1>3. Replaced(s, r, v)
  BY <1>1, <1>2, FrontGives
<1>4. Len(r) = 1 /\ r[1] = v
  BY <1>2, <1>3 DEF Replaced
<1>5. r # << >>
  BY <1>4, EmptySeq
<1>6. stack' = [stack EXCEPT ![t] = r] /\ back' = back
  BY <1>1 DEF GoesOn
<1>7. f \in WalkFlags => Sees(t, v, f, h)'
  <2>1. disk \in DOMAIN Images /\ Made
    BY DEF TypeInv, Made
  <2> QED BY <2>1, SeesStays
<1> QED BY <1>4, <1>5, <1>6, <1>7, UserMoves

\* What the callback of a user was called for then.
LEMMA CallsBackHears ==
  ASSUME TypeInv, NEW t \in Threads, NEW answer, CallsBack(t, answer), Top(t).kind = "walk"
  PROVE  /\ call' = call /\ (answer # "ERROR" => refused' = refused)
         /\ IsUser(Top(t)) => given' = [given EXCEPT ![t] = Hears(given[t], Name(t), Top(t).flags)]
         /\ ~IsUser(Top(t)) => given' = given
<1>1. given \in [Threads -> SUBSET (0..MaxKey)]
  BY DEF TypeInv, CallerOK
<1>2. call' = call /\ (answer # "ERROR" => refused' = refused)
  BY DEF CallsBack
<1>3. IsUser(Top(t)) => Top(t).action = "user"
  BY DEF IsUser
<1>4. ~IsUser(Top(t)) => Top(t).action # "user"
  BY DEF IsUser
<1>5. CASE Top(t).action = "user" /\ Wanted(Name(t), Top(t).flags)
  BY <1>2, <1>4, <1>5 DEF CallsBack, Hears
<1>6. CASE ~(Top(t).action = "user" /\ Wanted(Name(t), Top(t).flags))
  <2>1. given' = given
    BY <1>6 DEF CallsBack
  <2>2. IsUser(Top(t)) => Hears(given[t], Name(t), Top(t).flags) = given[t]
    BY <1>3, <1>6 DEF Hears
  <2> QED BY <1>1, <1>2, <2>1, <2>2
<1> QED BY <1>5, <1>6

LEMMA CheckNamedShows ==
  ASSUME TypeInv, ShowsInv, NEW t \in Threads, CheckNamed(t)
  PROVE  ShowsInv'
<1> DEFINE w == Top(t)
           save == list_inum_named = Empty /\ w.addr = Root /\ "RECURSE" \in w.flags
           v == Into([w EXCEPT !.save = save])
<1>1. /\ At(t, "walk", "check") /\ GoesOn(t, v) /\ disk' = disk /\ UNCHANGED shared /\ UNCHANGED caller
  BY Zenon DEF CheckNamed
<1>2. /\ w \in Walks /\ WalkOK(image, orphan_dir, w) /\ w.pc = "check" /\ stack[t] # << >>
  BY <1>1, TopFacts
<1>3. /\ orphan_dir' = orphan_dir /\ call' = call /\ given' = given /\ refused' = refused
  BY <1>1 DEF shared, caller
<1>4. CASE ~IsUser(Top(t))
  <2>1. Made
    BY <1>3 DEF Made
  <2> HIDE DEF v
  <2>2. \E j : GoesOn(t, j)
    BY <1>1
  <2> QED BY <2>1, <2>2, <1>1, <1>2, <1>3, <1>4, AboveShows
<1>5. CASE IsUser(Top(t))
  <2>1. PICK f, g : f = call[t] /\ g = given[t]
    OBVIOUS
  <2>2. f \in WalkFlags => Sees(t, w, f, g)
    BY <2>1, <1>2, <1>5, UserIsAlone
  <2>3. given' = [given EXCEPT ![t] = g]
    <3>1. given \in [Threads -> SUBSET (0..MaxKey)]
      BY DEF TypeInv, CallerOK
    <3> QED BY <3>1, <2>1, <1>3
  <2>4. IsUser(w)
    BY <1>5
  <2> HIDE DEF w
  <2>5. w.frames = << >> /\ save \in BOOLEAN
    BY <1>2 DEF WalkOK
  <2> HIDE DEF save
  <2>6. /\ v \in Walks /\ SameCall(w, v) /\ v.seen = w.seen
        /\ w.addr \in Loadable(image) =>
             v.pc = "entry" /\ Len(v.frames) = 1 /\ v.frames[1] = Frame(w.addr)
        /\ w.addr \notin Loadable(image) => v.pc = "returned" /\ v.ret = "ERROR"
    BY <1>2, <2>5, IntoGives
  <2> HIDE DEF v
  <2>7. IsUser(v)
    BY <2>4, <2>6, WalkFields DEF IsUser, SameCall
  <2>8. ASSUME f \in WalkFlags PROVE Sees(t, v, f, g)
    <3>1. w.flags = f /\ w.addr = Root /\ w.seen = << >> /\ g = {}
      BY <2>2, <2>8, <1>2 DEF Sees
    <3>2. v.flags = f /\ v.seen = << >>
      BY <3>1, <2>6 DEF SameCall
    <3>3. CASE Root \in Loadable(image)
      <4>1. v.pc = "entry" /\ Len(v.frames) = 1 /\ v.frames[1] = Frame(Root)
        BY <3>1, <3>3, <2>6
      <4>2. Ledger(v, g)
        BY <4>1, <3>1, <3>2, <2>6, TracksRoot
      <4> QED BY <4>1, <4>2, <3>2 DEF Sees
    <3>4. CASE Root \notin Loadable(image)
      <4>1. v.pc = "returned" /\ v.ret = "ERROR"
        BY <3>1, <3>4, <2>6
      <4> QED BY <4>1, <3>2 DEF Sees
    <3> QED BY <3>3, <3>4
  <2> QED BY <2>1, <2>3, <2>7, <2>8, <1>1, <1>2, <1>3, <1>5, UserGoesOn
<1> QED BY <1>4, <1>5

\* A search that fails leaves the orphan directory out for a reason.
LEMMA OrphanDirOpenedShows ==
  ASSUME TypeInv, FailInv, ShowsInv, NEW t \in Threads, OrphanDirOpened(t)
  PROVE  ShowsInv'
<1>1. PICK w : w = Top(t)
  OBVIOUS
<1>2. /\ At(t, "walk", "opening") /\ disk' = disk /\ UNCHANGED shared /\ UNCHANGED caller
      /\ w \in Walks /\ WalkOK(image, orphan_dir, w) /\ w.pc = "opening" /\ IsUser(w)
      /\ w.frames # << >> /\ Len(w.frames) \in Nat \ {0}
  BY <1>1, OrphanDirOpenedGives
<1>3. PICK v \in Walks :
        /\ GoesOn(t, v)
        /\ \/ back[t] = "ERROR" /\ Resumes(w, v)
           \/ orphan_dir # NULL /\ Looks(w, v)
  BY <1>1, OrphanDirOpenedGives
<1>4. /\ stack[t] # << >> /\ w = Last(stack[t]) /\ FailsOK(stack[t], back[t]) /\ disk \in DOMAIN Images
  BY <1>1, <1>2, TopFacts, ThreadFacts DEF FailInv
<1>5. PICK f, g : f = call[t] /\ g = given[t]
  OBVIOUS
<1>6. f \in WalkFlags => Sees(t, w, f, g)
  BY <1>1, <1>2, <1>4, <1>5, UserIsAlone
<1>7. orphan_dir' = orphan_dir /\ call' = call /\ refused' = refused /\ given' = [given EXCEPT ![t] = g]
  <2>1. given \in [Threads -> SUBSET (0..MaxKey)] /\ given' = given
    BY <1>2 DEF TypeInv, CallerOK, caller
  <2> QED BY <2>1, <1>2, <1>5 DEF shared, caller
<1>8. v.pc = "entry" /\ v.flags = w.flags /\ IsUser(v)
  <2>1. v.pc = "entry" /\ SameCall(w, v)
    BY <1>3 DEF Resumes, Looks
  <2> QED BY <2>1, <1>2, WalkFields DEF SameCall, IsUser
<1>9. ASSUME Ledger(w, g) PROVE Ledger(v, g)
  <2>1. PICK b \in BOOLEAN, V \in SUBSET (0..MaxKey) : Tracks(w, b, V, g)
    BY <1>9 DEF Ledger
  <2>2. CASE orphan_dir # NULL /\ Looks(w, v)
    BY <2>1, <2>2, <1>2, <1>4, TracksLooks
  <2>3. CASE back[t] = "ERROR" /\ Resumes(w, v)
    <3>1. CanFail
      BY <2>3, <1>2, <1>4 DEF FailsOK, Waits
    <3>2. Root \in Loadable(image)
      <4>1. w.frames[1].dir = Root
        BY <2>1 DEF Tracks, OnPath
      <4>2. 1 \in 1..Len(w.frames)
        BY <1>2
      <4>3. Root # OrphanDir
        BY DirTreeAssumption
      <4> QED BY <4>1, <4>2, <4>3, <1>2 DEF WalkOK
    <3>3. SearchMayFail
      BY <3>1, <3>2 DEF CanFail
    <3> QED BY <3>3, <2>1, <2>3, <1>2, <1>4, TracksResumes
  <2> QED BY <2>2, <2>3, <1>3
<1>10. f \in WalkFlags => Sees(t, v, f, g)
  BY <1>2, <1>6, <1>8, <1>9 DEF Sees
<1> QED BY <1>1, <1>2, <1>3, <1>4, <1>5, <1>7, <1>8, <1>10, UserGoesOn

LEMMA CallbackStopsShows ==
  ASSUME TypeInv, ShowsInv, NEW t \in Threads, CallbackStops(t)
  PROVE  ShowsInv'
<1>1. PICK w, v : w = Top(t) /\ v = Stopped(w)
  OBVIOUS
<1>2. /\ CallsBack(t, "STOP") /\ At(t, "walk", "entry")
      /\ GoesOn(t, v) /\ disk' = disk /\ UNCHANGED shared
  BY <1>1 DEF CallbackStops, Stopped, AtName, InDir
<1>3. w \in Walks /\ w.kind = "walk" /\ stack[t] # << >>
  BY <1>1, <1>2, TopFacts
<1>4. /\ call' = call /\ refused' = refused /\ orphan_dir' = orphan_dir
      /\ IsUser(w) => given' = [given EXCEPT ![t] = Hears(given[t], Name(t), w.flags)]
      /\ ~IsUser(w) => given' = given
  BY <1>1, <1>2, <1>3, CallsBackHears DEF shared
<1>5. CASE ~IsUser(w)
  <2>1. Made /\ \E j : GoesOn(t, j)
    BY <1>2, <1>4 DEF Made
  <2> QED BY <2>1, <1>1, <1>2, <1>3, <1>4, <1>5, AboveShows
<1>6. CASE IsUser(w)
  <2>1. PICK f, g, h : f = call[t] /\ g = given[t] /\ h = Hears(given[t], Name(t), w.flags)
    OBVIOUS
  <2>2. v \in Walks /\ SameCall(w, v) /\ v.pc = "returned" /\ v.ret = "STOP"
    BY <1>1, <1>3, StoppedGives
  <2>3. IsUser(v) /\ v.flags = w.flags
    BY <2>2, <1>6, WalkFields DEF IsUser, SameCall
  <2>4. f \in WalkFlags => w.flags = f
    BY <2>1, <1>1, <1>3, <1>6, UserIsAlone DEF Sees
  <2>5. f \in WalkFlags => Sees(t, v, f, h)
    BY <2>2, <2>3, <2>4 DEF Sees
  <2>6. given' = [given EXCEPT ![t] = h]
    BY <2>1, <1>4, <1>6
  <2> QED BY <2>1, <2>3, <2>5, <2>6, <1>1, <1>2, <1>3, <1>4, <1>6, UserGoesOn
<1> QED BY <1>5, <1>6

LEMMA CallbackFailsShows ==
  ASSUME TypeInv, ShowsInv, NEW t \in Threads, CallbackFails(t)
  PROVE  ShowsInv'
<1> DEFINE w == Top(t)
           v == Leave(w, "ERROR")
<1>1. /\ AtName(t) /\ CallsBack(t, "ERROR") /\ InDir(t) /\ At(t, "walk", "entry")
      /\ GoesOn(t, v) /\ disk' = disk /\ UNCHANGED shared /\ "ERROR" \in Returned
  BY DEF CallbackFails, AtName, InDir, Returned
<1>2. CallerOK'
  BY <1>1, CallsBackOK
<1>3. v \in Walks /\ Leaves(w, v, "ERROR", Front(w.seen))
  BY <1>1, <1>2, LeaveOK
<1>4. w.action = "user" /\ refused' = refused \union {t}
  BY <1>1 DEF CallsBack, Answers, OrphanAnswer
<1>5. w \in Walks /\ WalkOK(image, orphan_dir, w) /\ w.pc = "entry" /\ w.kind = "walk" /\ stack[t] # << >>
  BY <1>1, TopFacts
<1>6. IsUser(w)
  BY <1>4, <1>5 DEF IsUser
<1>7. /\ call' = call /\ orphan_dir' = orphan_dir
      /\ given' = [given EXCEPT ![t] = Hears(given[t], Name(t), w.flags)]
  BY <1>1, <1>5, <1>6, CallsBackHears DEF shared
<1>8. PICK f, h, s, r : f = call[t] /\ h = Hears(given[t], Name(t), w.flags) /\ s = stack[t]
                        /\ r = Append(Front(s), v)
  OBVIOUS
<1>9. s \in Seq(Jobs) /\ s # << >> /\ Len(s) = 1 /\ (f \in WalkFlags => w.flags = f)
  BY <1>5, <1>6, <1>8, ThreadFacts, UserIsAlone DEF Sees
<1>10. Len(r) = 1 /\ r[1] = v /\ r # << >>
  <2> HIDE DEF v
  <2>1. Replaced(s, r, v)
    BY <1>8, <1>9, FrontGives
  <2>2. Len(r) = 1 /\ r[1] = v
    BY <2>1, <1>9 DEF Replaced
  <2> QED BY <2>2, EmptySeq
<1>11. stack' = [stack EXCEPT ![t] = r] /\ back' = back
  BY <1>1, <1>8 DEF GoesOn
<1>12. \/ v.pc = "entry"
       \/ v.pc = "returned" /\ v.ret = "ERROR"
  <2> HIDE DEF v, w
  <2>1. Len(w.frames) - 1 = 0 \/ Len(w.frames) - 1 > 0
    <3>1. Len(w.frames) \in Nat \ {0}
      BY <1>5, InDirFacts
    <3>2. \A n \in Nat \ {0} : n - 1 = 0 \/ n - 1 > 0
      OBVIOUS
    <3> QED BY <3>1, <3>2
  <2> QED BY <2>1, <1>3 DEF Leaves
<1>13. v.flags = w.flags /\ IsUser(v)
  <2> HIDE DEF v, w
  <2> QED BY <1>3, <1>4, WalkFields DEF Leaves, SameCall, IsUser
<1>14. PICK x : x = v
  OBVIOUS
<1>15. f \in WalkFlags => Sees(t, x, f, h)'
  <2> HIDE DEF v, w
  <2>1. \A flags : ~Heard(t, flags)'
    BY <1>4 DEF Heard
  <2>2. f \in WalkFlags => x.flags = f
    BY <1>9, <1>13, <1>14
  <2>3. x.pc # "check" /\ ~(x.pc = "returned" /\ x.ret = "CONT")
    BY <1>12, <1>14
  <2> QED BY <2>1, <2>2, <2>3 DEF Sees
<1> HIDE DEF v, w
<1> QED BY <1>1, <1>4, <1>7, <1>8, <1>10, <1>11, <1>13, <1>14, <1>15, UserMoves

LEMMA DirEndsShows ==
  ASSUME TypeInv, ShowsInv, NEW t \in Threads, DirEnds(t)
  PROVE  ShowsInv'
<1>1. PICK w, v : w = Top(t) /\ v = Leave(w, "CONT")
  OBVIOUS
<1>2. /\ InDir(t) /\ At(t, "walk", "entry") /\ ~(Dir(t).i <= Len(Names(Dir(t).dir)))
      /\ GoesOn(t, v) /\ disk' = disk /\ UNCHANGED shared /\ UNCHANGED caller /\ "CONT" \in Returned
  BY <1>1 DEF DirEnds, AtName, InDir, Returned
<1>3. CallerOK'
  BY <1>2, CallerStays
<1>4. v \in Walks /\ Leaves(w, v, "CONT", Front(w.seen))
  BY <1>1, <1>2, <1>3, LeaveOK
<1>5. /\ w \in Walks /\ WalkOK(image, orphan_dir, w) /\ w.pc = "entry" /\ w.kind = "walk"
      /\ stack[t] # << >> /\ disk \in DOMAIN Images
  BY <1>1, <1>2, TopFacts, ThreadFacts
<1>6. /\ orphan_dir' = orphan_dir /\ call' = call /\ given' = given /\ refused' = refused
  BY <1>2 DEF shared, caller
<1>7. CASE ~IsUser(w)
  <2>1. Made /\ \E j : GoesOn(t, j)
    BY <1>2, <1>6 DEF Made
  <2> QED BY <2>1, <1>1, <1>2, <1>5, <1>6, <1>7, AboveShows
<1>8. CASE IsUser(w)
  <2>1. PICK f, g : f = call[t] /\ g = given[t]
    OBVIOUS
  <2>2. f \in WalkFlags => Sees(t, w, f, g)
    BY <2>1, <1>1, <1>5, <1>8, UserIsAlone
  <2>3. given' = [given EXCEPT ![t] = g]
    <3>1. given \in [Threads -> SUBSET (0..MaxKey)]
      BY DEF TypeInv, CallerOK
    <3> QED BY <3>1, <2>1, <1>6
  <2>4. v.flags = w.flags /\ IsUser(v)
    BY <1>4, <1>8, WalkFields DEF Leaves, SameCall, IsUser
  <2>5. /\ Len(w.frames) = 1 => v.pc = "returned"
        /\ Len(w.frames) > 1 => v.pc = "entry"
        /\ Len(w.frames) = 1 \/ Len(w.frames) > 1
    <3>1. Len(w.frames) \in Nat \ {0}
      BY <1>5, InDirFacts
    <3>2. \A n \in Nat \ {0} : (n = 1 <=> n - 1 = 0) /\ (n > 1 <=> n - 1 > 0) /\ (n = 1 \/ n > 1)
      OBVIOUS
    <3> QED BY <3>1, <3>2, <1>4 DEF Leaves
  <2>6. ASSUME Ledger(w, g)
        PROVE  /\ Len(w.frames) > 1 => Ledger(v, g)
               /\ Len(w.frames) = 1 => AllShown(w.flags, g)
    <3>1. PICK b \in BOOLEAN, V \in SUBSET (0..MaxKey) : Tracks(w, b, V, g)
      BY <2>6 DEF Ledger
    <3>2. orphan_dir # NULL => orphan_dir \in Seq(Deleted(image))
      BY ThreadFacts DEF SharedOK
    <3>3. ~(w.frames[Len(w.frames)].i <= Len(Names(w.frames[Len(w.frames)].dir)))
      <4>1. Dir(t) = w.frames[Len(w.frames)]
        BY <1>1, <1>5, InDirFacts DEF Dir
      <4> QED BY <4>1, <1>2
    <3> QED BY <3>1, <3>2, <3>3, <1>4, <1>5, TracksLeaves
  <2>7. f \in WalkFlags => Sees(t, v, f, g)
    BY <2>2, <2>4, <2>5, <2>6, <1>5 DEF Sees
  <2> QED BY <2>1, <2>3, <2>4, <2>7, <1>1, <1>2, <1>5, <1>6, <1>8, UserGoesOn
<1> QED BY <1>7, <1>8

LEMMA VisitNameShows ==
  ASSUME TypeInv, ShowsInv, NEW t \in Threads, VisitName(t)
  PROVE  ShowsInv'
<1>1. PICK q, w, e : q = stack[t] /\ w = Top(t) /\ e = Name(t)
  OBVIOUS
<1>2. /\ AtName(t) /\ CallsBack(t, "CONT") /\ back' = back /\ disk' = disk /\ orphan_dir' = orphan_dir
      /\ At(t, "walk", "entry")
  BY VisitGoesOn DEF AtName, InDir
<1>3. PICK s \in Seq(Jobs), u \in Walks, v \in Walks : Visits(t, s, u, v)
  BY VisitGoesOn
<1>4. /\ StackOK(s) /\ s # << >> /\ Len(s) = Len(q) /\ Last(s) = w
      /\ \A i \in 1..Len(s) : s[i] = q[i] \/ (i = Len(s) - 1 /\ IsSearch(s[i]))
      /\ Amended(w, u) /\ GoneOn(u, v, e) /\ v.action = w.action
      /\ \/ v.pc = "entry" /\ stack' = [stack EXCEPT ![t] = Front(s) \o <<v>>]
         \/ v.pc = "opening" /\ stack' = [stack EXCEPT ![t] = Front(s) \o <<v, SearchAfter(-1)>>]
  BY <1>1, <1>3 DEF Visits
<1>5. /\ w \in Walks /\ w.kind = "walk" /\ w.pc = "entry" /\ q # << >> /\ StackOK(q)
      /\ IsUser(w) \/ IsNested(w)
      /\ back \in [Threads -> Returned] /\ disk \in DOMAIN Images /\ w = Last(q)
  BY <1>1, <1>2, TopFacts, ThreadFacts
<1>6. /\ call' = call /\ refused' = refused /\ Made
      /\ IsUser(w) => given' = [given EXCEPT ![t] = Hears(given[t], e, w.flags)]
      /\ ~IsUser(w) => given' = given
  <2>1. Top(t).kind = "walk" /\ Made
    BY <1>1, <1>2, <1>5 DEF Made
  <2>2. /\ call' = call /\ refused' = refused
        /\ IsUser(Top(t)) => given' = [given EXCEPT ![t] = Hears(given[t], Name(t), Top(t).flags)]
        /\ ~IsUser(Top(t)) => given' = given
    BY <2>1, <1>2, CallsBackHears
  <2> QED BY <2>1, <2>2, <1>1
<1>7. PICK r, k : /\ stack' = [stack EXCEPT ![t] = r]
                  /\ Replaced(s, r, v) \/ Pushed(s, r, v, k)
  <2>1. CASE stack' = [stack EXCEPT ![t] = Front(s) \o <<v>>]
    <3>1. Replaced(s, Front(s) \o <<v>>, v)
      BY <1>4, FrontGives
    <3> QED BY <3>1, <2>1
  <2>2. CASE stack' = [stack EXCEPT ![t] = Front(s) \o <<v, SearchAfter(-1)>>]
    <3>1. Pushed(s, Front(s) \o <<v, SearchAfter(-1)>>, v, SearchAfter(-1))
      BY <1>4, FrontCalls
    <3> QED BY <3>1, <2>2
  <2> QED BY <2>1, <2>2, <1>4
<1>8. CASE ~IsUser(w)
  <2>1. ASSUME IsUser(q[1]) PROVE s[1] = q[1]
    <3>1. PICK n : n = Len(q)
      OBVIOUS
    <3>2. n \in Nat \ {0} /\ IsNested(q[n])
      BY <3>1, <1>5, <1>8, StackFacts
    <3>3. n > 1 /\ IsSearch(q[n - 1])
      BY <3>1, <3>2, <1>5 DEF StackOK
    <3>4. 1 # n - 1
      BY <3>3, <2>1 DEF IsSearch, IsUser
    <3>5. 1 \in 1..n
      BY <3>2
    <3> QED BY <3>1, <3>4, <3>5, <1>4
  <2>2. IsUser(q[1]) => r # << >> /\ r[1] = q[1]
    BY <2>1, <1>4, <1>7, <1>8, FirstIsKept
  <2>3. PICK b : b = back[t]
    OBVIOUS
  <2>4. back' = [back EXCEPT ![t] = b]
    BY <2>3, <1>2, <1>5
  <2> QED BY <2>2, <2>4, <1>1, <1>2, <1>5, <1>6, <1>7, <1>8, BelowStays
<1>9. CASE IsUser(w)
  <2>1. PICK f, g, h : f = call[t] /\ g = given[t] /\ h = Hears(given[t], e, w.flags)
    OBVIOUS
  <2>2. Len(q) = 1 /\ (f \in WalkFlags => Sees(t, w, f, g))
    BY <2>1, <1>1, <1>5, <1>9, UserIsAlone
  <2>3. Len(r) \in {1, 2} /\ r[1] = v
    BY <2>2, <1>4, <1>7 DEF Replaced, Pushed
  <2>4. r # << >>
    BY <2>3, EmptySeq
  <2>5. v.flags = w.flags /\ IsUser(v)
    <3>1. v.flags = u.flags
      BY <1>4 DEF GoneOn, Skips, Enters, Opens, Leaves, SameCall
    <3>2. u.flags = w.flags
      BY <1>4 DEF Amended, SameCall
    <3> QED BY <3>1, <3>2, <1>4, <1>9, WalkFields DEF IsUser
  <2>6. ASSUME f \in WalkFlags, Heard(t, f) PROVE Ledger(v, h)
    <3>1. Ledger(w, g) /\ w.flags = f
      BY <2>2, <2>6, <1>5 DEF Sees
    <3>2. PICK b \in BOOLEAN, V \in SUBSET (0..MaxKey) : Tracks(w, b, V, g)
      BY <3>1 DEF Ledger
    <3>3. Faces(w, b, e)
      BY <3>2, <1>1, <1>2, FacesName
    <3>4. ~TooDeep(Seen, Root, w.flags)
      BY <3>1, <2>6 DEF Heard
    <3>5. Ledger(v, Hears(g, e, w.flags))
      BY <3>2, <3>3, <3>4, <1>4, <1>5, TracksGoesOn
    <3> QED BY <3>5, <2>1
  <2>7. f \in WalkFlags => Sees(t, v, f, h)
    <3>1. f \in WalkFlags => w.flags = f
      BY <2>2 DEF Sees
    <3> QED BY <3>1, <2>5, <2>6, <1>4 DEF Sees
  <2>8. f \in WalkFlags => Sees(t, v, f, h)'
    BY <2>7, <1>2, <1>5, <1>6, SeesStays
  <2>9. given' = [given EXCEPT ![t] = h] /\ refused \subseteq refused'
    BY <2>1, <1>6, <1>9
  <2> QED BY <2>1, <2>3, <2>4, <2>5, <2>8, <2>9, <1>2, <1>6, <1>7, UserMoves
<1> QED BY <1>8, <1>9

LEMMA EndWalkShows ==
  ASSUME TypeInv, ShowsInv, NEW t \in Threads, EndWalk(t)
  PROVE  ShowsInv'
<1>1. PICK s, w, c : s = stack[t] /\ w = Top(t) /\ c = w.ret
  OBVIOUS
<1>2. /\ At(t, "walk", "returned") /\ disk' = disk /\ orphan_dir' = orphan_dir /\ UNCHANGED caller
      /\ Returns(t, c)
  BY <1>1 DEF EndWalk
<1>3. /\ s # << >> /\ StackOK(s) /\ w.pc = "returned" /\ disk \in DOMAIN Images
  BY <1>1, <1>2, TopFacts, ThreadFacts
<1>4. call' = call /\ given' = given /\ refused' = refused /\ Made
  BY <1>2 DEF caller, Made
<1>5. CASE ~IsUser(w)
  <2>1. \E d : Returns(t, d)
    BY <1>2
  <2> QED BY <2>1, <1>1, <1>2, <1>3, <1>4, <1>5, AboveShows
<1>6. CASE IsUser(w)
  <2>1. PICK f, g, r : f = call[t] /\ g = given[t] /\ r = Front(s)
    OBVIOUS
  <2>2. Len(s) = 1 /\ (f \in WalkFlags => Sees(t, w, f, g))
    BY <2>1, <1>1, <1>3, <1>6, UserIsAlone
  <2>3. r = << >>
    <3>1. StackOK(r) /\ Popped(s, r)
      BY <2>1, <1>3, PoppedOK
    <3>2. Len(r) = 0
      BY <3>1, <2>2 DEF Popped
    <3> QED BY <3>1, <3>2, StackFacts
  <2>4. Shows(t, r, c, f, g)
    BY <2>2, <2>3, <1>1, <1>3 DEF Shows, Sees
  <2>5. Shows(t, r, c, f, g)'
    BY <2>4, <1>2, <1>3, <1>4, SeesStays
  <2>6. stack' = [stack EXCEPT ![t] = r] /\ back' = [back EXCEPT ![t] = c]
    BY <2>1, <1>1, <1>2 DEF Returns
  <2>7. call' = [call EXCEPT ![t] = f] /\ given' = [given EXCEPT ![t] = g]
    <3>1. /\ call \in [Threads -> WalkFlags \union {NoWalk}]
          /\ given \in [Threads -> SUBSET (0..MaxKey)]
      BY DEF TypeInv, CallerOK
    <3> QED BY <3>1, <2>1, <1>4
  <2>8. \A u \in Threads \ {t} : u \in refused => u \in refused'
    BY <1>4
  <2> QED BY <2>5, <2>6, <2>7, <2>8, <1>2, <1>4, ShowsStep
<1> QED BY <1>5, <1>6

LEMMA SearchShows ==
  ASSUME TypeInv, ShowsInv, NEW t \in Threads, SearchMovesOn(t)
  PROVE  ShowsInv'
<1>1. stack[t] # << >> /\ ~IsUser(Top(t))
  BY SearchMoves DEF SearchMovesOn
<1>2. call' = call /\ given' = given /\ refused' = refused /\ disk' = disk /\ Made
  BY DEF caller, SearchMovesOn
<1> QED BY <1>1, <1>2, AboveShows DEF SearchMovesOn

LEMMA SearchStepMoves ==
  ASSUME TypeInv, NEW t \in Threads
  PROVE  /\ TakeOrphanLock(t) => SearchMovesOn(t)
         /\ LoadInumNamed(t) => SearchMovesOn(t)
         /\ Walked(t) => SearchMovesOn(t)
         /\ MetaWalkFails(t) => SearchMovesOn(t)
         /\ FindOrphan(t) => SearchMovesOn(t)
         /\ SearchEnds(t) => SearchMovesOn(t)
<1>1. TakeOrphanLock(t) => SearchMovesOn(t)
  BY DEF TakeOrphanLock, Made, SearchMovesOn
<1>2. LoadInumNamed(t) => SearchMovesOn(t)
  BY DEF LoadInumNamed, Made, shared, SearchMovesOn
<1>3. Walked(t) => SearchMovesOn(t)
  BY DEF Walked, SearchFails, Made, shared, SearchMovesOn
<1>4. MetaWalkFails(t) => SearchMovesOn(t)
  BY DEF MetaWalkFails, SearchFails, Made, SearchMovesOn
<1>5. ASSUME FindOrphan(t) PROVE SearchMovesOn(t)
  <2>1. PICK j, a : j = Top(t) /\ a = Min(Ahead(t))
    OBVIOUS
  <2>2. /\ At(t, "search", "metas") /\ disk' = disk /\ UNCHANGED shared /\ UNCHANGED caller
        /\ \/ GoesOn(t, Passing(j, a))
           \/ GoesOn(t, Listing(j, a))
           \/ Starts(t, [Listing(j, a) EXCEPT !.pc = "walking"], Walk(a, Search, "orphan"))
    BY <2>1, <1>5, FindOrphanGives
  <2>3. Made
    BY <2>2 DEF Made, shared
  <2>4. (\E k : GoesOn(t, k)) \/ (\E k, l : Starts(t, k, l))
    BY <2>2
  <2> QED BY <2>2, <2>3, <2>4 DEF SearchMovesOn
<1>6. ASSUME SearchEnds(t) PROVE SearchMovesOn(t)
  <2>1. At(t, "search", "metas") /\ disk' = disk /\ UNCHANGED caller /\ Returns(t, "CONT")
    BY <1>6 DEF SearchEnds
  <2>2. orphan_dir = NULL
    BY <2>1, SearchTop
  <2> QED BY <2>1, <2>2 DEF SearchMovesOn, Made
<1> QED BY <1>1, <1>2, <1>3, <1>4, <1>5, <1>6

LEMMA NewCallShows ==
  ASSUME TypeInv, ShowsInv, NEW t \in Threads, NEW flags, NewCall(t, flags), NEW j,
         stack' = [stack EXCEPT ![t] = <<j>>],
         flags \in WalkFlags => IsUser(j) /\ j.flags = flags /\ j.pc = "check" /\ j.addr = Root /\ j.seen = << >>
  PROVE  ShowsInv'
<1>1. /\ disk' = disk /\ back' = back /\ refused' = refused \ {t} /\ back \in [Threads -> Returned]
      /\ call' = [call EXCEPT ![t] = flags] /\ given' = [given EXCEPT ![t] = {}]
      /\ orphan_dir' = orphan_dir
  BY ThreadFacts DEF NewCall, shared
<1>2. PICK b, r : b = back[t] /\ r = <<j>>
  OBVIOUS
<1>3. r[1] = j /\ r # << >>
  BY <1>2
<1>4. flags \in WalkFlags => Sees(t, j, flags, {})'
  BY DEF Sees
<1>5. Shows(t, r, b, flags, {})'
  BY <1>3, <1>4 DEF Shows
<1>6. stack' = [stack EXCEPT ![t] = r] /\ back' = [back EXCEPT ![t] = b]
  BY <1>1, <1>2
<1>7. Made /\ \A u \in Threads \ {t} : u \in refused => u \in refused'
  BY <1>1 DEF Made
<1> QED BY <1>1, <1>5, <1>6, <1>7, ShowsStep

LEMMA NoWalkIsNone == NoWalk \notin WalkFlags
<1>1. "OPEN" \in NoWalk /\ "OPEN" \notin {"ALLOC", "UNALLOC", "RECURSE", "NOORPHAN"}
  BY DEF NoWalk
<1> QED BY <1>1, CallsAssumption

LEMMA InitShows == Init => ShowsInv
<1> SUFFICES ASSUME Init, NEW t \in Threads PROVE call[t] \notin WalkFlags
  BY DEF ShowsInv, Shows
<1> QED BY NoWalkIsNone DEF Init

LEMMA NextShows == TypeInv /\ FailInv /\ ShowsInv /\ [Next]_vars => ShowsInv'
<1> SUFFICES ASSUME TypeInv, FailInv, ShowsInv, [Next]_vars PROVE ShowsInv'
  OBVIOUS
<1>1. CASE Next
  <2>1. PICK t \in Threads :
          (\E flags \in WalkFlags : WalkDirectories(t, flags)) \/ OpenOrphanDir(t) \/ Step(t)
    BY <1>1, Zenon DEF Next
  <2>2. CASE Step(t)
    <3>1. \/ CheckNamed(t) \/ OrphanDirOpened(t) \/ CallbackStops(t) \/ CallbackFails(t)
          \/ VisitName(t) \/ DirEnds(t) \/ EndWalk(t)
          \/ TakeOrphanLock(t) \/ LoadInumNamed(t) \/ Walked(t) \/ MetaWalkFails(t)
          \/ FindOrphan(t) \/ SearchEnds(t)
      BY <2>2, Zenon DEF Step
    <3> QED BY <3>1, CheckNamedShows, OrphanDirOpenedShows, CallbackStopsShows, CallbackFailsShows,
               VisitNameShows, DirEndsShows, EndWalkShows, SearchStepMoves, SearchShows
  <2>3. ASSUME NEW flags \in WalkFlags, WalkDirectories(t, flags) PROVE ShowsInv'
    <3>1. PICK w : w = Walk(Root, flags, "user")
      OBVIOUS
    <3>2. WalkGives(Root, flags, "user")
      <4>1. Root \in 0..MaxKey /\ flags \in AnyFlags
        BY ImagesAssumption, CallsAssumption DEF AnyFlags
      <4> QED BY <4>1, NewWalk
    <3>3. IsUser(w) /\ w.flags = flags /\ w.pc = "check" /\ w.addr = Root /\ w.seen = << >>
      BY <3>1, <3>2 DEF WalkGives, IsUser
    <3>4. NewCall(t, flags) /\ stack' = [stack EXCEPT ![t] = <<w>>]
      BY <2>3, <3>1 DEF WalkDirectories
    <3> QED BY <3>3, <3>4, NewCallShows
  <2>4. CASE OpenOrphanDir(t)
    <3>1. PICK j : j = SearchAfter(-1)
      OBVIOUS
    <3>2. NewCall(t, NoWalk) /\ stack' = [stack EXCEPT ![t] = <<j>>]
      BY <2>4, <3>1 DEF OpenOrphanDir
    <3> QED BY <3>2, NoWalkIsNone, NewCallShows
  <2> QED BY <2>1, <2>2, <2>3, <2>4
<1>2. CASE UNCHANGED vars
  <2>1. /\ disk' = disk /\ orphan_dir' = orphan_dir /\ stack' = stack /\ back' = back
        /\ call' = call /\ given' = given /\ refused' = refused
    BY <1>2 DEF vars, shared, caller
  <2>2. ASSUME NEW t \in Threads PROVE Shows(t, stack[t], back[t], call[t], given[t])'
    <3>1. PICK s, b, f, g : s = stack[t] /\ b = back[t] /\ f = call[t] /\ g = given[t]
      OBVIOUS
    <3>2. Shows(t, s, b, f, g) /\ disk \in DOMAIN Images /\ Made
      BY <2>1, <3>1 DEF ShowsInv, TypeInv, Made
    <3>3. Shows(t, s, b, f, g)'
      BY <2>1, <3>2, SeesStays
    <3> QED BY <3>1, <3>3, <2>1 DEF Shows, Sees, Heard
  <2> QED BY <2>2 DEF ShowsInv
<1> QED BY <1>1, <1>2

LEMMA ShowsSeesAll == TypeInv /\ ShowsInv => WalkSeesAll
<1> SUFFICES ASSUME TypeInv, ShowsInv, NEW t \in Threads,
                    stack[t] = << >>, call[t] \in WalkFlags, back[t] = "CONT", t \notin refused,
                    ~TooDeep(Seen, Root, call[t])
             PROVE  \/ given[t] = Shown(Seen, call[t])
                    \/ SearchMayFail /\ given[t] = Shown(image, call[t])
  BY DEF WalkSeesAll
<1>1. Shows(t, stack[t], back[t], call[t], given[t]) /\ Heard(t, call[t])
  BY DEF ShowsInv, Heard
<1>2. AllShown(call[t], given[t]) /\ disk \in DOMAIN Images
  BY <1>1 DEF Shows, TypeInv
<1>3. OrphanDir \notin Reached(image, Root, call[t]) => Shown(Seen, call[t]) = Shown(image, call[t])
  BY <1>2, OutOfReach
<1> QED BY <1>2, <1>3 DEF AllShown

\* A walk whose callback has always gone on has called it for the names of the
\* kinds asked for in all directories that can be reached, and for no others,
\* however many threads walk and look for orphans at the same time: loops,
\* directories that cannot be loaded and what other walks have left behind
\* cost no names.  The orphan directory is one of them, unless the search for
\* orphans may fail on this image.  Nothing is said of a tree that is deeper
\* than MaxDepth (tsk_fs_dir_walk_internal and tsk_fs_dir_walk_recursive, as
\* WalkDirectories calls them).
THEOREM SeesAll == Spec => []WalkSeesAll
<1>1. Init => TypeInv /\ FailInv /\ ShowsInv
  BY InitType, InitFail, InitShows
<1>2. TypeInv /\ FailInv /\ ShowsInv /\ [Next]_vars => TypeInv' /\ FailInv' /\ ShowsInv'
  BY NextType, NextFail, NextShows
<1>3. TypeInv /\ ShowsInv => WalkSeesAll
  BY ShowsSeesAll
<1> QED BY <1>1, <1>2, <1>3, PTL DEF Spec
=============================================================================
