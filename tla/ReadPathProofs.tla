--------------------------- MODULE ReadPathProofs ---------------------------
(***************************************************************************)
(* A read or a walk of an attribute gives the bytes of the file, as the    *)
(* chains that were given say, for any blocks, chains, attributes and      *)
(* calls.                                                                  *)
(*                                                                         *)
(* The run list of an ordinary file is contiguous and holds what was given,*)
(* whatever the order and the repetitions in which the chains are met.     *)
(* Neighbours in the list follow each other, no two of them are fillers and*)
(* the last run is none: so behind a filler there is always a run of       *)
(* another chain, and what goes into the filler ends before it.            *)
(*                                                                         *)
(* Of a file that is not ordinary, where entries claim the same block or a *)
(* rest of a filler was misplaced, only the types are shown.               *)
(*                                                                         *)
(* A read keeps two accounts of where it is: what remains of the count,    *)
(* and the run with the byte in it.  They agree in one of two ways: as     *)
(* long as nothing has been read, the place is the one asked for; and      *)
(* after that the next run begins just where the bytes that were read end. *)
(* A walk agrees with its list in the same way, less what it skipped.      *)
(***************************************************************************)
EXTENDS ReadPath, SequenceTheorems, WellFoundedInduction, TLAPS

Stop(c) == List!EndOf(c[Len(c)])
Elems(s) == {s[k] : k \in 1..Len(s)}

-----------------------------------------------------------------------------
\* What holds of 0 and passes from n to n + 1 holds of all numbers up to m:
\* otherwise there would be a least one of which it does not hold.
LEMMA CountingUp ==
  ASSUME NEW m \in Nat, NEW T, 0 \in T, \A n \in 0..(m - 1) : n \in T => n + 1 \in T
  PROVE  \A n \in 0..m : n \in T
<1> DEFINE R == OpToRel(<, Nat)   Bad == {n \in 0..m : n \notin T}
<1> SUFFICES ASSUME Bad # {} PROVE FALSE
  OBVIOUS
<1>1. IsWellFoundedOn(R, Nat)
  BY NatLessThanWellFounded, Zenon
<1>2. \A x, y \in Nat : x < y => <<x, y>> \in R
  BY Zenon DEF OpToRel
<1>3. Bad \subseteq Nat /\ \A n \in Bad : n - 1 \in Bad
  OBVIOUS
<1> HIDE DEF R, Bad
<1>4. PICK n \in Bad : \A k \in Bad : <<k, n>> \notin R
  BY <1>1, <1>3, WFMin
<1>5. n \in Nat /\ n - 1 \in Bad /\ n - 1 \in Nat
  BY <1>3
<1>6. <<n - 1, n>> \in R
  BY <1>2, <1>5
<1> QED BY <1>4, <1>5, <1>6

-----------------------------------------------------------------------------
(* Lists of runs *)

\* r may follow q.
Follows(q, r) ==
  r.offset = List!EndOf(q) /\ ~(q.kind = "filler" /\ r.kind = "filler")

Good(s) ==
  /\ s \in Seq(List!Runs)
  /\ \A k \in 1..Len(s) : s[k].len > 0
  /\ \A k \in 2..Len(s) : Follows(s[k - 1], s[k])

LEMMA RunsAreTyped ==
  ASSUME NEW x \in List!Runs
  PROVE  x.offset \in Nat /\ x.len \in Nat /\ x.addr \in Nat /\ List!EndOf(x) \in Nat
  BY DEF List!Runs, List!EndOf

LEMMA GoodIsTyped ==
  ASSUME NEW s, Good(s)
  PROVE  /\ Len(s) \in Nat /\ (Len(s) = 0 <=> s = << >>)
         /\ \A k \in 1..Len(s) :
              /\ s[k] \in List!Runs /\ s[k].offset \in Nat /\ s[k].len \in Nat \ {0}
              /\ List!EndOf(s[k]) \in Nat /\ List!EndOf(s[k]) > s[k].offset
<1>1. Len(s) \in Nat /\ (Len(s) = 0 <=> s = << >>)
  BY LenProperties, EmptySeq DEF Good
<1>2. ASSUME NEW k \in 1..Len(s)
      PROVE  /\ s[k] \in List!Runs /\ s[k].offset \in Nat /\ s[k].len \in Nat \ {0}
             /\ List!EndOf(s[k]) \in Nat /\ List!EndOf(s[k]) > s[k].offset
  <2>1. s[k] \in List!Runs /\ s[k].len > 0
    BY ElementOfSeq DEF Good
  <2> QED BY <2>1, RunsAreTyped DEF List!EndOf
<1> QED BY <1>1, <1>2

\* Two lists of which one may follow the other.
LEMMA GoodJoin ==
  ASSUME NEW s, NEW u, Good(s), Good(u),
         s # << >> /\ u # << >> => Follows(s[Len(s)], u[1])
  PROVE  /\ Good(s \o u) /\ Elems(s \o u) = Elems(s) \cup Elems(u)
         /\ Len(s \o u) = Len(s) + Len(u)
         /\ \A k \in 1..Len(s) : (s \o u)[k] = s[k]
         /\ \A k \in 1..Len(u) : (s \o u)[Len(s) + k] = u[k]
<1> DEFINE w == s \o u
<1>1. /\ Len(s) \in Nat /\ Len(u) \in Nat /\ s \in Seq(List!Runs) /\ u \in Seq(List!Runs)
      /\ (Len(s) = 0 <=> s = << >>) /\ (Len(u) = 0 <=> u = << >>)
  BY GoodIsTyped DEF Good
<1>2. /\ w \in Seq(List!Runs) /\ Len(w) = Len(s) + Len(u)
      /\ \A k \in 1..(Len(s) + Len(u)) : w[k] = IF k <= Len(s) THEN s[k] ELSE u[k - Len(s)]
  BY <1>1, ConcatProperties
<1> HIDE DEF w
<1>3. \A k \in 1..Len(s) : k \in 1..(Len(s) + Len(u)) /\ w[k] = s[k]
  BY <1>1, <1>2
<1>4. \A k \in 1..Len(u) : Len(s) + k \in 1..(Len(s) + Len(u)) /\ w[Len(s) + k] = u[k]
  <2> TAKE k \in 1..Len(u)
  <2>1. Len(s) + k \in 1..(Len(s) + Len(u)) /\ ~(Len(s) + k <= Len(s)) /\ Len(s) + k - Len(s) = k
    BY <1>1
  <2> QED BY <1>2, <2>1
<1>5. \A k \in 1..Len(w) : k \in 1..Len(s) \/ k - Len(s) \in 1..Len(u)
  BY <1>1, <1>2
<1>6. \A k \in 1..Len(w) : w[k] = IF k \in 1..Len(s) THEN s[k] ELSE u[k - Len(s)]
  BY <1>1, <1>2
<1>7. Elems(w) = Elems(s) \cup Elems(u)
  <2>1. \A x \in Elems(w) : x \in Elems(s) \cup Elems(u)
    BY <1>5, <1>6 DEF Elems
  <2>2. \A x \in Elems(s) : x \in Elems(w)
    BY <1>2, <1>3 DEF Elems
  <2>3. \A x \in Elems(u) : x \in Elems(w)
    BY <1>2, <1>4 DEF Elems
  <2> QED BY <2>1, <2>2, <2>3
<1>8. ASSUME NEW k \in 1..Len(w) PROVE w[k].len > 0
  BY <1>5, <1>6 DEF Good
<1>9. ASSUME NEW k \in 2..Len(w) PROVE Follows(w[k - 1], w[k])
  <2>1. CASE k <= Len(s)
    <3>1. k \in 2..Len(s) /\ w[k - 1] = s[k - 1] /\ w[k] = s[k]
      BY <1>1, <1>3, <2>1
    <3> QED BY <3>1 DEF Good
  <2>2. CASE k = Len(s) + 1
    <3>1. w[k - 1] = s[Len(s)] /\ w[k] = u[1] /\ s # << >> /\ u # << >>
      BY <1>1, <1>2, <1>3, <1>4, <2>2
    <3> QED BY <3>1
  <2>3. CASE k > Len(s) + 1
    <3> DEFINE j == k - Len(s)
    <3>1. j \in 2..Len(u) /\ j - 1 \in 1..Len(u) /\ j \in 1..Len(u)
          /\ Len(s) + j = k /\ Len(s) + (j - 1) = k - 1
      BY <1>1, <1>2, <2>3
    <3> HIDE DEF j
    <3>2. w[k] = u[j] /\ w[k - 1] = u[j - 1]
      BY <1>4, <3>1
    <3> QED BY <3>1, <3>2 DEF Good
  <2> QED BY <1>1, <1>2, <2>1, <2>2, <2>3
<1> QED BY <1>2, <1>3, <1>4, <1>7, <1>8, <1>9 DEF w, Good

\* Part of a list.
LEMMA GoodPart ==
  ASSUME NEW s, Good(s), NEW a \in 1..(Len(s) + 1), NEW b \in (a - 1)..Len(s)
  PROVE  /\ Good(SubSeq(s, a, b)) /\ Len(SubSeq(s, a, b)) = b - a + 1
         /\ \A k \in 1..(b - a + 1) : SubSeq(s, a, b)[k] = s[a + k - 1]
<1> DEFINE w == SubSeq(s, a, b)
<1>1. Len(s) \in Nat /\ \A k \in 1..Len(s) : s[k] \in List!Runs
  BY GoodIsTyped
<1>2. a \in Int /\ b \in Int /\ \A k \in a..b : s[k] \in List!Runs
  BY <1>1
<1>3. /\ w \in Seq(List!Runs) /\ Len(w) = IF a <= b THEN b - a + 1 ELSE 0
      /\ \A k \in 1..(b - a + 1) : w[k] = s[a + k - 1]
  BY <1>2, SubSeqProperties
<1> HIDE DEF w
<1>4. Len(w) = b - a + 1
  BY <1>1, <1>3
<1>5. ASSUME NEW k \in 1..Len(w) PROVE w[k].len > 0
  BY <1>1, <1>3, <1>4 DEF Good
<1>6. ASSUME NEW k \in 2..Len(w) PROVE Follows(w[k - 1], w[k])
  <2> DEFINE j == a + k - 1
  <2>1. j \in 2..Len(s) /\ j - 1 = a + (k - 1) - 1
    BY <1>1, <1>4
  <2>2. w[k] = s[j] /\ w[k - 1] = s[j - 1]
    BY <1>1, <1>3, <1>4, <2>1
  <2> QED BY <2>1, <2>2 DEF Good
<1> QED BY <1>3, <1>4, <1>5, <1>6 DEF w, Good

LEMMA GoodOne ==
  ASSUME NEW x \in List!Runs, x.len > 0
  PROVE  Good(<<x>>) /\ Len(<<x>>) = 1 /\ <<x>>[1] = x /\ Elems(<<x>>) = {x}
<1>1. <<x>> \in Seq(List!Runs) /\ Len(<<x>>) = 1 /\ <<x>>[1] = x
  OBVIOUS
<1>2. 1..Len(<<x>>) = {1} /\ 2..Len(<<x>>) = {}
  BY <1>1
<1> QED BY <1>1, <1>2 DEF Good, Elems

LEMMA GoodNone == Good(<< >>) /\ Elems(<< >>) = {}
<1>1. << >> \in Seq(List!Runs) /\ Len(<< >>) = 0
  BY EmptySeq
<1>2. 1..Len(<< >>) = {} /\ 2..Len(<< >>) = {}
  BY <1>1
<1> QED BY <1>1, <1>2 DEF Good, Elems

\* Runs lie in the order of the list.
LEMMA GoodIsInOrder ==
  ASSUME NEW s, Good(s), NEW i \in 1..Len(s), NEW j \in 1..Len(s), i < j
  PROVE  List!EndOf(s[i]) <= s[j].offset
<1> DEFINE T == {n \in 0..(j - i - 1) : List!EndOf(s[i]) <= s[i + 1 + n].offset}
<1>1. Len(s) \in Nat /\ j - i - 1 \in Nat
  BY GoodIsTyped
<1>2. 0 \in T
  <2>1. i + 1 \in 2..Len(s) /\ (i + 1) - 1 = i /\ i + 1 + 0 = i + 1
    BY <1>1
  <2>2. Follows(s[(i + 1) - 1], s[i + 1])
    BY <2>1 DEF Good
  <2>3. List!EndOf(s[i]) \in Nat /\ s[i + 1].offset = List!EndOf(s[i])
    BY <2>1, <2>2, GoodIsTyped DEF Follows
  <2> QED BY <1>1, <2>1, <2>3
<1>3. ASSUME NEW n \in 0..((j - i - 1) - 1), n \in T PROVE n + 1 \in T
  <2> DEFINE m == i + 1 + n
  <2>1. m \in 1..Len(s) /\ m + 1 \in 2..Len(s) /\ (m + 1) - 1 = m /\ i + 1 + (n + 1) = m + 1
        /\ n + 1 \in 0..(j - i - 1)
    BY <1>1
  <2>2. List!EndOf(s[i]) <= s[m].offset
    BY <1>3
  <2> HIDE DEF m
  <2>3. Follows(s[(m + 1) - 1], s[m + 1])
    BY <2>1 DEF Good
  <2>4. s[m + 1].offset = List!EndOf(s[m])
    BY <2>1, <2>3 DEF Follows
  <2>5. List!EndOf(s[m]) > s[m].offset /\ s[m].offset \in Nat /\ List!EndOf(s[m]) \in Nat
        /\ List!EndOf(s[i]) \in Nat
    BY <2>1, GoodIsTyped
  <2>6. List!EndOf(s[i]) <= s[m + 1].offset
    <3>1. List!EndOf(s[i]) <= List!EndOf(s[m])
      BY <2>2, <2>5
    <3> QED BY <2>4, <3>1
  <2> QED BY <2>1, <2>6
<1> HIDE DEF T
<1>4. \A n \in 0..(j - i - 1) : n \in T
  BY <1>1, <1>2, <1>3, CountingUp
<1>5. j - i - 1 \in T /\ i + 1 + (j - i - 1) = j
  BY <1>1, <1>4
<1> QED BY <1>5 DEF T

\* A block of the list is in one of its runs.
LEMMA GoodCovers ==
  ASSUME NEW s, Good(s), NEW x \in Nat, NEW n \in 1..Len(s),
         s[1].offset <= x, x < List!EndOf(s[n])
  PROVE  \E m \in 1..n : s[m].offset <= x /\ x < List!EndOf(s[m])
<1> DEFINE Found(k) == \E m \in 1..k : s[m].offset <= x /\ x < List!EndOf(s[m])
           T == {k \in 0..(n - 1) : x < List!EndOf(s[k + 1]) => Found(k + 1)}
<1>1. Len(s) \in Nat /\ n \in Nat /\ n - 1 \in Nat
  BY GoodIsTyped
<1>2. 0 \in T
  <2>1. 0 + 1 = 1 /\ 1 \in 1..1
    OBVIOUS
  <2> QED BY <1>1, <2>1
<1>3. ASSUME NEW k \in 0..((n - 1) - 1), k \in T PROVE k + 1 \in T
  <2> DEFINE j == (k + 1) + 1
  <2>1. j \in 2..Len(s) /\ j - 1 = k + 1 /\ k + 1 \in 0..(n - 1) /\ j \in 1..j
        /\ 1..(k + 1) \subseteq 1..j
    BY <1>1
  <2> HIDE DEF j
  <2>2. s[j].offset = List!EndOf(s[k + 1])
    BY <2>1 DEF Good, Follows
  <2>3. s[j].offset \in Nat
    BY <2>1, GoodIsTyped
  <2>4. ~(s[j].offset <= x) => x < List!EndOf(s[k + 1])
    BY <2>2, <2>3
  <2>5. Found(k + 1) => Found(j)
    BY <2>1
  <2>6. x < List!EndOf(s[j]) => Found(j)
    BY <1>3, <2>1, <2>4, <2>5
  <2> QED BY <2>1, <2>6 DEF j
<1> HIDE DEF T
<1>4. \A k \in 0..(n - 1) : k \in T
  BY <1>1, <1>2, <1>3, CountingUp
<1>5. n - 1 \in T /\ (n - 1) + 1 = n
  BY <1>1, <1>4
<1> QED BY <1>5 DEF T

-----------------------------------------------------------------------------
(* Chains *)

LEMMA ModulusIsPositive == Modulus \in Nat \ {0}
  BY ChainsAssumption DEF List!ModulusIsPositive

LEMMA ChainsAreGood ==
  ASSUME NEW c \in Chains
  PROVE  /\ Good(c) /\ Len(c) \in Nat \ {0} /\ c # << >>
         /\ \A k \in 1..Len(c) : c[k].kind # "filler" /\ List!EndOf(c[k]) < Modulus
<1>1. /\ c \in Seq(List!Runs) /\ c # << >> /\ List!Joined(c)
      /\ \A k \in 1..Len(c) :
           c[k].len > 0 /\ c[k].kind # "filler" /\ List!EndOf(c[k]) < Modulus
  BY ChainsAssumption DEF List!ChainsAreRuns
<1>2. Len(c) \in Nat \ {0}
  BY <1>1, EmptySeq
<1>3. ASSUME NEW k \in 2..Len(c) PROVE Follows(c[k - 1], c[k])
  <2>1. k \in 1..Len(c)
    BY <1>2
  <2> QED BY <1>1, <2>1 DEF List!Joined, Follows
<1> QED BY <1>1, <1>2, <1>3 DEF Good

\* All runs of a chain lie between its ends.
LEMMA ChainEnds ==
  ASSUME NEW c \in Chains
  PROVE  /\ List!First(c) \in Nat /\ Stop(c) \in Nat /\ List!First(c) < Stop(c)
         /\ \A k \in 1..Len(c) :
              List!First(c) <= c[k].offset /\ List!EndOf(c[k]) <= Stop(c)
         /\ Stop(c) < Modulus
<1>1. Good(c) /\ Len(c) \in Nat \ {0}
  BY ChainsAreGood
<1>2. 1 \in 1..Len(c) /\ Len(c) \in 1..Len(c)
  BY <1>1
<1>3. /\ c[1].offset \in Nat /\ List!EndOf(c[1]) \in Nat /\ List!EndOf(c[1]) > c[1].offset
      /\ List!EndOf(c[Len(c)]) \in Nat
  BY <1>1, <1>2, GoodIsTyped
<1>4. ASSUME NEW k \in 1..Len(c)
      PROVE  List!First(c) <= c[k].offset /\ List!EndOf(c[k]) <= Stop(c)
  <2>0. /\ c[k].offset \in Nat /\ List!EndOf(c[k]) \in Nat
        /\ c[Len(c)].offset \in Nat /\ List!EndOf(c[Len(c)]) > c[Len(c)].offset
    BY <1>1, <1>2, GoodIsTyped
  <2>1. List!First(c) <= c[k].offset
    <3>1. CASE k = 1
      BY <1>3, <3>1 DEF List!First
    <3>2. CASE k # 1
      <4>1. 1 < k
        BY <3>2
      <4>2. List!EndOf(c[1]) <= c[k].offset
        BY <1>1, <1>2, <4>1, GoodIsInOrder
      <4> QED BY <1>3, <2>0, <4>2 DEF List!First
    <3> QED BY <3>1, <3>2
  <2>2. List!EndOf(c[k]) <= Stop(c)
    <3>1. CASE k = Len(c)
      BY <2>0, <3>1 DEF Stop
    <3>2. CASE k # Len(c)
      <4>1. k < Len(c)
        BY <1>1, <3>2
      <4>2. List!EndOf(c[k]) <= c[Len(c)].offset
        BY <1>1, <1>2, <4>1, GoodIsInOrder
      <4> QED BY <1>3, <2>0, <4>2 DEF Stop
    <3> QED BY <3>1, <3>2
  <2> QED BY <2>1, <2>2
<1>5. List!First(c) < Stop(c)
  <2>1. List!First(c) <= c[Len(c)].offset
    BY <1>2, <1>4
  <2>2. c[Len(c)].offset \in Nat /\ List!EndOf(c[Len(c)]) > c[Len(c)].offset
    BY <1>1, <1>2, GoodIsTyped
  <2> QED BY <1>3, <2>1, <2>2 DEF Stop, List!First
<1>6. Stop(c) < Modulus
  BY <1>2, ChainsAreGood DEF Stop
<1> QED BY <1>3, <1>4, <1>5, <1>6 DEF Stop, List!First

LEMMA ApartChains ==
  ASSUME NEW G, List!Apart(G), NEW c \in G, NEW d \in G, c # d
  PROVE  Stop(c) <= List!First(d) \/ Stop(d) <= List!First(c)
  BY DEF List!Apart, List!Last, Stop

-----------------------------------------------------------------------------
(* The invariant of the list *)

Data(s) == {x \in Elems(s) : x.kind # "filler"}

ListInv ==
  /\ set \in BOOLEAN /\ failed \in BOOLEAN /\ given \subseteq Chains
  /\ Good(runs) /\ end = Len(runs)
  /\ runs # << >> => runs[1].offset = 0 /\ runs[Len(runs)].kind # "filler"
  /\ Data(runs) = UNION {Elems(c) : c \in given}
  /\ ~set => runs = << >> /\ given = {}

\* The block counts of an ordinary list are in their width: a run is one of a
\* chain, or a filler before such a run.
LEMMA EndsAreInWidth ==
  ASSUME ListInv, NEW k \in 1..Len(runs)
  PROVE  /\ List!EndOf(runs[k]) \in Nat /\ List!EndOf(runs[k]) < Modulus
         /\ List!WrappedEnd(runs[k]) = List!EndOf(runs[k])
<1>1. Good(runs) /\ Len(runs) \in Nat /\ List!EndOf(runs[k]) \in Nat
  BY GoodIsTyped DEF ListInv
<1>2. ASSUME NEW j \in 1..Len(runs), runs[j].kind # "filler"
      PROVE  List!EndOf(runs[j]) < Modulus
  <2>1. runs[j] \in Data(runs)
    BY <1>2 DEF Data, Elems
  <2>2. PICK d \in given : runs[j] \in Elems(d)
    BY <2>1 DEF ListInv
  <2>3. d \in Chains
    BY DEF ListInv
  <2>4. PICK i \in 1..Len(d) : runs[j] = d[i]
    BY <2>2 DEF Elems
  <2> QED BY <2>3, <2>4, ChainsAreGood
<1>3. List!EndOf(runs[k]) < Modulus
  <2>1. CASE runs[k].kind # "filler"
    BY <1>2, <2>1
  <2>2. CASE runs[k].kind = "filler"
    <3>1. k # Len(runs) /\ runs # << >>
      BY <1>1, <2>2, EmptySeq DEF ListInv
    <3>2. k + 1 \in 2..Len(runs) /\ k + 1 \in 1..Len(runs) /\ (k + 1) - 1 = k
      BY <1>1, <3>1
    <3>3. Follows(runs[(k + 1) - 1], runs[k + 1])
      BY <1>1, <3>2 DEF Good
    <3>4. runs[k + 1].offset = List!EndOf(runs[k]) /\ runs[k + 1].kind # "filler"
      BY <2>2, <3>2, <3>3 DEF Follows
    <3>5. List!EndOf(runs[k + 1]) < Modulus
      BY <1>2, <3>2, <3>4
    <3>6. /\ List!EndOf(runs[k + 1]) \in Nat /\ runs[k + 1].offset \in Nat
          /\ List!EndOf(runs[k + 1]) > runs[k + 1].offset
      BY <1>1, <3>2, GoodIsTyped
    <3> QED BY <3>4, <3>5, <3>6, ModulusIsPositive
  <2> QED BY <2>1, <2>2
<1> DEFINE e == List!EndOf(runs[k])
<1>4. e \in 0..(Modulus - 1) /\ Modulus \in Nat \ {0}
  BY <1>1, <1>3, ModulusIsPositive
<1> HIDE DEF e
<1>5. e % Modulus = e
  BY <1>4
<1> QED BY <1>1, <1>3, <1>5 DEF e, List!WrappedEnd

LEMMA FillersAreRuns ==
  ASSUME NEW a \in Nat, NEW b \in Nat, a < b
  PROVE  /\ Good(<<List!Filler(a, b)>>) /\ Elems(<<List!Filler(a, b)>>) = {List!Filler(a, b)}
         /\ Len(<<List!Filler(a, b)>>) = 1 /\ <<List!Filler(a, b)>>[1] = List!Filler(a, b)
         /\ List!Filler(a, b).offset = a /\ List!EndOf(List!Filler(a, b)) = b
         /\ List!Filler(a, b).kind = "filler"
<1> DEFINE f == List!Filler(a, b)
<1>1. f \in List!Runs /\ f.len > 0 /\ f.offset = a /\ f.offset + f.len = b /\ f.kind = "filler"
  BY DEF List!Filler, List!Runs, List!NoAddr, List!RunKinds
<1> HIDE DEF f
<1>2. Good(<<f>>) /\ Len(<<f>>) = 1 /\ <<f>>[1] = f /\ Elems(<<f>>) = {f}
  BY <1>1, GoodOne
<1> QED BY <1>1, <1>2 DEF f, List!EndOf

\* A given block is the block of one given chain only.
LEMMA WhoHolds ==
  ASSUME ListInv, NEW c \in Chains, List!Apart(given \cup {c}), NEW m \in 1..Len(runs),
         runs[m].kind # "filler",
         runs[m].offset <= List!First(c), List!First(c) < List!EndOf(runs[m])
  PROVE  c \in given
<1>1. runs[m] \in Data(runs)
  BY DEF Data, Elems
<1>2. PICK d \in given : runs[m] \in Elems(d)
  BY <1>1 DEF ListInv
<1>3. PICK k \in 1..Len(d) : runs[m] = d[k]
  BY <1>2 DEF Elems
<1>4. d \in Chains
  BY DEF ListInv
<1>5. /\ List!First(d) <= runs[m].offset /\ List!EndOf(runs[m]) <= Stop(d)
      /\ List!First(d) \in Nat /\ Stop(d) \in Nat
      /\ List!First(c) \in Nat /\ Stop(c) \in Nat /\ List!First(c) < Stop(c)
  BY <1>3, <1>4, ChainEnds
<1>6. runs[m].offset \in Nat /\ List!EndOf(runs[m]) \in Nat
  BY GoodIsTyped DEF ListInv
<1>7. ~(Stop(c) <= List!First(d)) /\ ~(Stop(d) <= List!First(c))
  BY <1>5, <1>6
<1>8. c = d
  <2>1. c \in given \cup {c} /\ d \in given \cup {c}
    OBVIOUS
  <2> QED BY <1>7, <2>1, ApartChains
<1> QED BY <1>8

\* The list grows by a chain behind it, perhaps with a filler between.
LEMMA ListGrows ==
  ASSUME ListInv, NEW c \in Chains, NEW gap, Good(gap),
         \A x \in Elems(gap) : x.kind = "filler",
         gap = << >> \/ Len(gap) = 1,
         gap # << >> => List!EndOf(gap[1]) = List!First(c),
         gap # << >> /\ runs # << >> => gap[1].offset = List!EndOf(runs[Len(runs)]),
         gap # << >> /\ runs = << >> => gap[1].offset = 0,
         gap = << >> /\ runs # << >> => List!First(c) = List!EndOf(runs[Len(runs)]),
         gap = << >> /\ runs = << >> => List!First(c) = 0,
         runs' = (runs \o gap) \o c, end' = Len(runs'), set', set' \in BOOLEAN,
         given' = given \cup {c}, failed' = FALSE
  PROVE  ListInv'
<1>1. /\ Good(c) /\ Len(c) \in Nat \ {0} /\ c # << >>
      /\ \A k \in 1..Len(c) : c[k].kind # "filler"
  BY ChainsAreGood
<1>2. Good(runs) /\ Len(runs) \in Nat /\ (Len(runs) = 0 <=> runs = << >>)
  BY GoodIsTyped DEF ListInv
<1>3. Len(gap) \in Nat /\ (Len(gap) = 0 <=> gap = << >>)
  BY GoodIsTyped
<1>4. runs # << >> /\ gap # << >> => Follows(runs[Len(runs)], gap[1])
  BY DEF ListInv, Follows
<1> DEFINE w == runs \o gap
<1>5. /\ Good(w) /\ Elems(w) = Elems(runs) \cup Elems(gap)
      /\ Len(w) = Len(runs) + Len(gap)
      /\ \A k \in 1..Len(runs) : w[k] = runs[k]
      /\ \A k \in 1..Len(gap) : w[Len(runs) + k] = gap[k]
  BY <1>2, <1>4, GoodJoin
<1> HIDE DEF w
<1>6. Len(w) \in Nat /\ (Len(w) = 0 <=> w = << >>)
  BY <1>5, GoodIsTyped
<1>7. w # << >> => Follows(w[Len(w)], c[1])
  <2>1. 1 \in 1..Len(c)
    BY <1>1
  <2>2. CASE gap = << >>
    <3>1. w # << >> => runs # << >> /\ w[Len(w)] = runs[Len(runs)] /\ Len(gap) = 0
      BY <1>2, <1>3, <1>5, <1>6, <2>2
    <3> QED BY <1>1, <2>1, <2>2, <3>1 DEF Follows, List!First
  <2>3. CASE gap # << >>
    <3>1. Len(gap) = 1 /\ 1 \in 1..Len(gap)
      BY <2>3
    <3>2. w[Len(w)] = gap[1]
      BY <1>5, <3>1
    <3> QED BY <1>1, <2>1, <2>3, <3>2 DEF Follows, List!First
  <2> QED BY <2>2, <2>3
<1>8. /\ Good(runs') /\ Elems(runs') = Elems(w) \cup Elems(c)
      /\ Len(runs') = Len(w) + Len(c)
      /\ \A k \in 1..Len(w) : runs'[k] = w[k]
      /\ \A k \in 1..Len(c) : runs'[Len(w) + k] = c[k]
  <2>1. runs' = w \o c
    BY DEF w
  <2>2. /\ Good(w \o c) /\ Elems(w \o c) = Elems(w) \cup Elems(c)
        /\ Len(w \o c) = Len(w) + Len(c)
        /\ \A k \in 1..Len(w) : (w \o c)[k] = w[k]
        /\ \A k \in 1..Len(c) : (w \o c)[Len(w) + k] = c[k]
    <3>1. Good(w) /\ Good(c) /\ (w # << >> /\ c # << >> => Follows(w[Len(w)], c[1]))
      BY <1>1, <1>5, <1>7
    <3> QED BY <3>1, GoodJoin
  <2> QED BY <2>1, <2>2
<1>9. runs'[1].offset = 0
  <2>1. CASE runs # << >>
    <3>1. 1 \in 1..Len(runs) /\ 1 \in 1..Len(w)
      BY <1>2, <1>3, <1>5, <2>1
    <3> QED BY <1>5, <1>8, <2>1, <3>1 DEF ListInv
  <2>2. CASE runs = << >> /\ gap # << >>
    <3>1. 1 \in 1..Len(gap) /\ 1 \in 1..Len(w) /\ Len(runs) + 1 = 1
      BY <1>2, <1>5, <2>2
    <3> QED BY <1>5, <1>8, <2>2, <3>1
  <2>3. CASE runs = << >> /\ gap = << >>
    <3>1. 1 \in 1..Len(c) /\ Len(w) + 1 = 1
      BY <1>1, <1>2, <1>3, <1>5, <2>3
    <3> QED BY <1>8, <2>3, <3>1 DEF List!First
  <2> QED BY <2>1, <2>2, <2>3
<1>10. runs'[Len(runs')].kind # "filler" /\ runs' # << >>
  <2>1. Len(c) \in 1..Len(c) /\ Len(runs') = Len(w) + Len(c) /\ Len(runs') # 0
    BY <1>1, <1>6, <1>8
  <2>2. runs'[Len(runs')] = c[Len(c)]
    BY <1>8, <2>1
  <2> QED BY <1>1, <1>8, <2>1, <2>2, GoodIsTyped
<1>11. Data(runs') = UNION {Elems(d) : d \in given'}
  <2>1. \A x \in Elems(c) : x.kind # "filler"
    BY <1>1 DEF Elems
  <2>2. Data(runs') = Data(runs) \cup Elems(c)
    BY <1>5, <1>8, <2>1 DEF Data
  <2> QED BY <2>2 DEF ListInv
<1> QED BY <1>8, <1>9, <1>10, <1>11 DEF ListInv, Data, Elems

-----------------------------------------------------------------------------
(* The operations *)

LEMMA GapIsFiller ==
  ASSUME NEW a \in Nat, NEW b \in Nat, a < b
  PROVE  /\ Good(<<List!Filler(a, b)>>) /\ Len(<<List!Filler(a, b)>>) = 1
         /\ <<List!Filler(a, b)>> # << >>
         /\ \A x \in Elems(<<List!Filler(a, b)>>) : x.kind = "filler"
         /\ List!EndOf(<<List!Filler(a, b)>>[1]) = b
         /\ <<List!Filler(a, b)>>[1].offset = a
<1> DEFINE g == <<List!Filler(a, b)>>
<1>1. /\ Good(g) /\ Elems(g) = {List!Filler(a, b)} /\ Len(g) = 1
      /\ g[1] = List!Filler(a, b) /\ List!Filler(a, b).offset = a
      /\ List!EndOf(List!Filler(a, b)) = b /\ List!Filler(a, b).kind = "filler"
  BY FillersAreRuns
<1> HIDE DEF g
<1>2. g # << >>
  BY <1>1, EmptySeq
<1>3. \A x \in Elems(g) : x.kind = "filler"
  BY <1>1
<1> QED BY <1>1, <1>2, <1>3 DEF g

LEMMA NoGap == Good(<< >>) /\ \A x \in Elems(<< >>) : x.kind = "filler"
  BY GoodNone

LEMMA SetRunKeeps ==
  ASSUME ListInv, NEW c \in Chains, List!SetRun(c) PROVE ListInv'
<1>1. /\ ~set /\ runs = << >> /\ given = {} /\ set' = TRUE /\ failed' = FALSE
      /\ given' = given \cup {c} /\ end' = Len(runs')
      /\ runs' = IF List!First(c) = 0 THEN c ELSE <<List!Filler(0, List!First(c))>> \o c
  BY DEF List!SetRun, ListInv
<1>2. c \in Seq(List!Runs) /\ List!First(c) \in Nat
  BY ChainsAreGood, ChainEnds DEF Good
<1>3. CASE List!First(c) = 0
  <2>1. runs' = (runs \o << >>) \o c
    BY <1>1, <1>2, <1>3, ConcatEmptySeq, EmptySeq
  <2> QED BY <1>1, <1>3, <2>1, NoGap, ListGrows
<1>4. CASE List!First(c) # 0
  <2> DEFINE g == <<List!Filler(0, List!First(c))>>
  <2>1. /\ Good(g) /\ Len(g) = 1 /\ g # << >> /\ \A x \in Elems(g) : x.kind = "filler"
        /\ List!EndOf(g[1]) = List!First(c) /\ g[1].offset = 0
    BY <1>2, <1>4, GapIsFiller
  <2>2. runs' = g \o c
    BY <1>1, <1>4
  <2> HIDE DEF g
  <2>3. runs' = (runs \o g) \o c
    BY <1>1, <2>1, <2>2, ConcatEmptySeq DEF Good
  <2> QED BY <1>1, <2>1, <2>3, ListGrows
<1> QED BY <1>3, <1>4

LEMMA SetNoRunKeeps == ASSUME ListInv, List!SetNoRun PROVE ListInv'
<1>1. runs' = << >> /\ end' = 0 /\ set' = TRUE /\ failed' = FALSE /\ given' = {}
  BY DEF List!SetNoRun
<1>2. Good(<< >>) /\ Elems(<< >>) = {} /\ Len(<< >>) = 0
  BY GoodNone, EmptySeq
<1>3. Good(runs') /\ Data(runs') = {} /\ end' = Len(runs')
  BY <1>1, <1>2 DEF Data
<1>4. UNION {Elems(c) : c \in given'} = {}
  BY <1>1
<1> QED BY <1>1, <1>3, <1>4 DEF ListInv, Data, Elems

LEMMA AppendAtEndKeeps ==
  ASSUME ListInv, NEW c \in Chains, List!AppendAtEnd(c) PROVE ListInv'
<1>1. /\ set /\ set' = set /\ given' = given \cup {c} /\ end # 0
      /\ List!WrappedEnd(runs[end]) = List!First(c) /\ end = Len(runs)
      /\ runs' = SubSeq(runs, 1, end) \o c /\ end' = Len(runs') /\ failed' = FALSE
  BY DEF List!AppendAtEnd, List!Adds, List!AtEnd, ListInv
<1>2. runs \in Seq(List!Runs) /\ runs # << >>
  BY <1>1, EmptySeq DEF ListInv, Good
<1>3. SubSeq(runs, 1, end) = runs /\ runs \o << >> = runs
  BY <1>1, <1>2, SubSeqFull, ConcatEmptySeq
<1>4. runs' = (runs \o << >>) \o c
  BY <1>1, <1>3
<1>5. List!EndOf(runs[Len(runs)]) = List!First(c)
  <2>1. Len(runs) \in 1..Len(runs)
    BY <1>1, <1>2, LenProperties
  <2> QED BY <1>1, <2>1, EndsAreInWidth
<1> QED BY <1>1, <1>2, <1>4, <1>5, NoGap, ListGrows DEF ListInv

\* No filler ends behind the beginning of the chain: whatever covers it is data.
LEMMA RefusedIsGiven ==
  ASSUME ListInv, NEW c \in Chains, List!Apart(given \cup {c}), NEW n \in 1..Len(runs),
         List!First(c) < List!EndOf(runs[n]), \A j \in 1..n : ~List!StopsAt(j, c)
  PROVE  c \in given
<1>1. Good(runs) /\ List!First(c) \in Nat /\ runs # << >>
  <2>1. Good(runs) /\ List!First(c) \in Nat
    BY ChainEnds DEF ListInv
  <2> QED BY <2>1, GoodIsTyped
<1>2. runs[1].offset <= List!First(c)
  BY <1>1 DEF ListInv
<1>3. PICK m \in 1..n : runs[m].offset <= List!First(c) /\ List!First(c) < List!EndOf(runs[m])
  BY <1>1, <1>2, GoodCovers
<1>4. m \in 1..Len(runs) /\ List!WrappedEnd(runs[m]) = List!EndOf(runs[m])
  BY <1>1, EndsAreInWidth
<1>5. runs[m].kind # "filler"
  <2>1. List!WrappedEnd(runs[m]) > List!First(c)
    BY <1>1, <1>3, <1>4, EndsAreInWidth
  <2> QED BY <1>3, <2>1 DEF List!StopsAt
<1> QED BY <1>3, <1>4, <1>5, WhoHolds

LEMMA UnchangedListKeeps ==
  ASSUME ListInv, NEW c \in Chains, c \in given, given' = given \cup {c},
         runs' = runs, end' = end, set' = set, failed' \in BOOLEAN
  PROVE  ListInv'
<1>1. given' = given
  OBVIOUS
<1> QED BY <1>1, Zenon DEF ListInv

LEMMA FillerBehindKeeps ==
  ASSUME ListInv, NEW c \in Chains, List!Apart(given \cup {c}), List!FillerBehind(c)
  PROVE  ListInv'
<1>1. /\ set' = set /\ given' = given \cup {c} /\ runs' = runs /\ end' = end /\ failed' = TRUE
  BY DEF List!FillerBehind, List!Adds
<1>2. PICK k \in 1..Len(runs) : List!IsPlace(k, c) /\ runs[k].offset > List!First(c)
  BY DEF List!FillerBehind
<1>3. Good(runs) /\ Len(runs) \in Nat /\ List!First(c) \in Nat /\ runs[k].offset \in Nat
  BY GoodIsTyped, ChainEnds DEF ListInv
<1>4. k \in 2..Len(runs)
  <2>1. k # 1
    BY <1>2, <1>3, EmptySeq DEF ListInv
  <2> QED BY <1>3, <2>1
<1>5. k - 1 \in 1..Len(runs) /\ List!EndOf(runs[k - 1]) = runs[k].offset
  BY <1>3, <1>4 DEF Good, Follows
<1>6. \A j \in 1..(k - 1) : ~List!StopsAt(j, c)
  BY <1>2 DEF List!IsPlace
<1>7. List!First(c) < List!EndOf(runs[k - 1])
  BY <1>2, <1>3, <1>5
<1>8. c \in given
  BY <1>5, <1>6, <1>7, RefusedIsGiven
<1> QED BY <1>1, <1>8, UnchangedListKeeps

LEMMA BehindIsTheEnd ==
  ASSUME ListInv
  PROVE  /\ List!Behind \in Nat
         /\ runs # << >> => List!Behind = List!EndOf(runs[Len(runs)]) /\ Len(runs) \in 1..Len(runs)
         /\ runs = << >> => List!Behind = 0
<1>1. Len(runs) \in Nat /\ (Len(runs) = 0 <=> runs = << >>)
  BY GoodIsTyped DEF ListInv
<1>2. runs # << >> => Len(runs) \in 1..Len(runs)
  BY <1>1
<1>3. runs # << >> => /\ List!EndOf(runs[Len(runs)]) \in Nat
                      /\ List!WrappedEnd(runs[Len(runs)]) = List!EndOf(runs[Len(runs)])
  BY <1>2, EndsAreInWidth
<1> QED BY <1>2, <1>3 DEF List!Behind, List!Last

LEMMA InTheListKeeps ==
  ASSUME ListInv, NEW c \in Chains, List!Apart(given \cup {c}), List!InTheList(c)
  PROVE  ListInv'
<1>1. /\ set' = set /\ given' = given \cup {c} /\ runs' = runs /\ end' = end
      /\ failed' \in BOOLEAN /\ List!NoPlace(c) /\ runs # << >> /\ List!Behind > List!First(c)
  BY DEF List!InTheList, List!Adds
<1>2. List!First(c) < List!EndOf(runs[Len(runs)]) /\ Len(runs) \in 1..Len(runs)
  BY <1>1, BehindIsTheEnd, ChainEnds
<1>3. \A j \in 1..Len(runs) : ~List!StopsAt(j, c)
  BY <1>1 DEF List!NoPlace
<1>4. c \in given
  BY <1>2, <1>3, RefusedIsGiven
<1> QED BY <1>1, <1>4, UnchangedListKeeps

LEMMA PastTheEndKeeps ==
  ASSUME ListInv, NEW c \in Chains, List!PastTheEnd(c) PROVE ListInv'
<1>1. /\ set /\ set' = set /\ given' = given \cup {c} /\ List!Behind <= List!First(c)
      /\ runs' = runs \o (IF List!Behind = List!First(c) THEN << >>
                          ELSE <<List!Filler(List!Behind, List!First(c))>>) \o c
      /\ end' = Len(runs') /\ failed' = FALSE
  BY DEF List!PastTheEnd, List!Adds
<1>2. /\ c \in Seq(List!Runs) /\ List!First(c) \in Nat /\ runs \in Seq(List!Runs)
      /\ set \in BOOLEAN
  BY ChainsAreGood, ChainEnds DEF Good, ListInv
<1>3. CASE List!Behind = List!First(c)
  <2>1. runs' = (runs \o << >>) \o c
    BY <1>1, <1>3
  <2> QED BY <1>1, <1>2, <1>3, <2>1, BehindIsTheEnd, NoGap, ListGrows
<1>4. CASE List!Behind # List!First(c)
  <2> DEFINE g == <<List!Filler(List!Behind, List!First(c))>>
  <2>1. List!Behind \in Nat /\ List!Behind < List!First(c)
    BY <1>1, <1>2, <1>4, BehindIsTheEnd
  <2>2. /\ Good(g) /\ Len(g) = 1 /\ g # << >> /\ \A x \in Elems(g) : x.kind = "filler"
        /\ List!EndOf(g[1]) = List!First(c) /\ g[1].offset = List!Behind
    BY <1>2, <2>1, GapIsFiller
  <2>3. runs' = (runs \o g) \o c
    BY <1>1, <1>4
  <2> HIDE DEF g
  <2> QED BY <1>1, <1>2, <2>2, <2>3, BehindIsTheEnd, ListGrows
<1> QED BY <1>3, <1>4

\* What is put into a filler ends within it, because behind the filler there is
\* a run of another chain.
LEMMA FitsIntoFiller ==
  ASSUME ListInv, NEW c \in Chains, List!Apart(given \cup {c}), NEW k \in 1..Len(runs),
         runs[k].kind = "filler",
         runs[k].offset <= List!First(c), List!First(c) < List!EndOf(runs[k])
  PROVE  /\ k + 1 \in 1..Len(runs)
         /\ Stop(c) <= List!EndOf(runs[k]) /\ List!EndOf(runs[k]) < Modulus
<1>1. Good(runs) /\ Len(runs) \in Nat /\ runs # << >> /\ runs[Len(runs)].kind # "filler"
  <2>1. Good(runs) /\ Len(runs) \in Nat /\ runs # << >>
    BY GoodIsTyped DEF ListInv
  <2> QED BY <2>1 DEF ListInv
<1>2. k + 1 \in 2..Len(runs) /\ k + 1 \in 1..Len(runs) /\ (k + 1) - 1 = k
  <2>1. k # Len(runs)
    BY <1>1
  <2> QED BY <1>1, <2>1
<1>3. Follows(runs[k], runs[k + 1])
  BY <1>1, <1>2 DEF Good
<1> DEFINE r == runs[k + 1]
<1>4. /\ r.offset = List!EndOf(runs[k]) /\ r.kind # "filler"
      /\ r.offset \in Nat /\ List!EndOf(r) \in Nat /\ r.offset < List!EndOf(r)
  BY <1>1, <1>2, <1>3, GoodIsTyped DEF Follows
<1>5. PICK d \in given : r \in Elems(d)
  <2>1. r \in Data(runs)
    BY <1>2, <1>4 DEF Data, Elems
  <2> QED BY <2>1 DEF ListInv
<1> HIDE DEF r
<1>6. d \in Chains
  BY DEF ListInv
<1>7. /\ List!First(d) <= r.offset /\ List!EndOf(r) <= Stop(d) /\ List!EndOf(r) < Modulus
      /\ List!First(d) \in Nat /\ Stop(d) \in Nat
  <2>1. PICK j \in 1..Len(d) : r = d[j]
    BY <1>5 DEF Elems
  <2> QED BY <1>6, <2>1, ChainEnds, ChainsAreGood
<1>8. List!First(c) \in Nat /\ Stop(c) \in Nat /\ List!First(c) < Stop(c)
  BY ChainEnds
<1>9. c \notin given
  <2> SUFFICES ASSUME c \in given PROVE FALSE
    OBVIOUS
  <2>1. 1 \in 1..Len(c) /\ c[1].kind # "filler"
    BY ChainsAreGood
  <2>2. c[1] \in Elems(c)
    BY <2>1 DEF Elems
  <2>3. c[1] \in Elems(runs)
    BY <2>2 DEF ListInv, Data
  <2>4. PICK m \in 1..Len(runs) : c[1] = runs[m]
    BY <2>3 DEF Elems
  <2>5. runs[m].offset = List!First(c) /\ m # k /\ m \in Nat /\ k \in Nat
    BY <2>1, <2>4 DEF List!First
  <2>6. /\ runs[m].offset \in Nat /\ List!EndOf(runs[m]) \in Nat
        /\ List!EndOf(runs[m]) > runs[m].offset
        /\ runs[k].offset \in Nat /\ List!EndOf(runs[k]) \in Nat
    BY <1>1, GoodIsTyped
  <2>7. CASE m < k
    <3>1. List!EndOf(runs[m]) <= runs[k].offset
      BY <1>1, <2>7, GoodIsInOrder
    <3> QED BY <2>5, <2>6, <3>1
  <2>8. CASE k < m
    <3>1. List!EndOf(runs[k]) <= runs[m].offset
      BY <1>1, <2>8, GoodIsInOrder
    <3> QED BY <2>5, <2>6, <3>1
  <2> QED BY <2>5, <2>7, <2>8
<1>10. c # d
  BY <1>9
<1>11. Stop(c) <= List!First(d)
  <2>1. Stop(c) <= List!First(d) \/ Stop(d) <= List!First(c)
    <3>1. c \in given \cup {c} /\ d \in given \cup {c}
      OBVIOUS
    <3> QED BY <1>10, <3>1, ApartChains
  <2> QED BY <1>4, <1>7, <1>8, <2>1
<1>12. Stop(c) <= List!EndOf(runs[k]) /\ List!EndOf(runs[k]) < Modulus
  <2>1. Modulus \in Nat
    BY ModulusIsPositive
  <2> QED BY <1>4, <1>7, <1>8, <1>11, <2>1
<1> QED BY <1>2, <1>12

\* What remains of the filler begins where a chain of one run ends.
LEMMA RestIsFiller ==
  ASSUME ListInv, NEW c \in Chains, Len(c) = 1, List!Apart(given \cup {c}), NEW k \in 1..Len(runs),
         runs[k].kind = "filler",
         runs[k].offset <= List!First(c), Stop(c) < List!EndOf(runs[k])
  PROVE  /\ List!Rest(k, c) \in List!Runs /\ List!Rest(k, c).len > 0
         /\ List!Rest(k, c).kind = "filler" /\ List!Rest(k, c).offset = Stop(c)
         /\ List!EndOf(List!Rest(k, c)) = List!EndOf(runs[k])
<1>1. /\ runs[k] \in List!Runs /\ runs[k].offset \in Nat /\ runs[k].len \in Nat
      /\ List!EndOf(runs[k]) = runs[k].offset + runs[k].len
  BY GoodIsTyped DEF ListInv, List!EndOf
<1>2. List!First(c) \in Nat /\ Stop(c) \in Nat /\ List!First(c) < Stop(c)
  BY ChainEnds
<1>3. List!First(c) < List!EndOf(runs[k]) /\ List!EndOf(runs[k]) \in Nat
  BY <1>1, <1>2
<1>4. List!EndOf(runs[k]) < Modulus
  BY EndsAreInWidth
<1>5. Stop(c) = List!First(c) + c[1].len /\ List!Blocks(c) = Stop(c) - List!First(c)
  BY DEF Stop, List!EndOf, List!First, List!Blocks, List!Last
<1> DEFINE n == List!EndOf(runs[k]) - Stop(c)
<1>6. n \in 0..(Modulus - 1) /\ n > 0
  BY <1>2, <1>3, <1>4, ModulusIsPositive
<1>7. (runs[k].len - (List!First(c) - runs[k].offset)) - List!Blocks(c) = n
  <2> DEFINE o == runs[k].offset   l == runs[k].len   b == List!First(c)   e == Stop(c)
  <2>1. o \in Nat /\ l \in Nat /\ b \in Nat /\ e \in Nat /\ n = (o + l) - e /\ List!Blocks(c) = e - b
    BY <1>1, <1>2, <1>5
  <2> HIDE DEF o, l, b, e, n
  <2>2. (l - (b - o)) - (e - b) = n
    BY <2>1
  <2> QED BY <2>1, <2>2 DEF o, l, b, e
<1> HIDE DEF n
<1>8. n % Modulus = n
  BY <1>6, ModulusIsPositive
<1>9. List!Rest(k, c) = [runs[k] EXCEPT !.len = n, !.offset = Stop(c)]
  BY <1>5, <1>7, <1>8 DEF List!Rest
<1>10. /\ List!Rest(k, c) \in List!Runs /\ List!Rest(k, c).len = n
       /\ List!Rest(k, c).offset = Stop(c) /\ List!Rest(k, c).kind = "filler"
  <2> DEFINE f == runs[k]   g == [f EXCEPT !.len = n, !.offset = Stop(c)]
  <2>1. f \in List!Runs /\ f.kind = "filler" /\ n \in Nat /\ Stop(c) \in Nat
    BY <1>1, <1>2, <1>6
  <2> HIDE DEF f
  <2>2. g \in List!Runs /\ g.len = n /\ g.offset = Stop(c) /\ g.kind = "filler"
    BY <2>1 DEF List!Runs
  <2> QED BY <1>9, <2>2 DEF f
<1> QED BY <1>2, <1>3, <1>6, <1>10 DEF List!EndOf, n

LEMMA DataJoins ==
  ASSUME NEW s, NEW u, NEW w, Elems(w) = Elems(s) \cup Elems(u)
  PROVE  Data(w) = Data(s) \cup Data(u)
  BY DEF Data

\* A filler is replaced by runs that begin and end where it does.
LEMMA Splice ==
  ASSUME NEW s, Good(s), NEW k \in 1..Len(s), k + 1 \in 1..Len(s), s[k].kind = "filler",
         NEW u, Good(u), u # << >>,
         u[1].offset = s[k].offset, List!EndOf(u[Len(u)]) = List!EndOf(s[k])
  PROVE  LET w == SubSeq(s, 1, k - 1) \o u \o SubSeq(s, k + 1, Len(s)) IN
         /\ Good(w) /\ Len(w) = Len(s) + Len(u) - 1
         /\ Data(w) = Data(s) \cup Data(u)
         /\ w # << >> /\ w[1].offset = s[1].offset /\ w[Len(w)] = s[Len(s)]
<1> DEFINE a == SubSeq(s, 1, k - 1)   e == SubSeq(s, k + 1, Len(s))
           w == a \o u \o e
<1> SUFFICES /\ Good(w) /\ Len(w) = Len(s) + Len(u) - 1
             /\ Data(w) = Data(s) \cup Data(u)
             /\ w # << >> /\ w[1].offset = s[1].offset /\ w[Len(w)] = s[Len(s)]
  OBVIOUS
<1> HIDE DEF w
<1>1. /\ Len(s) \in Nat /\ k \in Nat /\ k >= 1 /\ k < Len(s) /\ Len(u) \in Nat /\ Len(u) >= 1
      /\ 1 \in 1..Len(u) /\ Len(u) \in 1..Len(u)
  <2>1. Len(s) \in Nat /\ Len(u) \in Nat /\ Len(u) # 0
    BY GoodIsTyped
  <2> QED BY <2>1
<1>2. Good(a) /\ Len(a) = k - 1 /\ \A j \in 1..(k - 1) : a[j] = s[j]
  <2>1. 1 \in 1..(Len(s) + 1) /\ k - 1 \in (1 - 1)..Len(s) /\ (k - 1) - 1 + 1 = k - 1
    BY <1>1
  <2>2. /\ Good(a) /\ Len(a) = (k - 1) - 1 + 1
        /\ \A j \in 1..((k - 1) - 1 + 1) : a[j] = s[1 + j - 1]
    BY <2>1, GoodPart
  <2> HIDE DEF a
  <2>3. \A j \in 1..(k - 1) : 1 + j - 1 = j
    OBVIOUS
  <2> QED BY <2>1, <2>2, <2>3
<1>3. Good(e) /\ Len(e) = Len(s) - k /\ \A j \in 1..(Len(s) - k) : e[j] = s[k + j]
  <2>1. /\ k + 1 \in 1..(Len(s) + 1) /\ Len(s) \in ((k + 1) - 1)..Len(s)
        /\ Len(s) - (k + 1) + 1 = Len(s) - k
    BY <1>1
  <2>2. /\ Good(e) /\ Len(e) = Len(s) - (k + 1) + 1
        /\ \A j \in 1..(Len(s) - (k + 1) + 1) : e[j] = s[(k + 1) + j - 1]
    BY <2>1, GoodPart
  <2> HIDE DEF e
  <2>3. \A j \in 1..(Len(s) - k) : (k + 1) + j - 1 = k + j
    BY <1>1
  <2> QED BY <2>1, <2>2, <2>3
<1> HIDE DEF a, e
<1>4. a # << >> => k - 1 \in 1..(k - 1) /\ k \in 2..Len(s) /\ a[Len(a)] = s[k - 1]
  <2>1. a # << >> => Len(a) # 0
    BY <1>2, GoodIsTyped
  <2>2. ASSUME a # << >> PROVE k - 1 \in 1..(k - 1) /\ k \in 2..Len(s)
    <3>1. k - 1 # 0
      BY <1>2, <2>1, <2>2
    <3> QED BY <1>1, <3>1
  <2>3. ASSUME a # << >> PROVE a[k - 1] = s[k - 1]
    BY <1>2, <2>2, <2>3
  <2> QED BY <1>2, <2>2, <2>3
<1>5. a # << >> /\ u # << >> => Follows(a[Len(a)], u[1])
  <2>1. a # << >> => Follows(s[k - 1], s[k])
    BY <1>4 DEF Good
  <2> QED BY <1>4, <2>1 DEF Follows
<1> DEFINE v == a \o u
<1>6. /\ Good(v) /\ Elems(v) = Elems(a) \cup Elems(u) /\ Len(v) = (k - 1) + Len(u)
      /\ \A j \in 1..(k - 1) : v[j] = s[j]
      /\ \A j \in 1..Len(u) : v[(k - 1) + j] = u[j]
  <2>0. Good(a) /\ Good(u) /\ (a # << >> /\ u # << >> => Follows(a[Len(a)], u[1]))
    BY <1>2, <1>5
  <2>1. /\ Good(v) /\ Elems(v) = Elems(a) \cup Elems(u) /\ Len(v) = Len(a) + Len(u)
        /\ \A j \in 1..Len(a) : v[j] = a[j]
        /\ \A j \in 1..Len(u) : v[Len(a) + j] = u[j]
    BY <2>0, GoodJoin
  <2> QED BY <1>2, <2>1
<1> HIDE DEF v
<1>7. Len(v) \in Nat /\ Len(v) >= 1 /\ v[Len(v)] = u[Len(u)] /\ v # << >>
  <2>1. Len(v) \in Nat /\ Len(v) >= 1 /\ v[Len(v)] = u[Len(u)]
    BY <1>1, <1>6
  <2> QED BY <1>6, <2>1, GoodIsTyped
<1>8. v[1].offset = s[1].offset
  <2>1. CASE k = 1
    BY <1>1, <1>6, <2>1
  <2>2. CASE k # 1
    BY <1>1, <1>6, <2>2
  <2> QED BY <2>1, <2>2
<1>9. Follows(s[k], s[k + 1]) /\ Len(e) \in Nat /\ Len(e) >= 1 /\ e[1] = s[k + 1]
      /\ e[Len(e)] = s[Len(s)]
  <2>1. k + 1 \in 2..Len(s) /\ (k + 1) - 1 = k
    BY <1>1
  <2>2. Follows(s[(k + 1) - 1], s[k + 1])
    BY <2>1 DEF Good
  <2>3. /\ Len(e) \in Nat /\ Len(e) >= 1 /\ 1 \in 1..(Len(s) - k)
        /\ Len(e) \in 1..(Len(s) - k) /\ k + Len(e) = Len(s)
    <3>1. Len(e) = Len(s) - k
      BY <1>3
    <3> QED BY <1>1, <3>1
  <2>4. e[1] = s[k + 1] /\ e[Len(e)] = s[k + Len(e)]
    BY <1>3, <2>3
  <2> QED BY <2>1, <2>2, <2>3, <2>4
<1>10. Follows(v[Len(v)], e[1])
  BY <1>7, <1>9 DEF Follows
<1>11. w = v \o e
  BY DEF v, w
<1>12. /\ Good(w) /\ Elems(w) = Elems(v) \cup Elems(e) /\ Len(w) = Len(v) + Len(e)
       /\ \A j \in 1..Len(v) : w[j] = v[j]
       /\ \A j \in 1..Len(e) : w[Len(v) + j] = e[j]
  <2>1. Good(v) /\ Good(e) /\ (v # << >> /\ e # << >> => Follows(v[Len(v)], e[1]))
    BY <1>3, <1>6, <1>10
  <2>2. /\ Good(v \o e) /\ Elems(v \o e) = Elems(v) \cup Elems(e)
        /\ Len(v \o e) = Len(v) + Len(e)
        /\ \A j \in 1..Len(v) : (v \o e)[j] = v[j]
        /\ \A j \in 1..Len(e) : (v \o e)[Len(v) + j] = e[j]
    BY <2>1, GoodJoin
  <2> QED BY <1>11, <2>2
<1>13. /\ Len(w) = Len(s) + Len(u) - 1 /\ w[1] = v[1] /\ w[Len(w)] = e[Len(e)] /\ w # << >>
  <2>1. 1 \in 1..Len(v) /\ Len(e) \in 1..Len(e) /\ Len(w) # 0
    BY <1>7, <1>9, <1>12
  <2>2. w # << >>
    BY <1>12, <2>1, GoodIsTyped
  <2>3. Len(w) = Len(s) + Len(u) - 1
    BY <1>1, <1>3, <1>6, <1>12
  <2>4. w[1] = v[1] /\ w[Len(v) + Len(e)] = e[Len(e)]
    BY <1>12, <2>1
  <2>5. w[Len(w)] = e[Len(e)]
    BY <1>12, <2>4
  <2> QED BY <2>2, <2>3, <2>4, <2>5
<1>14. Data(w) = Data(s) \cup Data(u)
  <2>1. Data(w) = (Data(a) \cup Data(u)) \cup Data(e)
    <3>1. Data(v) = Data(a) \cup Data(u)
      BY <1>6, DataJoins
    <3>2. Data(w) = Data(v) \cup Data(e)
      BY <1>12, DataJoins
    <3> QED BY <3>1, <3>2
  <2>2. \A x \in Data(s) : x \in Data(a) \cup Data(e)
    <3> TAKE x \in Data(s)
    <3>1. PICK j \in 1..Len(s) : x = s[j]
      BY DEF Data, Elems
    <3>2. j # k
      BY <3>1 DEF Data
    <3>3. CASE j < k
      <4>1. j \in 1..Len(a) /\ a[j] = x
        BY <1>1, <1>2, <3>1, <3>3
      <4> QED BY <4>1 DEF Data, Elems
    <3>4. CASE j > k
      <4>1. j - k \in 1..(Len(s) - k) /\ k + (j - k) = j
        BY <1>1, <3>4
      <4>2. j - k \in 1..Len(e) /\ e[j - k] = x
        BY <1>3, <3>1, <4>1
      <4> QED BY <4>2 DEF Data, Elems
    <3> QED BY <1>1, <3>2, <3>3, <3>4
  <2>3. Data(a) \subseteq Data(s)
    <3>1. \A j \in 1..Len(a) : j \in 1..Len(s) /\ a[j] = s[j]
      BY <1>1, <1>2
    <3> QED BY <3>1 DEF Data, Elems
  <2>4. Data(e) \subseteq Data(s)
    <3>1. \A j \in 1..Len(e) : k + j \in 1..Len(s) /\ e[j] = s[k + j]
      BY <1>1, <1>3
    <3> QED BY <3>1 DEF Data, Elems
  <2> QED BY <2>1, <2>2, <2>3, <2>4
<1> QED BY <1>8, <1>9, <1>12, <1>13, <1>14

\* The runs that replace a filler begin and end where it does.
LEMMA NewRuns ==
  ASSUME NEW f \in List!Runs, f.kind = "filler", NEW c \in Chains, Stop(c) <= List!EndOf(f),
         f.offset <= List!First(c),
         NEW before, Good(before),
         \A x \in Elems(before) : x.kind = "filler",
         before = << >> => List!First(c) = f.offset,
         before # << >> => /\ Len(before) = 1 /\ before[1].offset = f.offset
                           /\ List!EndOf(before[1]) = List!First(c),
         NEW after, Good(after), \A x \in Elems(after) : x.kind = "filler",
         after = << >> => Stop(c) = List!EndOf(f),
         after # << >> => /\ Len(after) = 1 /\ after[1].offset = Stop(c)
                          /\ List!EndOf(after[1]) = List!EndOf(f)
  PROVE  LET u == (before \o c) \o after IN
         /\ Good(u) /\ u # << >> /\ u[1].offset = f.offset
         /\ List!EndOf(u[Len(u)]) = List!EndOf(f) /\ Data(u) = Elems(c)
<1> DEFINE u == (before \o c) \o after
<1> SUFFICES /\ Good(u) /\ u # << >> /\ u[1].offset = f.offset
             /\ List!EndOf(u[Len(u)]) = List!EndOf(f) /\ Data(u) = Elems(c)
  OBVIOUS
<1> HIDE DEF u
<1>1. /\ Good(c) /\ Len(c) \in Nat \ {0} /\ c # << >>
      /\ \A k \in 1..Len(c) : c[k].kind # "filler"
  BY ChainsAreGood
<1>2. 1 \in 1..Len(c) /\ Len(c) \in 1..Len(c) /\ c[1].kind # "filler" /\ c[Len(c)].kind # "filler"
  BY <1>1
<1>3. /\ Len(before) \in Nat /\ (Len(before) = 0 <=> before = << >>)
      /\ Len(after) \in Nat /\ (Len(after) = 0 <=> after = << >>)
  BY GoodIsTyped
<1>4. before # << >> /\ c # << >> => Follows(before[Len(before)], c[1])
  BY <1>2 DEF Follows, List!First
<1> DEFINE v == before \o c
<1>5. /\ Good(v) /\ Elems(v) = Elems(before) \cup Elems(c) /\ Len(v) = Len(before) + Len(c)
      /\ \A k \in 1..Len(before) : v[k] = before[k]
      /\ \A k \in 1..Len(c) : v[Len(before) + k] = c[k]
  BY <1>1, <1>4, GoodJoin
<1> HIDE DEF v
<1>6. v[Len(v)] = c[Len(c)] /\ Len(v) \in Nat /\ Len(v) >= 1
  BY <1>1, <1>2, <1>3, <1>5
<1>7. v[1].offset = f.offset
  <2>1. CASE before = << >>
    <3>1. v[1] = c[1]
      BY <1>2, <1>3, <1>5, <2>1
    <3> QED BY <2>1, <3>1 DEF List!First
  <2>2. CASE before # << >>
    <3>1. 1 \in 1..Len(before)
      BY <2>2
    <3> QED BY <1>5, <2>2, <3>1
  <2> QED BY <2>1, <2>2
<1>8. v # << >> /\ after # << >> => Follows(v[Len(v)], after[1])
  BY <1>2, <1>6 DEF Follows, Stop
<1>9. /\ Good(u) /\ Elems(u) = Elems(v) \cup Elems(after) /\ Len(u) = Len(v) + Len(after)
      /\ \A k \in 1..Len(v) : u[k] = v[k]
      /\ \A k \in 1..Len(after) : u[Len(v) + k] = after[k]
  <2>1. u = v \o after
    BY DEF u, v
  <2>2. /\ Good(v \o after) /\ Elems(v \o after) = Elems(v) \cup Elems(after)
        /\ Len(v \o after) = Len(v) + Len(after)
        /\ \A k \in 1..Len(v) : (v \o after)[k] = v[k]
        /\ \A k \in 1..Len(after) : (v \o after)[Len(v) + k] = after[k]
    <3>1. Good(v) /\ Good(after) /\ (v # << >> /\ after # << >> => Follows(v[Len(v)], after[1]))
      BY <1>5, <1>8
    <3> QED BY <3>1, GoodJoin
  <2> QED BY <2>1, <2>2
<1>10. u[1].offset = f.offset /\ Len(u) # 0 /\ u # << >>
  <2>1. 1 \in 1..Len(v) /\ Len(u) # 0
    BY <1>3, <1>6, <1>9
  <2>2. u # << >>
    BY <1>9, <2>1, GoodIsTyped
  <2> QED BY <1>7, <1>9, <2>1, <2>2
<1>11. List!EndOf(u[Len(u)]) = List!EndOf(f)
  <2>1. CASE after = << >>
    <3>1. Len(u) = Len(v) /\ Len(v) \in 1..Len(v)
      BY <1>3, <1>6, <1>9, <2>1
    <3>2. u[Len(u)] = c[Len(c)]
      BY <1>6, <1>9, <3>1
    <3> QED BY <2>1, <3>2 DEF Stop
  <2>2. CASE after # << >>
    <3>1. Len(after) = 1 /\ 1 \in 1..Len(after)
      BY <2>2
    <3>2. u[Len(u)] = after[1]
      BY <1>9, <3>1
    <3> QED BY <2>2, <3>2
  <2> QED BY <2>1, <2>2
<1>12. Data(u) = Elems(c)
  <2>1. Elems(u) = Elems(before) \cup Elems(c) \cup Elems(after)
    BY <1>5, <1>9
  <2>2. \A x \in Elems(c) : x.kind # "filler"
    BY <1>1 DEF Elems
  <2> QED BY <2>1, <2>2 DEF Data
<1> QED BY <1>9, <1>10, <1>11, <1>12

LEMMA IntoFillerKeeps ==
  ASSUME ListInv, NEW c \in Chains, List!Apart(given \cup {c}), ~misplaced', List!IntoFiller(c)
  PROVE  ListInv'
<1> DEFINE f(k) == runs[k]
           before(k) == IF f(k).offset = List!First(c) THEN << >>
                        ELSE <<List!Filler(f(k).offset, List!First(c))>>
           after(k) == IF List!EndOf(f(k)) = List!First(c) + List!Blocks(c) THEN << >>
                       ELSE <<List!Rest(k, c)>>
           new(k) == (before(k) \o c) \o after(k)
<1>1. set' = set /\ set /\ given' = given \cup {c} /\ failed' = FALSE
  BY DEF List!IntoFiller, List!Adds
<1>2. PICK k \in 1..Len(runs) :
        /\ List!IsPlace(k, c) /\ f(k).offset <= List!First(c)
        /\ runs' = SubSeq(runs, 1, k - 1) \o new(k) \o SubSeq(runs, k + 1, Len(runs))
        /\ end' = IF end >= k THEN end + Len(new(k)) - 1 ELSE end
        /\ misplaced' = (misplaced \/ (after(k) # << >> /\ Len(c) > 1))
  BY DEF List!IntoFiller, List!EndAfter, List!Following
<1>3. /\ Good(runs) /\ Len(runs) \in Nat /\ end = Len(runs) /\ runs # << >>
      /\ runs[1].offset = 0 /\ runs[Len(runs)].kind # "filler" /\ set \in BOOLEAN
  <2>1. Good(runs) /\ Len(runs) \in Nat /\ runs # << >>
    BY GoodIsTyped DEF ListInv
  <2> QED BY <2>1 DEF ListInv
<1>4. /\ runs[k] \in List!Runs /\ runs[k].offset \in Nat /\ List!EndOf(runs[k]) \in Nat
      /\ runs[k].kind = "filler" /\ List!First(c) < List!EndOf(runs[k])
      /\ List!First(c) \in Nat /\ Stop(c) \in Nat
  <2>1. runs[k].kind = "filler" /\ List!EndOf(runs[k]) > List!First(c)
    <3>1. List!WrappedEnd(runs[k]) = List!EndOf(runs[k]) /\ List!EndOf(runs[k]) \in Nat
      BY EndsAreInWidth
    <3>2. /\ runs[k].kind = "filler" /\ runs[k].offset <= List!First(c)
          /\ runs[k].offset > List!First(c) \/ List!WrappedEnd(runs[k]) > List!First(c)
      BY <1>2 DEF List!IsPlace, List!StopsAt
    <3>3. runs[k].offset \in Nat /\ List!First(c) \in Nat
      BY <1>3, GoodIsTyped, ChainEnds
    <3> QED BY <3>1, <3>2, <3>3
  <2>2. /\ runs[k] \in List!Runs /\ runs[k].offset \in Nat /\ List!EndOf(runs[k]) \in Nat
        /\ List!First(c) \in Nat /\ Stop(c) \in Nat
    BY <1>3, GoodIsTyped, ChainEnds
  <2> QED BY <2>1, <2>2
<1>5. /\ k + 1 \in 1..Len(runs) /\ Stop(c) <= List!EndOf(runs[k])
      /\ List!First(c) + List!Blocks(c) = Stop(c)
  <2>1. /\ k + 1 \in 1..Len(runs) /\ Stop(c) <= List!EndOf(runs[k])
    BY <1>2, <1>4, FitsIntoFiller
  <2>2. List!Blocks(c) = Stop(c) - List!First(c)
    BY DEF List!Blocks, Stop, List!Last
  <2> QED BY <1>4, <2>1, <2>2
<1>6. /\ Good(before(k)) /\ \A x \in Elems(before(k)) : x.kind = "filler"
      /\ before(k) = << >> => List!First(c) = f(k).offset
      /\ before(k) # << >> => /\ Len(before(k)) = 1 /\ before(k)[1].offset = f(k).offset
                              /\ List!EndOf(before(k)[1]) = List!First(c)
  <2>1. CASE f(k).offset = List!First(c)
    BY <2>1, NoGap
  <2>2. CASE f(k).offset # List!First(c)
    <3>1. f(k).offset \in Nat /\ List!First(c) \in Nat
      BY <1>4
    <3>2. f(k).offset <= List!First(c)
      BY <1>2
    <3>3. f(k).offset < List!First(c)
      BY <2>2, <3>1, <3>2
    <3> QED BY <2>2, <3>1, <3>3, GapIsFiller
  <2> QED BY <2>1, <2>2
<1>7. /\ Good(after(k)) /\ \A x \in Elems(after(k)) : x.kind = "filler"
      /\ after(k) = << >> => Stop(c) = List!EndOf(f(k))
      /\ after(k) # << >> => /\ Len(after(k)) = 1 /\ after(k)[1].offset = Stop(c)
                             /\ List!EndOf(after(k)[1]) = List!EndOf(f(k))
  <2>1. CASE List!EndOf(f(k)) = List!First(c) + List!Blocks(c)
    BY <1>5, <2>1, NoGap
  <2>2. CASE List!EndOf(f(k)) # List!First(c) + List!Blocks(c)
    <3> DEFINE r == List!Rest(k, c)
    <3>1. Stop(c) < List!EndOf(runs[k])
      BY <1>4, <1>5, <2>2
    <3>0. Len(c) = 1
      <4>1. after(k) # << >>
        BY <2>2
      <4>2. Len(c) \in Nat \ {0}
        BY ChainsAreGood
      <4>3. ~(after(k) # << >> /\ Len(c) > 1)
        <5> HIDE DEF after, before, new
        <5>1. misplaced' = (misplaced \/ (after(k) # << >> /\ Len(c) > 1))
          BY <1>2
        <5> QED BY <5>1, Zenon
      <4> HIDE DEF after, before
      <4>4. ~(Len(c) > 1)
        BY <4>1, <4>3, Zenon
      <4> DEFINE m == Len(c)
      <4>5. m \in Nat \ {0} /\ ~(m > 1)
        BY <4>2, <4>4
      <4> HIDE DEF m
      <4>6. m = 1
        BY <4>5
      <4> QED BY <4>6 DEF m
    <3>2. /\ r \in List!Runs /\ r.len > 0 /\ r.kind = "filler" /\ r.offset = Stop(c)
          /\ List!EndOf(r) = List!EndOf(runs[k])
      BY <1>2, <1>4, <3>0, <3>1, RestIsFiller
    <3> HIDE DEF r
    <3>3. Good(<<r>>) /\ Len(<<r>>) = 1 /\ <<r>>[1] = r /\ Elems(<<r>>) = {r}
      BY <3>2, GoodOne
    <3>4. after(k) = <<r>>
      BY <2>2 DEF r
    <3>5. <<r>> # << >>
      BY <3>3, EmptySeq
    <3> QED BY <3>2, <3>3, <3>4, <3>5
  <2> QED BY <2>1, <2>2
<1> HIDE DEF before, after
<1>8. /\ Good(new(k)) /\ new(k) # << >> /\ new(k)[1].offset = runs[k].offset
      /\ List!EndOf(new(k)[Len(new(k))]) = List!EndOf(runs[k]) /\ Data(new(k)) = Elems(c)
  <2> DEFINE b == before(k)   e == after(k)   u == new(k)   g == runs[k]
  <2>1. u = (b \o c) \o e
    OBVIOUS
  <2> HIDE DEF b, e, u, g
  <2> DEFINE n == (b \o c) \o e
  <2>2. g \in List!Runs /\ g.kind = "filler" /\ Stop(c) <= List!EndOf(g) /\ g.offset <= List!First(c)
    BY <1>2, <1>4, <1>5 DEF g
  <2>3. /\ Good(b) /\ \A x \in Elems(b) : x.kind = "filler"
        /\ b = << >> => List!First(c) = g.offset
        /\ b # << >> => /\ Len(b) = 1 /\ b[1].offset = g.offset
                        /\ List!EndOf(b[1]) = List!First(c)
    BY <1>6 DEF b, g
  <2>4. /\ Good(e) /\ \A x \in Elems(e) : x.kind = "filler"
        /\ e = << >> => Stop(c) = List!EndOf(g)
        /\ e # << >> => /\ Len(e) = 1 /\ e[1].offset = Stop(c)
                        /\ List!EndOf(e[1]) = List!EndOf(g)
    BY <1>7 DEF e, g
  <2>5. /\ Good(n) /\ n # << >> /\ n[1].offset = g.offset
        /\ List!EndOf(n[Len(n)]) = List!EndOf(g) /\ Data(n) = Elems(c)
    BY <2>2, <2>3, <2>4, NewRuns
  <2> HIDE DEF n
  <2>6. u = n
    BY <2>1 DEF n
  <2> QED BY <2>5, <2>6 DEF u, g
<1> HIDE DEF new
<1>9. /\ Good(runs') /\ Len(runs') = Len(runs) + Len(new(k)) - 1
      /\ Data(runs') = Data(runs) \cup Data(new(k))
      /\ runs' # << >> /\ runs'[1].offset = runs[1].offset
      /\ runs'[Len(runs')] = runs[Len(runs)]
  <2> DEFINE u == new(k)   w == SubSeq(runs, 1, k - 1) \o u \o SubSeq(runs, k + 1, Len(runs))
  <2>1. /\ Good(runs) /\ k \in 1..Len(runs) /\ k + 1 \in 1..Len(runs)
        /\ runs[k].kind = "filler" /\ Good(u) /\ u # << >>
        /\ u[1].offset = runs[k].offset
        /\ List!EndOf(u[Len(u)]) = List!EndOf(runs[k])
    BY <1>3, <1>4, <1>5, <1>8
  <2>2. runs' = w
    BY <1>2
  <2> HIDE DEF u
  <2>3. /\ Good(w) /\ Len(w) = Len(runs) + Len(u) - 1 /\ Data(w) = Data(runs) \cup Data(u)
        /\ w # << >> /\ w[1].offset = runs[1].offset /\ w[Len(w)] = runs[Len(runs)]
    BY <2>1, Splice
  <2> HIDE DEF w
  <2> QED BY <2>2, <2>3 DEF u
<1>10. end' = Len(runs')
  <2>1. end >= k
    BY <1>3
  <2> QED BY <1>2, <1>3, <1>9, <2>1
<1>11. Data(runs') = UNION {Elems(d) : d \in given'}
  <2>1. Data(runs) = UNION {Elems(d) : d \in given}
    BY DEF ListInv
  <2> QED BY <1>1, <1>8, <1>9, <2>1
<1>12. given' \subseteq Chains
  BY <1>1 DEF ListInv
<1> QED BY <1>1, <1>3, <1>9, <1>10, <1>11, <1>12 DEF ListInv, Data, Elems

-----------------------------------------------------------------------------
(* The invariant holds *)

LEMMA ListStep == ASSUME ListInv, Ordinary', List!Next PROVE ListInv'
<1>1. CASE List!SetNoRun
  BY <1>1, SetNoRunKeeps
<1>2. ASSUME NEW c \in Chains, List!SetRun(c) PROVE ListInv'
  BY <1>2, SetRunKeeps
<1>3. ASSUME NEW c \in Chains, List!AddRun(c) PROVE ListInv'
  <2>1. given' = given \cup {c}
    BY <1>3 DEF List!AddRun, List!Adds, List!AppendAtEnd, List!FillerBehind, List!IntoFiller,
                List!InTheList, List!PastTheEnd
  <2>2. List!Apart(given \cup {c}) /\ ~misplaced'
    BY <2>1 DEF Ordinary, List!Apart
  <2>3. CASE List!AppendAtEnd(c)
    BY <2>3, AppendAtEndKeeps
  <2>4. CASE List!FillerBehind(c)
    BY <2>2, <2>4, FillerBehindKeeps
  <2>5. CASE List!IntoFiller(c)
    BY <2>2, <2>5, IntoFillerKeeps
  <2>6. CASE List!InTheList(c)
    BY <2>2, <2>6, InTheListKeeps
  <2>7. CASE List!PastTheEnd(c)
    BY <2>7, PastTheEndKeeps
  <2> QED BY <1>3, <2>3, <2>4, <2>5, <2>6, <2>7 DEF List!AddRun
<1> QED BY <1>1, <1>2, <1>3 DEF List!Next

LEMMA ListStays == ASSUME ListInv, UNCHANGED list PROVE ListInv'
<1>1. /\ set' = set /\ runs' = runs /\ end' = end /\ failed' = failed /\ given' = given
  BY DEF list
<1>2. Data(runs') = Data(runs)
  BY <1>1
<1> QED BY <1>1, <1>2, Zenon DEF ListInv

\* Whatever happens to a list, its runs stay runs: none is empty, none as long as
\* the counts can tell.
WideRuns == {x \in List!Runs : x.len \in 1..(Modulus - 1)}

ListTypes ==
  /\ set \in BOOLEAN /\ failed \in BOOLEAN /\ misplaced \in BOOLEAN
  /\ given \subseteq Chains
  /\ runs \in Seq(WideRuns) /\ end = Len(runs)
  /\ ~set => given = {}

LEMMA ChainsAreWide ==
  ASSUME NEW c \in Chains
  PROVE  c \in Seq(WideRuns) /\ List!Blocks(c) \in 1..(Modulus - 1)
<1>1. c \in Seq(List!Runs) /\ Len(c) \in Nat \ {0}
  BY ChainsAreGood DEF Good
<1>2. ASSUME NEW k \in 1..Len(c) PROVE c[k] \in WideRuns
  <2>1. /\ c[k] \in List!Runs /\ c[k].offset \in Nat /\ c[k].len \in Nat \ {0}
        /\ List!EndOf(c[k]) < Modulus
    BY ChainsAreGood, GoodIsTyped
  <2> QED BY <2>1, ModulusIsPositive DEF List!EndOf, WideRuns
<1>3. c \in Seq(WideRuns)
  BY <1>1, <1>2, LenProperties, SeqDef
<1>4. List!Blocks(c) = Stop(c) - List!First(c)
  BY DEF List!Blocks, List!Last, Stop
<1> QED BY <1>3, <1>4, ChainEnds, ModulusIsPositive

LEMMA FillersAreWide ==
  ASSUME NEW a \in Nat, NEW b \in Nat, a < b, b < Modulus
  PROVE  List!Filler(a, b) \in WideRuns
  BY ModulusIsPositive DEF List!Filler, WideRuns, List!Runs, List!RunKinds, List!NoAddr

\* What remains of a filler that a chain goes into, whatever chain.
LEMMA RestIsWide ==
  ASSUME NEW k \in 1..Len(runs), runs[k] \in WideRuns, NEW c \in Chains,
         List!StopsAt(k, c), runs[k].offset <= List!First(c),
         List!EndOf(runs[k]) # List!First(c) + List!Blocks(c)
  PROVE  List!Rest(k, c) \in WideRuns
<1> DEFINE f == runs[k]   o == f.offset   l == f.len   e == List!EndOf(f)
           a == List!First(c)   b == List!Blocks(c)   M == Modulus   r == List!Rest(k, c)
<1>1. /\ f \in List!Runs /\ o \in Nat /\ l \in 1..(M - 1) /\ M \in Nat \ {0} /\ e = o + l
  BY ModulusIsPositive DEF WideRuns, List!Runs, List!EndOf
<1>2. a \in 0..(M - 1) /\ b \in 1..(M - 1) /\ o <= a
  BY ChainEnds, ChainsAreWide, ModulusIsPositive
<1>3. e % M > a
  <2>1. f.offset > List!First(c) \/ e % M > a
    BY DEF List!StopsAt, List!WrappedEnd
  <2> QED BY <1>1, <1>2, <2>1
<1>4. e # a + b
  OBVIOUS
<1>5. r = [f EXCEPT !.len = ((l - (a - o)) - b) % M, !.offset = a + c[1].len]
  BY DEF List!Rest
<1>6. c[1].len \in Nat
  BY ChainsAreGood, GoodIsTyped
<1> HIDE DEF o, l, e, a, b, M, r
<1>7. e < M
  <2> SUFFICES ASSUME e >= M PROVE FALSE
    BY <1>1, <1>2
  <2>1. e - M \in 0..(M - 1) /\ e - M < o
    BY <1>1, <1>2
  <2>2. e % M = e - M
    BY <1>1, <2>1
  <2> QED BY <1>1, <1>2, <1>3, <2>1, <2>2
<1>8. e % M = e
  BY <1>1, <1>7
<1> DEFINE d == (l - (a - o)) - b
<1>9. d \in (-(M - 1))..(M - 1) /\ d # 0
  BY <1>1, <1>2, <1>3, <1>4, <1>7, <1>8
<1> HIDE DEF d
<1>10. d % M \in 1..(M - 1)
  <2>1. CASE d > 0
    BY <1>1, <1>9, <2>1
  <2>2. CASE d < 0
    <3>1. d % M = d + M
      BY <1>1, <1>9, <2>2
    <3> QED BY <1>1, <1>9, <2>2, <3>1
  <2> QED BY <1>9, <2>1, <2>2
<1>11. r = [f EXCEPT !.len = d % M, !.offset = a + c[1].len]
  BY <1>5 DEF d
<1>12. r \in List!Runs /\ r.len = d % M
  <2> DEFINE x == d % M   y == a + c[1].len
  <2>1. x \in Nat /\ y \in Nat
    BY <1>1, <1>2, <1>6, <1>10
  <2> HIDE DEF x, y
  <2>2. r = [f EXCEPT !.len = x, !.offset = y]
    BY <1>11 DEF x, y
  <2> HIDE DEF f
  <2> QED BY <1>1, <2>1, <2>2 DEF List!Runs, x
<1> QED BY <1>10, <1>12 DEF WideRuns, r, M

LEMMA IntoFillerIsTyped ==
  ASSUME ListTypes, NEW c \in Chains, List!IntoFiller(c) PROVE ListTypes'
<1> DEFINE before(k) == IF runs[k].offset = List!First(c) THEN << >>
                        ELSE <<List!Filler(runs[k].offset, List!First(c))>>
           after(k) == IF List!EndOf(runs[k]) = List!First(c) + List!Blocks(c) THEN << >>
                       ELSE <<List!Rest(k, c)>>
           new(k) == before(k) \o c \o after(k)
<1>1. set /\ given' = given \cup {c} /\ set' = set /\ failed' = FALSE
  BY DEF List!IntoFiller, List!Adds
<1>2. PICK k \in 1..Len(runs) :
        /\ List!IsPlace(k, c) /\ runs[k].offset <= List!First(c)
        /\ runs' = SubSeq(runs, 1, k - 1) \o new(k) \o SubSeq(runs, k + 1, Len(runs))
        /\ end' = List!EndAfter(k, new(k))
        /\ misplaced' = (misplaced \/ (after(k) # << >> /\ Len(c) > 1))
  BY DEF List!IntoFiller, List!Following
<1>3. runs \in Seq(WideRuns) /\ Len(runs) \in Nat /\ end = Len(runs) /\ runs[k] \in WideRuns
  BY LenProperties, ElementOfSeq DEF ListTypes
<1>4. before(k) \in Seq(WideRuns)
  <2>1. CASE runs[k].offset = List!First(c)
    BY <2>1, EmptySeq
  <2>2. CASE runs[k].offset # List!First(c)
    <3>1. runs[k].offset \in Nat
      BY <1>3 DEF WideRuns, List!Runs
    <3>2. /\ List!First(c) \in Nat /\ List!First(c) < Modulus
          /\ runs[k].offset < List!First(c)
      BY <1>2, <2>2, <3>1, ChainEnds, ModulusIsPositive
    <3>3. List!Filler(runs[k].offset, List!First(c)) \in WideRuns
      BY <3>1, <3>2, FillersAreWide
    <3> QED BY <2>2, <3>3
  <2> QED BY <2>1, <2>2
<1>5. after(k) \in Seq(WideRuns)
  <2>1. CASE List!EndOf(runs[k]) = List!First(c) + List!Blocks(c)
    BY <2>1, EmptySeq
  <2>2. CASE List!EndOf(runs[k]) # List!First(c) + List!Blocks(c)
    <3>1. List!StopsAt(k, c)
      BY <1>2 DEF List!IsPlace
    <3>2. List!Rest(k, c) \in WideRuns
      BY <1>2, <1>3, <2>2, <3>1, RestIsWide
    <3> QED BY <2>2, <3>2
  <2> QED BY <2>1, <2>2
<1> HIDE DEF before, after
<1>6. new(k) \in Seq(WideRuns) /\ Len(new(k)) \in Nat
  BY <1>4, <1>5, ChainsAreWide, ConcatProperties, LenProperties
<1> HIDE DEF new
<1> DEFINE s == SubSeq(runs, 1, k - 1)   t == SubSeq(runs, k + 1, Len(runs))
<1>7. /\ s \in Seq(WideRuns) /\ Len(s) = k - 1
      /\ t \in Seq(WideRuns) /\ Len(t) = Len(runs) - k
  BY <1>3
<1>8. runs' = (s \o new(k)) \o t
  BY <1>2
<1> HIDE DEF s, t
<1>9. runs' \in Seq(WideRuns) /\ Len(runs') = Len(runs) + Len(new(k)) - 1
  <2>1. s \o new(k) \in Seq(WideRuns) /\ Len(s \o new(k)) = Len(s) + Len(new(k))
    BY <1>6, <1>7, ConcatProperties
  <2> DEFINE u == s \o new(k)
  <2> HIDE DEF u
  <2>2. u \in Seq(WideRuns) /\ Len(u) = Len(s) + Len(new(k)) /\ runs' = u \o t
    BY <1>8, <2>1 DEF u
  <2>3. u \o t \in Seq(WideRuns) /\ Len(u \o t) = Len(u) + Len(t)
    BY <1>7, <2>2, ConcatProperties
  <2> QED BY <1>3, <1>6, <1>7, <2>2, <2>3
<1>10. end' = Len(runs')
  <2>1. end >= k
    BY <1>3
  <2>2. end' = end + Len(new(k)) - 1
    BY <1>2, <2>1 DEF List!EndAfter
  <2> QED BY <1>3, <1>9, <2>2
<1>11. misplaced' \in BOOLEAN
  BY <1>2
<1> QED BY <1>1, <1>9, <1>10, <1>11 DEF ListTypes

LEMMA AddRunIsTyped ==
  ASSUME ListTypes, NEW c \in Chains, List!AddRun(c) PROVE ListTypes'
<1>1. c \in Seq(WideRuns) /\ runs \in Seq(WideRuns) /\ Len(runs) \in Nat /\ end = Len(runs)
  BY ChainsAreWide, LenProperties DEF ListTypes
<1>2. CASE List!AppendAtEnd(c)
  <2>1. SubSeq(runs, 1, end) \in Seq(WideRuns)
    BY <1>1
  <2>2. SubSeq(runs, 1, end) \o c \in Seq(WideRuns)
    BY <1>1, <2>1, ConcatProperties
  <2> QED BY <1>2, <2>2 DEF List!AppendAtEnd, List!Adds, ListTypes
<1>3. CASE List!FillerBehind(c)
  BY <1>3 DEF List!FillerBehind, List!Adds, ListTypes
<1>4. CASE List!IntoFiller(c)
  BY <1>4, IntoFillerIsTyped
<1>5. CASE List!InTheList(c)
  BY <1>5 DEF List!InTheList, List!Adds, ListTypes
<1>6. CASE List!PastTheEnd(c)
  <2> DEFINE gap == IF List!Behind = List!First(c) THEN << >>
                    ELSE <<List!Filler(List!Behind, List!First(c))>>
  <2>1. /\ List!Behind <= List!First(c) /\ runs' = (runs \o gap) \o c /\ end' = Len(runs')
        /\ set /\ set' = set /\ given' = given \cup {c} /\ failed' = FALSE
        /\ misplaced' = misplaced
    BY <1>6 DEF List!PastTheEnd, List!Adds
  <2>2. List!First(c) \in Nat /\ List!First(c) < Modulus
    BY ChainEnds, ModulusIsPositive
  <2>3. List!Behind \in Nat
    <3>1. CASE runs = << >>
      BY <3>1 DEF List!Behind
    <3>2. CASE runs # << >>
      <4>1. List!Behind = List!EndOf(runs[Len(runs)]) % Modulus
        BY <3>2 DEF List!Behind, List!WrappedEnd, List!Last
      <4>2. Len(runs) \in 1..Len(runs)
        BY <1>1, <3>2, EmptySeq
      <4>3. runs[Len(runs)] \in WideRuns
        BY <1>1, <4>2, ElementOfSeq
      <4>4. List!EndOf(runs[Len(runs)]) \in Nat
        BY <4>3 DEF WideRuns, List!Runs, List!EndOf
      <4> HIDE DEF List!EndOf
      <4> QED BY <4>1, <4>4, ModulusIsPositive
    <3> QED BY <3>1, <3>2
  <2>4. gap \in Seq(WideRuns)
    <3>1. CASE List!Behind = List!First(c)
      BY <3>1, EmptySeq
    <3>2. CASE List!Behind # List!First(c)
      <4>1. List!Behind < List!First(c)
        BY <2>1, <2>2, <2>3, <3>2
      <4>2. List!Filler(List!Behind, List!First(c)) \in WideRuns
        BY <2>2, <2>3, <4>1, FillersAreWide
      <4> QED BY <3>2, <4>2
    <3> QED BY <3>1, <3>2
  <2> HIDE DEF gap
  <2>5. (runs \o gap) \o c \in Seq(WideRuns)
    BY <1>1, <2>4, ConcatProperties
  <2> QED BY <2>1, <2>5 DEF ListTypes
<1> QED BY <1>2, <1>3, <1>4, <1>5, <1>6 DEF List!AddRun

LEMMA SetRunIsTyped ==
  ASSUME ListTypes, NEW c \in Chains, List!SetRun(c) PROVE ListTypes'
<1>1. /\ runs' = IF List!First(c) = 0 THEN c ELSE <<List!Filler(0, List!First(c))>> \o c
      /\ end' = Len(runs') /\ set' = TRUE /\ failed' = FALSE /\ given' = {c}
      /\ misplaced' = misplaced
  BY DEF List!SetRun
<1>2. runs' \in Seq(WideRuns)
  <2>1. CASE List!First(c) = 0
    BY <1>1, <2>1, ChainsAreWide
  <2>2. CASE List!First(c) # 0
    <3>1. List!First(c) \in Nat /\ 0 < List!First(c) /\ List!First(c) < Modulus
      BY <2>2, ChainEnds, ModulusIsPositive
    <3>2. <<List!Filler(0, List!First(c))>> \in Seq(WideRuns)
      BY <3>1, FillersAreWide
    <3> QED BY <1>1, <2>2, <3>2, ChainsAreWide, ConcatProperties
  <2> QED BY <2>1, <2>2
<1> QED BY <1>1, <1>2 DEF ListTypes

LEMMA ListStepIsTyped == ASSUME ListTypes, List!Next PROVE ListTypes'
<1>1. CASE List!SetNoRun
  BY <1>1, EmptySeq DEF List!SetNoRun, ListTypes
<1>2. ASSUME NEW c \in Chains, List!SetRun(c) PROVE ListTypes'
  BY <1>2, SetRunIsTyped
<1>3. ASSUME NEW c \in Chains, List!AddRun(c) PROVE ListTypes'
  BY <1>3, AddRunIsTyped
<1> QED BY <1>1, <1>2, <1>3 DEF List!Next

LEMMA ListTypesStay == ASSUME ListTypes, UNCHANGED list PROVE ListTypes'
  BY DEF ListTypes, list

\* What the parser does to the list, or nothing.
LEMMA OtherSteps == ASSUME [PathNext]_pathVars PROVE List!Next \/ UNCHANGED list
  BY DEF PathNext, Parse, OpenAny, Open, Ask, Read, Walk, pathVars, list

\* A list that is ordinary has been so all the time.
LEMMA OrdinaryBefore ==
  ASSUME ListTypes, [PathNext]_pathVars, Ordinary' PROVE Ordinary
<1>1. List!Apart(given') /\ ~misplaced'
  BY DEF Ordinary, List!Apart
<1>2. given \subseteq given' /\ (~misplaced' => ~misplaced)
  <2>1. CASE UNCHANGED list
    BY <2>1 DEF list
  <2>2. CASE List!SetNoRun
    BY <2>2 DEF List!SetNoRun, ListTypes
  <2>3. ASSUME NEW c \in Chains, List!SetRun(c)
        PROVE  given \subseteq given' /\ (~misplaced' => ~misplaced)
    BY <2>3 DEF List!SetRun, ListTypes
  <2>4. ASSUME NEW c \in Chains, List!AddRun(c)
        PROVE  given \subseteq given' /\ (~misplaced' => ~misplaced)
    <3>1. given' = given \cup {c}
      BY <2>4 DEF List!AddRun, List!Adds, List!AppendAtEnd, List!FillerBehind, List!IntoFiller,
                  List!InTheList, List!PastTheEnd
    <3>2. ~misplaced' => ~misplaced
      BY <2>4, Zenon DEF List!AddRun, List!AppendAtEnd, List!FillerBehind, List!IntoFiller,
                         List!InTheList, List!PastTheEnd
    <3> QED BY <3>1, <3>2
  <2> QED BY <2>1, <2>2, <2>3, <2>4, OtherSteps DEF List!Next
<1> QED BY <1>1, <1>2 DEF Ordinary, List!Apart

ListIsSound == Ordinary => ListInv

LEMMA ListTypesHold == PathSpec => []ListTypes
<1>1. PathInit => ListTypes
  BY EmptySeq DEF PathInit, List!Init, ListTypes
<1>2. ListTypes /\ [PathNext]_pathVars => ListTypes'
  BY OtherSteps, ListStepIsTyped, ListTypesStay
<1> QED BY <1>1, <1>2, PTL DEF PathSpec

LEMMA ListInvHolds == PathSpec => []ListIsSound
<1>1. PathInit => ListIsSound
  <2> SUFFICES ASSUME PathInit PROVE ListInv
    BY DEF ListIsSound
  <2>1. set = FALSE /\ runs = << >> /\ end = 0 /\ failed = FALSE /\ given = {}
    BY DEF PathInit, List!Init
  <2>2. Good(<< >>) /\ Elems(<< >>) = {} /\ Len(<< >>) = 0
    BY GoodNone, EmptySeq
  <2>3. Good(runs) /\ Data(runs) = {} /\ end = Len(runs)
    BY <2>1, <2>2 DEF Data
  <2>4. UNION {Elems(c) : c \in given} = {}
    BY <2>1
  <2> QED BY <2>1, <2>3, <2>4 DEF ListInv
<1>2. ListTypes /\ ListIsSound /\ [PathNext]_pathVars => ListIsSound'
  <2> SUFFICES ASSUME ListTypes, ListIsSound, [PathNext]_pathVars, Ordinary' PROVE ListInv'
    BY DEF ListIsSound
  <2>1. ListInv
    BY OrdinaryBefore DEF ListIsSound
  <2> QED BY <2>1, OtherSteps, ListStep, ListStays
<1> QED BY <1>1, <1>2, ListTypesHold, PTL DEF PathSpec

-----------------------------------------------------------------------------
(* The theorems *)

\* The list of an ordinary file covers it from block 0 on without gap or
\* overlap, whatever the order and the repetitions in which tsk_fs_attr_set_run
\* and tsk_fs_attr_add_run are given its chains, of however many runs each.
THEOREM NoGapNoOverlap == PathSpec => []ListIsContiguous
<1>1. ListIsSound => ListIsContiguous
  BY DEF ListIsSound, ListInv, ListIsContiguous, List!ListIsContiguous, List!Joined, Good, Follows
<1>2. PathSpec => []ListIsSound
  BY ListInvHolds
<1> QED BY <1>1, <1>2, PTL

\* What a chain or a list tells of a file, run by run.
PlacesOf(x) ==
  {[block |-> x.offset + n, addr |-> IF x.kind = "sparse" THEN List!Sparse ELSE x.addr + n] :
     n \in 0..(x.len - 1)}

LEMMA PlacesAreData == ASSUME NEW s PROVE List!Places(s) = UNION {PlacesOf(x) : x \in Data(s)}
<1>1. ASSUME NEW p \in List!Places(s) PROVE p \in UNION {PlacesOf(x) : x \in Data(s)}
  <2>1. PICK i \in {j \in 1..Len(s) : s[j].kind # "filler"} : p \in PlacesOf(s[i])
    BY <1>1 DEF List!Places, PlacesOf
  <2>2. s[i] \in Data(s)
    BY DEF Data, Elems
  <2> QED BY <2>1, <2>2
<1>2. ASSUME NEW x \in Data(s), NEW p \in PlacesOf(x) PROVE p \in List!Places(s)
  <2>1. PICK i \in 1..Len(s) : x = s[i]
    BY DEF Data, Elems
  <2>2. i \in {j \in 1..Len(s) : s[j].kind # "filler"}
    BY <2>1 DEF Data
  <2>3. p \in PlacesOf(s[i])
    BY <2>1
  <2> QED BY <2>2, <2>3 DEF List!Places, PlacesOf
<1> QED BY <1>1, <1>2

\* The list holds the blocks of the chains that were given.
LEMMA GivenPlaces ==
  ASSUME ListInv
  PROVE  UNION {List!Places(c) : c \in given} = UNION {PlacesOf(x) : x \in Data(runs)}
<1>1. List!Places(runs) = UNION {PlacesOf(x) : x \in Data(runs)}
  BY PlacesAreData
<1>2. ASSUME NEW c \in given PROVE Data(c) = Elems(c)
  <2>1. c \in Chains
    BY DEF ListInv
  <2> QED BY <2>1, ChainsAreGood DEF Data, Elems
<1>3. \A c \in given : List!Places(c) = UNION {PlacesOf(x) : x \in Elems(c)}
  BY <1>2, PlacesAreData
<1>4. Data(runs) = UNION {Elems(c) : c \in given}
  BY DEF ListInv
<1> QED BY <1>1, <1>3, <1>4

\* Nothing that was added to an ordinary file is lost, moved or invented:
\* outside of its fillers the list holds the blocks of the chains that the calls
\* were given, and what a call refuses is in the list already.
THEOREM HoldsWhatWasGiven == PathSpec => []ListHoldsWhatWasGiven
<1>1. ListIsSound => ListHoldsWhatWasGiven
  <2> SUFFICES ASSUME ListInv PROVE List!Places(runs) = UNION {List!Places(c) : c \in given}
    BY DEF ListIsSound, ListHoldsWhatWasGiven, List!ListHoldsWhatWasGiven
  <2>1. List!Places(runs) = UNION {PlacesOf(x) : x \in Data(runs)}
    BY PlacesAreData
  <2> QED BY <2>1, GivenPlaces
<1>2. PathSpec => []ListIsSound
  BY ListInvHolds
<1> QED BY <1>1, <1>2, PTL

-----------------------------------------------------------------------------
(* Blocks and bytes *)

LEMMA BlockSizeIsPositive == BlockSize \in Nat \ {0}
  BY ReadAssumption

LEMMA DivideByBlock ==
  ASSUME NEW x \in Nat
  PROVE  /\ x \div BlockSize \in Nat /\ x % BlockSize \in 0..(BlockSize - 1)
         /\ x = ((x \div BlockSize) * BlockSize) + (x % BlockSize)
  BY BlockSizeIsPositive

LEMMA BlocksInOrder ==
  ASSUME NEW a \in Nat, NEW b \in Nat
  PROVE  /\ a * BlockSize \in Nat
         /\ a <= b => a * BlockSize <= b * BlockSize
         /\ a < b => (a * BlockSize) + BlockSize <= b * BlockSize
         /\ (a + b) * BlockSize = (a * BlockSize) + (b * BlockSize)
  BY BlockSizeIsPositive

\* The block of a byte.
LEMMA BlockOfByte ==
  ASSUME NEW p \in Nat, NEW a \in Nat, NEW b \in Nat,
         a * BlockSize <= p, p < b * BlockSize
  PROVE  a <= p \div BlockSize /\ p \div BlockSize < b
<1> DEFINE q == p \div BlockSize   m == p % BlockSize
<1>1. q \in Nat /\ m \in 0..(BlockSize - 1) /\ p = (q * BlockSize) + m
  BY DivideByBlock
<1> HIDE DEF q, m
<1>2. BlockSize \in Nat \ {0}
  BY BlockSizeIsPositive
<1>3. q < a => (q * BlockSize) + BlockSize <= a * BlockSize
  BY <1>1, BlocksInOrder
<1>4. b <= q => b * BlockSize <= q * BlockSize
  BY <1>1, BlocksInOrder
<1>5. a * BlockSize \in Nat /\ b * BlockSize \in Nat /\ q * BlockSize \in Nat
  BY <1>1, BlocksInOrder
<1> DEFINE A == a * BlockSize   B == b * BlockSize   Q == q * BlockSize
<1> HIDE DEF A, B, Q
<1>6. A <= p /\ p < B /\ p = Q + m /\ A \in Nat /\ B \in Nat /\ Q \in Nat
      /\ (q < a => Q + BlockSize <= A) /\ (b <= q => B <= Q)
  BY <1>1, <1>3, <1>4, <1>5 DEF A, B, Q
<1>7. ~(q < a) /\ ~(b <= q)
  BY <1>1, <1>2, <1>6
<1> QED BY <1>1, <1>7 DEF q

-----------------------------------------------------------------------------
(* What the disk holds of a file, as a property of the chains given *)

DiskByte(G, p, b) ==
  LET here == {g \in UNION {List!Places(c) : c \in G} : g.block = p \div BlockSize} IN
  IF here = {} THEN b = Zero
  ELSE \E g \in here :
         b = IF g.addr = List!Sparse THEN Zero ELSE (g.addr * BlockSize) + (p % BlockSize)

\* The byte of attribute a, read with or without slack.
FileByte(a, s, G, p, b) ==
  IF a.resident THEN b = p
  ELSE IF ~s /\ p >= a.initSize THEN b = Zero
  ELSE DiskByte(G, p, b)

LEMMA SameBytes ==
  ASSUME NEW p, NEW b
  PROVE  /\ IsDiskByte(p, b) <=> DiskByte(given, p, b)
         /\ attr.resident \in BOOLEAN =>
              (IsByte(p, b) <=> FileByte(attr, slack, given, p, b))
<1>1. IsDiskByte(p, b) <=> DiskByte(given, p, b)
  BY DEF IsDiskByte, DiskByte
<1> QED BY <1>1 DEF IsByte, FileByte, PastInitSize

\* The byte at p of the run at i of the list.
RunByte(r, p) ==
  IF r.kind = "data" THEN (r.addr * BlockSize) + (p - (r.offset * BlockSize)) ELSE Zero

LEMMA PlacesInRun ==
  ASSUME NEW x \in List!Runs, NEW g \in PlacesOf(x)
  PROVE  x.offset <= g.block /\ g.block < List!EndOf(x)
<1>1. PICK n \in 0..(x.len - 1) :
        g = [block |-> x.offset + n,
             addr |-> IF x.kind = "sparse" THEN List!Sparse ELSE x.addr + n]
  BY DEF PlacesOf
<1>2. g.block = x.offset + n
  BY <1>1
<1>3. x.offset \in Nat /\ x.len \in Nat
  BY DEF List!Runs
<1> QED BY <1>2, <1>3 DEF List!EndOf

\* Two runs of a list do not share a block.
LEMMA BlockHasOneRun ==
  ASSUME NEW s, Good(s), NEW i \in 1..Len(s), NEW j \in 1..Len(s), NEW q \in Nat,
         s[i].offset <= q, q < List!EndOf(s[i]), s[j].offset <= q, q < List!EndOf(s[j])
  PROVE  i = j
<1>1. Len(s) \in Nat
  BY GoodIsTyped
<1>2. /\ s[i].offset \in Nat /\ List!EndOf(s[i]) \in Nat
      /\ s[j].offset \in Nat /\ List!EndOf(s[j]) \in Nat
  BY GoodIsTyped
<1>3. ~(i < j)
  <2> SUFFICES ASSUME i < j PROVE FALSE
    OBVIOUS
  <2>1. List!EndOf(s[i]) <= s[j].offset
    BY GoodIsInOrder
  <2> QED BY <1>2, <2>1
<1>4. ~(j < i)
  <2> SUFFICES ASSUME j < i PROVE FALSE
    OBVIOUS
  <2>1. List!EndOf(s[j]) <= s[i].offset
    BY GoodIsInOrder
  <2> QED BY <1>2, <2>1
<1> QED BY <1>1, <1>3, <1>4

LEMMA Within ==
  ASSUME NEW a \in Nat, NEW o \in Nat, NEW b \in Nat, o <= a, a < o + b
  PROVE  a - o \in 0..(b - 1) /\ o + (a - o) = a
OBVIOUS

LEMMA ByteOfList ==
  ASSUME ListInv, NEW i \in 1..Len(runs), NEW p \in Nat,
         runs[i].offset * BlockSize <= p, p < List!EndOf(runs[i]) * BlockSize
  PROVE  DiskByte(given, p, RunByte(runs[i], p))
<1> DEFINE r == runs[i]   q == p \div BlockSize   m == p % BlockSize
           here == {g \in UNION {List!Places(c) : c \in given} : g.block = p \div BlockSize}
<1>1. Good(runs) /\ Len(runs) \in Nat
  BY GoodIsTyped DEF ListInv
<1>2. /\ r \in List!Runs /\ r.offset \in Nat /\ r.len \in Nat \ {0} /\ r.addr \in Nat
      /\ List!EndOf(r) \in Nat /\ r.kind \in List!RunKinds
  <2>1. r \in List!Runs /\ r.offset \in Nat /\ r.len \in Nat \ {0} /\ List!EndOf(r) \in Nat
    BY <1>1, GoodIsTyped
  <2> QED BY <2>1 DEF List!Runs
<1>3. q \in Nat /\ m \in 0..(BlockSize - 1) /\ p = (q * BlockSize) + m
  BY DivideByBlock
<1>4. r.offset <= q /\ q < List!EndOf(r)
  BY <1>2, BlockOfByte
<1>5. here = {g \in UNION {PlacesOf(x) : x \in Data(runs)} : g.block = q}
  BY GivenPlaces
<1> HIDE DEF r, q, m, here
<1>6. r = runs[i]
  BY DEF r
<1> DEFINE n == q - r.offset
           g == [block |-> r.offset + n,
                 addr |-> IF r.kind = "sparse" THEN List!Sparse ELSE r.addr + n]
<1>7. n \in 0..(r.len - 1) /\ r.offset + n = q
  <2>1. q < r.offset + r.len
    BY <1>4 DEF List!EndOf
  <2>2. r.offset \in Nat /\ r.len \in Nat /\ q \in Nat /\ r.offset <= q
    BY <1>2, <1>3, <1>4
  <2> HIDE DEF g
  <2> QED BY <2>1, <2>2, Within, Zenon
<1>8. g \in PlacesOf(r) /\ g.block = q
  BY <1>7 DEF PlacesOf
<1>9. r.kind # "filler" => g \in here
  <2> SUFFICES ASSUME r.kind # "filler" PROVE g \in here
    OBVIOUS
  <2>1. r \in Data(runs)
    BY <1>6 DEF Data, Elems
  <2> QED BY <1>5, <1>8, <2>1
<1>10. r.kind = "filler" => here = {}
  <2> SUFFICES ASSUME r.kind = "filler", NEW h \in here PROVE FALSE
    OBVIOUS
  <2>1. PICK x \in Data(runs) : h \in PlacesOf(x)
    BY <1>5
  <2>2. h.block = q
    BY <1>5
  <2>3. PICK j \in 1..Len(runs) : x = runs[j]
    BY DEF Data, Elems
  <2>4. x \in List!Runs
    BY <1>1, <2>3, GoodIsTyped
  <2>5. x.offset <= q /\ q < List!EndOf(x)
    BY <2>1, <2>2, <2>4, PlacesInRun
  <2>6. i = j
    BY <1>1, <1>3, <1>4, <1>6, <2>3, <2>5, BlockHasOneRun
  <2>7. x.kind # "filler"
    BY DEF Data
  <2> QED BY <1>6, <2>3, <2>6, <2>7
<1>11. CASE r.kind = "data"
  <2>1. g.addr = r.addr + n /\ g.addr # List!Sparse
    BY <1>2, <1>7, <1>11 DEF List!Sparse
  <2>2. RunByte(r, p) = (g.addr * BlockSize) + m
    <3> DEFINE a == r.addr
    <3>1. a \in Nat /\ n \in Nat /\ r.offset \in Nat
      BY <1>2, <1>7
    <3> HIDE DEF n
    <3>2. (a + n) * BlockSize = (a * BlockSize) + (n * BlockSize)
      BY <3>1, BlocksInOrder
    <3>3. (r.offset + n) * BlockSize = (r.offset * BlockSize) + (n * BlockSize)
      BY <3>1, BlocksInOrder
    <3>4. p = (r.offset * BlockSize) + (n * BlockSize) + m
      BY <1>3, <1>7, <3>3
    <3>5. a * BlockSize \in Nat /\ n * BlockSize \in Nat /\ r.offset * BlockSize \in Nat
      BY <3>1, BlocksInOrder
    <3>6. RunByte(r, p) = (a * BlockSize) + (p - (r.offset * BlockSize))
      BY <1>11 DEF RunByte
    <3> QED BY <1>3, <2>1, <3>2, <3>4, <3>5, <3>6
  <2>3. g \in here
    BY <1>9, <1>11
  <2> HIDE DEF g
  <2>4. \E h \in here : RunByte(r, p) = IF h.addr = List!Sparse THEN Zero ELSE (h.addr * BlockSize) + m
    BY <2>1, <2>2, <2>3
  <2> QED BY <1>6, <2>3, <2>4 DEF DiskByte, here, m
<1>12. CASE r.kind = "sparse"
  <2>1. g.addr = List!Sparse /\ g \in here
    BY <1>9, <1>12
  <2>2. RunByte(r, p) = Zero
    BY <1>12 DEF RunByte
  <2> HIDE DEF g
  <2>3. \E h \in here : RunByte(r, p) = IF h.addr = List!Sparse THEN Zero ELSE (h.addr * BlockSize) + m
    BY <2>1, <2>2
  <2> QED BY <1>6, <2>1, <2>3 DEF DiskByte, here, m
<1>13. CASE r.kind = "filler"
  <2>1. RunByte(r, p) = Zero /\ here = {}
    BY <1>10, <1>13 DEF RunByte
  <2> QED BY <1>6, <2>1 DEF DiskByte, here
<1> QED BY <1>2, <1>11, <1>12, <1>13 DEF List!RunKinds

-----------------------------------------------------------------------------
(* Types of a read and a walk *)

\* The attribute is a resident one, or has the runs of the list.
AttrInv ==
  /\ attr.resident \in BOOLEAN /\ attr.size \in Nat /\ attr.allocSize \in Nat
  /\ attr.initSize \in Nat /\ attr.skip \in Nat /\ attr.size <= attr.allocSize
  /\ pc # "parse" => attr.resident \/ attr.runs = runs

CallInv ==
  /\ pc \in {"parse", "open", "start", "runs", "done", "walk", "walked"}
  /\ off \in Nat /\ len \in Nat /\ slack \in BOOLEAN /\ noSparse \in BOOLEAN
  /\ ReadTypeOK
  /\ result \in IF pc = "walked" THEN {0, 1} ELSE -1..len
  /\ idx \in Nat /\ at \in 0..End /\ skipRemain \in 0..attr.skip
  /\ pc \in {"parse", "open", "start"} => want = 0 /\ remain = 0 /\ result = 0
  /\ pc \notin {"walk", "walked"} => at = 0 /\ skipRemain = 0 /\ chunks = << >>

LEMMA EndIsNat == ASSUME AttrInv, slack \in BOOLEAN PROVE End \in Nat
  BY DEF AttrInv, End

\* What is read of a run that reaches past the block asked for.
LEMMA RunPart ==
  ASSUME NEW r \in List!Runs, r.len > 0, off \in Nat, byteOff \in 0..(BlockSize - 1),
         remain \in Nat \ {0}, ~Before(r)
  PROVE  /\ Block < List!EndOf(r) /\ LenInRun(r) \in 1..remain
         /\ FileOffset(r) \in Nat /\ r.offset * BlockSize <= FileOffset(r)
         /\ FileOffset(r) + LenInRun(r) <= List!EndOf(r) * BlockSize
         /\ LenInRun(r) = remain \/ FileOffset(r) + LenInRun(r) = List!EndOf(r) * BlockSize
         /\ Address(r) \in Nat
         /\ Address(r) = (r.addr * BlockSize) + (FileOffset(r) - (r.offset * BlockSize))
<1> DEFINE o == r.offset   l == r.len   a == r.addr   b == BlockInRun(r)   B == BlockSize
<1>1. B \in Nat \ {0} /\ o \in Nat /\ l \in Nat \ {0} /\ a \in Nat /\ Block \in Nat
  BY BlockSizeIsPositive, DivideByBlock DEF List!Runs, Block
<1>2. Block < o + l /\ b = IF o < Block THEN Block - o ELSE 0
  BY <1>1 DEF Before, BlockInRun
<1> HIDE DEF o, l, a, b, B
<1>3. b \in 0..(l - 1)
  BY <1>1, <1>2
<1>4. /\ (o + b) * B = (o * B) + (b * B) /\ (a + b) * B = (a * B) + (b * B)
      /\ (o + l) * B = (o * B) + (l * B)
      /\ o * B \in Nat /\ b * B \in Nat /\ a * B \in Nat /\ l * B \in Nat
  BY <1>1, <1>3, BlocksInOrder DEF B
<1>5. (b * B) + B <= l * B
  BY <1>1, <1>3, BlocksInOrder DEF B
<1>6. l * B = ((l - b) * B) + (b * B)
  <2>1. l - b \in Nat /\ l = (l - b) + b
    BY <1>1, <1>3
  <2>2. ((l - b) + b) * B = ((l - b) * B) + (b * B)
    BY <1>3, <2>1, BlocksInOrder DEF B
  <2> QED BY <2>1, <2>2
<1>7. (l - b) * B \in Nat
  <2>1. l - b \in Nat
    BY <1>1, <1>3
  <2> QED BY <2>1, BlocksInOrder DEF B
<1> DEFINE oB == o * B   bB == b * B   aB == a * B   lB == l * B   dB == (l - b) * B
<1>8. /\ FileOffset(r) = oB + bB + byteOff /\ Address(r) = aB + bB + byteOff
      /\ List!EndOf(r) * BlockSize = oB + lB /\ List!EndOf(r) = o + l
      /\ LenInRun(r) = Least(dB - byteOff, remain)
      /\ r.addr * BlockSize = aB /\ r.offset * BlockSize = oB
  BY <1>4 DEF FileOffset, Address, List!EndOf, LenInRun, o, a, b, l, B
<1>9. /\ oB \in Nat /\ bB \in Nat /\ aB \in Nat /\ lB \in Nat /\ dB \in Nat
      /\ bB + B <= lB /\ lB = dB + bB
  BY <1>4, <1>5, <1>6, <1>7
<1> HIDE DEF oB, bB, aB, lB, dB
<1>10. byteOff \in 0..(B - 1)
  BY DEF B
<1>11. /\ LenInRun(r) \in 1..remain /\ LenInRun(r) <= dB - byteOff
       /\ LenInRun(r) = remain \/ LenInRun(r) = dB - byteOff
  BY <1>1, <1>8, <1>9, <1>10 DEF Least
<1> QED BY <1>1, <1>2, <1>8, <1>9, <1>10, <1>11

\* The run that a read looks at is one of the list.
LEMMA CurIsRun ==
  ASSUME ListInv, AttrInv, CallInv, InRuns, ~attr.resident
  PROVE  /\ Cur = runs[run] /\ run \in 1..Len(runs) /\ Cur \in List!Runs /\ Cur.len > 0
         /\ attr.runs = runs /\ remain \in Nat \ {0} /\ Len(runs) \in Nat
<1>1. pc = "runs" /\ remain > 0 /\ run <= Len(attr.runs)
  BY DEF InRuns
<1>2. attr.runs = runs
  BY <1>1 DEF AttrInv
<1>3. run \in Nat \ {0} /\ remain \in Nat
  BY DEF CallInv, ReadTypeOK
<1>4. Good(runs) /\ Len(runs) \in Nat
  BY GoodIsTyped DEF ListInv
<1>5. run \in 1..Len(runs)
  BY <1>1, <1>2, <1>3, <1>4
<1>6. runs[run] \in List!Runs /\ runs[run].len \in Nat \ {0}
  BY <1>4, <1>5, GoodIsTyped
<1> QED BY <1>1, <1>2, <1>3, <1>4, <1>5, <1>6 DEF Cur

-----------------------------------------------------------------------------
(* The invariant of reads and walks *)

\* No byte of the runs has been read, or the read is at the end of a run.
Fresh ==
  /\ byteOff = off % BlockSize /\ remain = want
  /\ run > 1 => List!EndOf(runs[run - 1]) <= Block
Inside ==
  /\ byteOff = 0 /\ run > 1 /\ Block < List!EndOf(runs[run - 1])
  /\ off + want - remain = List!EndOf(runs[run - 1]) * BlockSize

RunsInv ==
  pc = "runs" =>
    /\ ~attr.resident /\ off < End /\ want = Least(len, End - off)
    /\ run \in 1..(Len(runs) + 1)
    /\ remain < want => off + want - remain <= Covered
    /\ remain > 0 => Fresh \/ Inside
    /\ \A p \in 1..(want - remain) : FileByte(attr, slack, given, off + p - 1, buf[p])

ChunkType == [off : Nat, bytes : Seq(Int)]
EndOfChunks(cs) == IF cs = << >> THEN 0 ELSE cs[Len(cs)].off + Len(cs[Len(cs)].bytes)

\* The block that the walk is at is where it is in the attribute, with the
\* bytes that it has skipped.
WalkInv ==
  /\ chunks \in Seq(ChunkType)
  /\ pc = "walk" =>
       /\ result = 0
       /\ EndOfChunks(chunks) <= at /\ (noSparse \/ EndOfChunks(chunks) = at)
       /\ ~attr.resident =>
            /\ run \in 1..(Len(runs) + 1)
            /\ skipRemain > 0 => at = 0
            /\ run <= Len(runs) =>
                 /\ idx < runs[run].len
                 /\ (runs[run].offset + idx) * BlockSize = at + attr.skip - skipRemain

PathInv ==
  /\ AttrInv /\ CallInv /\ RunsInv /\ WalkInv
  /\ ReadsWhatWasGiven /\ ReadsAreFull /\ WalkGivesTheFile

LEMMA EndsGrow ==
  ASSUME ListInv, NEW i \in 1..Len(runs)
  PROVE  List!EndOf(runs[i]) * BlockSize <= Covered /\ Covered \in Nat
<1>1. Good(runs) /\ Len(runs) \in Nat /\ runs # << >> /\ Len(runs) \in 1..Len(runs)
  BY GoodIsTyped DEF ListInv
<1> DEFINE e == List!EndOf(runs[i])   f == List!EndOf(runs[Len(runs)])
<1>2. e \in Nat /\ f \in Nat /\ f > runs[Len(runs)].offset /\ runs[Len(runs)].offset \in Nat
  BY <1>1, GoodIsTyped
<1>3. Covered = f * BlockSize
  BY <1>1 DEF Covered
<1>4. i < Len(runs) => e <= runs[Len(runs)].offset
  BY <1>1, GoodIsInOrder
<1>5. e <= f
  <2>1. CASE i = Len(runs)
    BY <1>2, <2>1
  <2>2. CASE i < Len(runs)
    BY <1>2, <1>4, <2>2
  <2> QED BY <1>1, <2>1, <2>2
<1> HIDE DEF e, f
<1>6. e * BlockSize <= f * BlockSize /\ f * BlockSize \in Nat
  BY <1>2, <1>5, BlocksInOrder
<1> QED BY <1>3, <1>6 DEF e

\* A run of the list begins at block 0 or where the one before it ends.
LEMMA WhereRunsBegin ==
  ASSUME ListInv, NEW i \in 1..Len(runs)
  PROVE  /\ i = 1 => runs[i].offset = 0
         /\ i > 1 => i - 1 \in 1..Len(runs) /\ runs[i].offset = List!EndOf(runs[i - 1])
<1>1. Good(runs) /\ Len(runs) \in Nat /\ runs # << >>
  BY GoodIsTyped DEF ListInv
<1>2. runs[1].offset = 0
  BY <1>1 DEF ListInv
<1>3. i > 1 => i - 1 \in 1..Len(runs) /\ i \in 2..Len(runs)
  BY <1>1
<1> QED BY <1>1, <1>2, <1>3 DEF Good, Follows

\* A read that is not at its end is in the file where it is in the runs.
LEMMA ReadPosition ==
  ASSUME ListInv, PathInv, InRuns, ~Before(Cur)
  PROVE  /\ FileOffset(Cur) = off + want - remain
         /\ Cur = runs[run] /\ run \in 1..Len(runs) /\ Cur \in List!Runs
         /\ attr.runs = runs /\ ~attr.resident /\ pc = "runs"
         /\ LenInRun(Cur) \in 1..remain /\ FileOffset(Cur) \in Nat
         /\ off + want - remain + LenInRun(Cur) <= Covered
<1>1. ~attr.resident /\ pc = "runs" /\ remain > 0 /\ (Fresh \/ Inside)
  BY DEF InRuns, PathInv, RunsInv
<1>2. /\ Cur = runs[run] /\ run \in 1..Len(runs) /\ Cur \in List!Runs /\ Cur.len > 0
      /\ attr.runs = runs /\ remain \in Nat \ {0} /\ Len(runs) \in Nat
  BY <1>1, CurIsRun DEF PathInv
<1>3. off \in Nat /\ byteOff \in 0..(BlockSize - 1) /\ want \in Nat
  BY DEF PathInv, CallInv, ReadTypeOK
<1>4. /\ LenInRun(Cur) \in 1..remain /\ FileOffset(Cur) \in Nat
      /\ FileOffset(Cur) + LenInRun(Cur) <= List!EndOf(Cur) * BlockSize
  BY <1>2, <1>3, RunPart
<1>5. /\ Block \in Nat /\ off = (Block * BlockSize) + (off % BlockSize)
      /\ off % BlockSize \in Nat
  BY <1>3, DivideByBlock DEF Block
<1>6. Cur.offset \in Nat
  BY <1>2 DEF List!Runs
<1>7. FileOffset(Cur) = off + want - remain
  <2>1. CASE Fresh
    <3>1. byteOff = off % BlockSize /\ remain = want /\ (run > 1 => List!EndOf(runs[run - 1]) <= Block)
      BY <2>1 DEF Fresh
    <3>2. Cur.offset <= Block
      BY <1>2, <1>5, <3>1, WhereRunsBegin
    <3>3. Cur.offset + BlockInRun(Cur) = Block
      BY <1>5, <1>6, <3>2 DEF BlockInRun
    <3>4. FileOffset(Cur) = (Block * BlockSize) + (off % BlockSize)
      BY <3>1, <3>3 DEF FileOffset
    <3> QED BY <1>3, <1>5, <3>1, <3>4
  <2>2. CASE Inside
    <3>1. /\ byteOff = 0 /\ run > 1 /\ Block < List!EndOf(runs[run - 1])
          /\ off + want - remain = List!EndOf(runs[run - 1]) * BlockSize
      BY <2>2 DEF Inside
    <3>2. Cur.offset = List!EndOf(runs[run - 1])
      BY <1>2, <3>1, WhereRunsBegin
    <3>3. BlockInRun(Cur) = 0
      BY <1>5, <1>6, <3>1, <3>2 DEF BlockInRun
    <3>4. Cur.offset + 0 = Cur.offset /\ Cur.offset * BlockSize \in Nat
      BY <1>6, BlocksInOrder
    <3>5. FileOffset(Cur) = Cur.offset * BlockSize
      BY <3>1, <3>3, <3>4 DEF FileOffset
    <3> QED BY <3>1, <3>2, <3>5
  <2> QED BY <1>1, <2>1, <2>2
<1>8. List!EndOf(Cur) * BlockSize <= Covered /\ Covered \in Nat
  BY <1>2, EndsGrow
<1>9. List!EndOf(Cur) * BlockSize \in Nat
  <2>1. List!EndOf(Cur) \in Nat
    BY <1>2, RunsAreTyped
  <2> QED BY <2>1, BlocksInOrder
<1>10. off + want - remain + LenInRun(Cur) <= Covered
  <2> DEFINE E == List!EndOf(Cur) * BlockSize
  <2> HIDE DEF E
  <2>1. E <= Covered /\ E \in Nat /\ FileOffset(Cur) + LenInRun(Cur) <= E
    BY <1>4, <1>8, <1>9 DEF E
  <2> QED BY <1>2, <1>3, <1>4, <1>7, <1>8, <2>1
<1> QED BY <1>1, <1>2, <1>4, <1>7, <1>10

\* What the disk holds there.
LEMMA ByteToRead ==
  ASSUME ListInv, PathInv, InRuns, ~Before(Cur), NEW k \in 0..(LenInRun(Cur) - 1)
  PROVE  /\ Address(Cur) + k \in Nat /\ FileOffset(Cur) + k \in Nat
         /\ DiskByte(given, FileOffset(Cur) + k,
                     IF Cur.kind = "data" THEN Address(Cur) + k ELSE Zero)
<1>1. /\ Cur = runs[run] /\ run \in 1..Len(runs) /\ Cur \in List!Runs /\ ~attr.resident
      /\ FileOffset(Cur) \in Nat
  BY ReadPosition
<1>2. Cur.len > 0 /\ remain \in Nat \ {0}
  BY <1>1, CurIsRun DEF PathInv
<1>3. off \in Nat /\ byteOff \in 0..(BlockSize - 1)
  BY DEF PathInv, CallInv, ReadTypeOK
<1>4. /\ LenInRun(Cur) \in 1..remain /\ Cur.offset * BlockSize <= FileOffset(Cur)
      /\ FileOffset(Cur) + LenInRun(Cur) <= List!EndOf(Cur) * BlockSize
      /\ Address(Cur) \in Nat
      /\ Address(Cur) = (Cur.addr * BlockSize) + (FileOffset(Cur) - (Cur.offset * BlockSize))
  BY <1>1, <1>2, <1>3, RunPart
<1>5. Cur.offset \in Nat /\ Cur.addr \in Nat /\ List!EndOf(Cur) \in Nat
  BY <1>1, RunsAreTyped
<1> DEFINE o == Cur.offset * BlockSize   e == List!EndOf(Cur) * BlockSize
           a == Cur.addr * BlockSize   f == FileOffset(Cur)   p == f + k
<1>6. o \in Nat /\ e \in Nat /\ a \in Nat
  BY <1>5, BlocksInOrder
<1> HIDE DEF o, e, a, f
<1>7. /\ f \in Nat /\ LenInRun(Cur) \in Nat /\ o <= f /\ f + LenInRun(Cur) <= e
      /\ Address(Cur) = a + (f - o) /\ Address(Cur) \in Nat
  BY <1>1, <1>2, <1>4 DEF o, e, a, f
<1>8. p \in Nat /\ o <= p /\ p < e /\ Address(Cur) + k = a + (p - o) /\ Address(Cur) + k \in Nat
  BY <1>6, <1>7
<1> HIDE DEF p
<1>9. DiskByte(given, p, RunByte(Cur, p))
  BY <1>1, <1>8, ByteOfList DEF o, e
<1>10. RunByte(Cur, p) = IF Cur.kind = "data" THEN Address(Cur) + k ELSE Zero
  BY <1>8 DEF RunByte, a, o
<1> QED BY <1>8, <1>9, <1>10 DEF p, f

-----------------------------------------------------------------------------
(* Reading keeps the invariant *)

LEMMA OffTheWalk ==
  ASSUME PathInv, UNCHANGED walk,
         pc \notin {"walk", "walked"}, pc' \notin {"walk", "walked"}
  PROVE  /\ WalkInv' /\ WalkGivesTheFile'
         /\ at' = 0 /\ skipRemain' = 0 /\ chunks' = << >>
         /\ idx' \in Nat /\ noSparse' \in BOOLEAN
<1>1. at = 0 /\ skipRemain = 0 /\ chunks = << >> /\ idx \in Nat /\ noSparse \in BOOLEAN
  BY DEF PathInv, CallInv
<1>2. at' = 0 /\ skipRemain' = 0 /\ chunks' = << >> /\ idx' = idx /\ noSparse' = noSparse
  BY <1>1 DEF walk
<1>3. Len(chunks') = 0 /\ 1..Len(chunks') = {}
  BY <1>2
<1>4. WalkGivesTheFile'
  BY <1>3 DEF WalkGivesTheFile
<1>5. WalkInv'
  BY <1>2 DEF WalkInv
<1> QED BY <1>1, <1>2, <1>4, <1>5

\* A step of a read that does not end it.
LEMMA ReadGoesOn ==
  ASSUME PathInv, ListInv, ~attr.resident, pc \in {"start", "runs"}, pc' = "runs",
         UNCHANGED <<call, walk, list, result>>,
         run' \in Nat \ {0}, byteOff' \in 0..(BlockSize - 1),
         want' \in 0..len, remain' \in 0..want', buf' \in [1..len -> Int],
         RunsInv'
  PROVE  PathInv'
<1>1. /\ attr' = attr /\ off' = off /\ len' = len /\ slack' = slack /\ result' = result
      /\ runs' = runs
  BY DEF call, list
<1>2. AttrInv'
  BY <1>1 DEF PathInv, AttrInv
<1>3. /\ WalkInv' /\ WalkGivesTheFile' /\ at' = 0 /\ skipRemain' = 0 /\ chunks' = << >>
      /\ idx' \in Nat /\ noSparse' \in BOOLEAN
  BY OffTheWalk
<1>4. CallInv'
  <2>1. off \in Nat /\ len \in Nat /\ slack \in BOOLEAN /\ result \in -1..len
    BY DEF PathInv, CallInv
  <2>2. End' \in Nat
    BY <1>1, <1>2, <2>1 DEF End, AttrInv
  <2>3. attr'.skip \in Nat
    BY <1>2 DEF AttrInv
  <2>4. ReadTypeOK'
    BY <1>1 DEF ReadTypeOK
  <2> QED BY <1>1, <1>3, <2>1, <2>2, <2>3, <2>4 DEF CallInv
<1>5. ReadsWhatWasGiven' /\ ReadsAreFull'
  BY DEF ReadsWhatWasGiven, ReadsAreFull
<1> QED BY <1>2, <1>3, <1>4, <1>5 DEF PathInv

\* The run that was looked at has been read, or has given zeros.
LEMMA RunIsRead ==
  ASSUME PathInv, ListInv, InRuns, ~Before(Cur), NextRun,
         UNCHANGED <<call, pc, want, result, walk, list>>,
         buf' \in [1..len -> Int],
         \A p \in 1..len : p <= want - remain => buf'[p] = buf[p],
         \A k \in 0..(LenInRun(Cur) - 1) :
           FileByte(attr, slack, given, FileOffset(Cur) + k, buf'[want - remain + k + 1])
  PROVE  PathInv'
<1> DEFINE n == LenInRun(Cur)
<1>1. /\ FileOffset(Cur) = off + want - remain /\ Cur = runs[run] /\ run \in 1..Len(runs)
      /\ Cur \in List!Runs /\ ~attr.resident /\ n \in 1..remain /\ pc = "runs"
      /\ off + want - remain + n <= Covered
  BY ReadPosition
<1>2. /\ off \in Nat /\ len \in Nat /\ want \in 0..len /\ remain \in 0..want /\ slack \in BOOLEAN
      /\ byteOff \in 0..(BlockSize - 1)
  BY DEF PathInv, CallInv, ReadTypeOK
<1>3. /\ remain' = remain - n /\ run' = run + 1 /\ byteOff' = 0
  BY DEF NextRun
<1>4. /\ attr' = attr /\ off' = off /\ len' = len /\ slack' = slack /\ runs' = runs
      /\ given' = given /\ want' = want /\ pc' = pc
  BY DEF call, list
<1>5. /\ off < End /\ want = Least(len, End - off)
      /\ \A p \in 1..(want - remain) : FileByte(attr, slack, given, off + p - 1, buf[p])
  BY <1>1 DEF PathInv, RunsInv
<1>6. Cur.len > 0 /\ Len(runs) \in Nat /\ remain \in Nat \ {0}
  BY <1>1, CurIsRun DEF PathInv
<1>7. /\ Block < List!EndOf(Cur)
      /\ n = remain \/ FileOffset(Cur) + n = List!EndOf(Cur) * BlockSize
  BY <1>1, <1>2, <1>6, RunPart
<1> HIDE DEF n
<1>8. remain' \in 0..want' /\ (remain' = 0 \/ n # remain)
  BY <1>1, <1>2, <1>3, <1>4
<1>9. remain' > 0 => Inside'
  <2> SUFFICES ASSUME remain' > 0 PROVE Inside'
    OBVIOUS
  <2>1. n # remain
    BY <1>2, <1>3
  <2>2. run' - 1 = run /\ run' > 1 /\ run \in Nat
    BY <1>1, <1>3, <1>6
  <2>3. runs'[run' - 1] = Cur
    BY <1>1, <1>4, <2>2
  <2> DEFINE E == List!EndOf(Cur) * BlockSize
  <2>4. FileOffset(Cur) + n = E
    BY <1>7, <2>1
  <2> HIDE DEF E
  <2>5. off' + want' - remain' = E
    BY <1>1, <1>2, <1>3, <1>4, <2>4
  <2>6. Block' = Block
    BY <1>4 DEF Block
  <2> QED BY <1>3, <1>7, <2>2, <2>3, <2>5, <2>6 DEF Inside, E
<1>10. ASSUME NEW p \in 1..(want' - remain')
       PROVE  FileByte(attr', slack', given', off' + p - 1, buf'[p])
  <2>1. p \in 1..len
    BY <1>1, <1>2, <1>3, <1>4
  <2>2. CASE p <= want - remain
    <3>1. p \in 1..(want - remain) /\ buf'[p] = buf[p]
      BY <1>2, <2>1, <2>2
    <3>2. FileByte(attr, slack, given, off + p - 1, buf[p])
      BY <1>5, <3>1
    <3> QED BY <1>4, <3>1, <3>2
  <2>3. CASE p > want - remain
    <3> DEFINE k == p - (want - remain) - 1
    <3>1. k \in 0..(n - 1) /\ want - remain + k + 1 = p /\ FileOffset(Cur) + k = off + p - 1
      BY <1>1, <1>2, <1>3, <1>4, <2>3
    <3> HIDE DEF k
    <3>2. FileByte(attr, slack, given, FileOffset(Cur) + k, buf'[want - remain + k + 1])
      BY <3>1 DEF n
    <3> QED BY <1>4, <3>1, <3>2
  <2> QED BY <1>2, <2>1, <2>2, <2>3
<1>11. remain' < want' => off' + want' - remain' <= Covered'
  <2>1. Covered' = Covered
    BY <1>4 DEF Covered
  <2>2. off' + want' - remain' = off + want - remain + n
    BY <1>1, <1>2, <1>3, <1>4
  <2> QED BY <1>1, <2>1, <2>2
<1>12. RunsInv'
  <2>1. End' = End
    BY <1>4 DEF End
  <2>2. run' \in 1..(Len(runs') + 1)
    BY <1>1, <1>3, <1>4, <1>6
  <2> QED BY <1>1, <1>4, <1>5, <1>9, <1>10, <1>11, <2>1, <2>2 DEF RunsInv
<1>13. run' \in Nat \ {0} /\ remain' \in 0..want' /\ byteOff' \in 0..(BlockSize - 1)
  <2>1. BlockSize \in Nat \ {0}
    BY BlockSizeIsPositive
  <2> QED BY <1>1, <1>2, <1>3, <1>4, <1>6, <2>1
<1>14. UNCHANGED <<call, walk, list, result>> /\ pc \in {"start", "runs"} /\ pc' = "runs"
  BY <1>1, <1>4
<1>15. want' \in 0..len
  BY <1>2, <1>4
<1> QED BY <1>1, <1>12, <1>13, <1>14, <1>15, ReadGoesOn

LEMMA ZeroRunKeeps ==
  ASSUME PathInv, ListInv, ZeroRun, UNCHANGED <<walk, list>> PROVE PathInv'
<1> DEFINE n == LenInRun(Cur)   d == want - remain
<1>1. InRuns /\ ~Before(Cur) /\ ReturnsZeros(Cur) /\ NextRun
  BY DEF ZeroRun
<1>2. UNCHANGED <<call, pc, want, result, walk, list>>
  BY DEF ZeroRun
<1>3. buf' = [p \in 1..len |-> IF d < p /\ p <= d + n THEN Zero ELSE buf[p]]
  BY DEF ZeroRun, Filled
<1>4. /\ len \in Nat /\ want \in 0..len /\ remain \in 0..want /\ buf \in [1..len -> Int]
      /\ slack \in BOOLEAN
  BY DEF PathInv, CallInv, ReadTypeOK
<1>5. n \in 1..remain /\ ~attr.resident /\ FileOffset(Cur) \in Nat
  BY <1>1, ReadPosition
<1>6. Zero \in Int
  BY DEF Zero
<1>7. buf' \in [1..len -> Int]
  BY <1>3, <1>4, <1>6
<1>8. \A p \in 1..len : p <= d => buf'[p] = buf[p]
  BY <1>3, <1>4
<1>9. ASSUME NEW k \in 0..(n - 1)
      PROVE  FileByte(attr, slack, given, FileOffset(Cur) + k, buf'[d + k + 1])
  <2>1. d + k + 1 \in 1..len /\ d < d + k + 1 /\ d + k + 1 <= d + n
    BY <1>4, <1>5
  <2>2. buf'[d + k + 1] = Zero
    <3> HIDE DEF d, n
    <3> QED BY <1>3, <2>1
  <2>3. CASE Cur.kind # "data"
    <3>1. DiskByte(given, FileOffset(Cur) + k, Zero)
      BY <1>1, <2>3, ByteToRead
    <3> QED BY <1>5, <2>2, <3>1 DEF FileByte
  <2>4. CASE FileOffset(Cur) >= attr.initSize /\ ~slack
    <3>1. attr.initSize \in Nat
      BY DEF PathInv, AttrInv
    <3>2. FileOffset(Cur) + k >= attr.initSize
      BY <1>5, <2>4, <3>1
    <3> QED BY <1>5, <2>2, <2>4, <3>2 DEF FileByte
  <2> QED BY <1>1, <2>3, <2>4 DEF ReturnsZeros
<1> QED BY <1>1, <1>2, <1>7, <1>8, <1>9, RunIsRead

LEMMA ReadRunKeeps ==
  ASSUME PathInv, ListInv, ReadRun, UNCHANGED <<walk, list>> PROVE PathInv'
<1> DEFINE n == LenInRun(Cur)   d == want - remain
<1>1. InRuns /\ ~Before(Cur) /\ ~ReturnsZeros(Cur) /\ NextRun
  BY DEF ReadRun
<1>2. UNCHANGED <<call, pc, want, result, walk, list>>
  BY DEF ReadRun
<1>3. buf' = [p \in 1..len |-> IF d < p /\ p <= d + n THEN ByteOfRun(Cur, p - d - 1) ELSE buf[p]]
  BY DEF ReadRun, Filled
<1>4. /\ len \in Nat /\ want \in 0..len /\ remain \in 0..want /\ buf \in [1..len -> Int]
      /\ slack \in BOOLEAN
  BY DEF PathInv, CallInv, ReadTypeOK
<1>5. n \in 1..remain /\ ~attr.resident /\ Cur.kind = "data"
  BY <1>1, ReadPosition DEF ReturnsZeros
<1>6. ASSUME NEW k \in 0..(n - 1)
      PROVE  /\ ByteOfRun(Cur, k) \in Int
             /\ FileByte(attr, slack, given, FileOffset(Cur) + k, ByteOfRun(Cur, k))
  <2>1. /\ Address(Cur) + k \in Nat /\ DiskByte(given, FileOffset(Cur) + k, Address(Cur) + k)
    BY <1>1, <1>5, ByteToRead
  <2> QED BY <1>5, <2>1 DEF ByteOfRun, FileByte, Zero
<1>7. \A p \in 1..len : d < p /\ p <= d + n => p - d - 1 \in 0..(n - 1)
  BY <1>4, <1>5
<1>8. buf' \in [1..len -> Int]
  <2> SUFFICES ASSUME NEW p \in 1..len
               PROVE (IF d < p /\ p <= d + n THEN ByteOfRun(Cur, p - d - 1) ELSE buf[p]) \in Int
    BY <1>3
  <2>1. CASE d < p /\ p <= d + n
    BY <1>6, <1>7, <2>1
  <2>2. CASE ~(d < p /\ p <= d + n)
    BY <1>4, <2>2
  <2> QED BY <2>1, <2>2
<1>9. \A p \in 1..len : p <= d => buf'[p] = buf[p]
  <2> TAKE p \in 1..len
  <2> SUFFICES ASSUME p <= d PROVE buf'[p] = buf[p]
    OBVIOUS
  <2>1. ~(d < p)
    BY <1>4
  <2> QED BY <1>3, <2>1
<1>10. ASSUME NEW k \in 0..(n - 1)
       PROVE  FileByte(attr, slack, given, FileOffset(Cur) + k, buf'[d + k + 1])
  <2>1. d + k + 1 \in 1..len /\ d < d + k + 1 /\ d + k + 1 <= d + n /\ (d + k + 1) - d - 1 = k
    BY <1>4, <1>5
  <2>2. buf'[d + k + 1] = ByteOfRun(Cur, (d + k + 1) - d - 1)
    <3> HIDE DEF d, n
    <3> QED BY <1>3, <2>1
  <2>3. buf'[d + k + 1] = ByteOfRun(Cur, k)
    BY <2>1, <2>2
  <2> QED BY <1>6, <2>3
<1> QED BY <1>1, <1>2, <1>8, <1>9, <1>10, RunIsRead

LEMMA StartRunsKeeps ==
  ASSUME PathInv, ListInv, StartRuns, UNCHANGED <<walk, list>> PROVE PathInv'
<1>1. /\ pc = "start" /\ off < End /\ ~attr.resident /\ pc' = "runs" /\ run' = 1
      /\ want' = Least(len, End - off) /\ remain' = want' /\ byteOff' = off % BlockSize
      /\ buf' = [p \in 1..len |-> IF p > want' THEN Zero ELSE buf[p]]
      /\ UNCHANGED <<call, walk, list, result>>
  BY DEF StartRuns
<1>2. /\ off \in Nat /\ len \in Nat /\ slack \in BOOLEAN /\ buf \in [1..len -> Int]
      /\ End \in Nat
  BY EndIsNat DEF PathInv, CallInv, ReadTypeOK
<1>3. /\ attr' = attr /\ off' = off /\ len' = len /\ slack' = slack /\ runs' = runs
  BY <1>1 DEF call, list
<1>4. want' \in 0..len
  BY <1>1, <1>2 DEF Least
<1>5. byteOff' \in 0..(BlockSize - 1)
  BY <1>1, <1>2, DivideByBlock
<1>6. Zero \in Int
  BY DEF Zero
<1>7. buf' \in [1..len -> Int]
  BY <1>1, <1>2, <1>6
<1>8. RunsInv'
  <2>1. End' = End
    BY <1>3 DEF End
  <2>2. Fresh'
    BY <1>1, <1>3 DEF Fresh
  <2>3. Len(runs) \in Nat
    BY GoodIsTyped DEF ListInv
  <2>4. want' - remain' = 0 /\ ~(remain' < want') /\ 1..(want' - remain') = {}
    BY <1>1, <1>4
  <2>5. run' \in 1..(Len(runs') + 1)
    BY <1>1, <1>3, <2>3
  <2> QED BY <1>1, <1>3, <2>1, <2>2, <2>4, <2>5 DEF RunsInv
<1>9. run' \in Nat \ {0} /\ remain' \in 0..want'
  BY <1>1, <1>4
<1> QED BY <1>1, <1>4, <1>5, <1>7, <1>8, <1>9, ReadGoesOn

LEMMA SkipRunKeeps ==
  ASSUME PathInv, ListInv, SkipRun, UNCHANGED <<walk, list>> PROVE PathInv'
<1>1. /\ InRuns /\ Before(Cur) /\ run' = run + 1
      /\ UNCHANGED <<call, pc, byteOff, want, remain, buf, result, walk, list>>
  BY DEF SkipRun
<1>2. pc = "runs" /\ remain > 0
  BY <1>1 DEF InRuns
<1>3. /\ ~attr.resident /\ off < End /\ want = Least(len, End - off)
      /\ run \in 1..(Len(runs) + 1) /\ (Fresh \/ Inside)
      /\ remain < want => off + want - remain <= Covered
      /\ \A p \in 1..(want - remain) : FileByte(attr, slack, given, off + p - 1, buf[p])
  BY <1>2 DEF PathInv, RunsInv
<1>4. /\ Cur = runs[run] /\ run \in 1..Len(runs) /\ Cur \in List!Runs /\ Cur.len > 0
      /\ Len(runs) \in Nat
  BY <1>1, <1>3, CurIsRun DEF PathInv
<1>5. /\ attr' = attr /\ off' = off /\ len' = len /\ slack' = slack /\ runs' = runs
      /\ given' = given /\ pc' = pc /\ byteOff' = byteOff /\ want' = want
      /\ remain' = remain /\ buf' = buf /\ result' = result
  BY <1>1 DEF call, list
<1>6. /\ off \in Nat /\ byteOff \in 0..(BlockSize - 1) /\ want \in 0..len /\ remain \in 0..want
      /\ buf \in [1..len -> Int]
  BY DEF PathInv, CallInv, ReadTypeOK
<1>7. List!EndOf(Cur) <= Block /\ Cur.offset \in Nat /\ Cur.len \in Nat /\ Block \in Nat
  BY <1>1, <1>4, <1>6, DivideByBlock DEF Before, List!EndOf, List!Runs, Block
<1>8. ~Inside
  <2> SUFFICES ASSUME Inside PROVE FALSE
    OBVIOUS
  <2>1. run > 1 /\ Block < List!EndOf(runs[run - 1])
    BY DEF Inside
  <2>2. Cur.offset = List!EndOf(runs[run - 1])
    BY <1>4, <2>1, WhereRunsBegin
  <2> QED BY <1>7, <2>1, <2>2 DEF List!EndOf
<1>9. Fresh'
  <2>1. Fresh
    BY <1>3, <1>8
  <2>2. run' - 1 = run
    BY <1>1, <1>4
  <2>3. runs'[run' - 1] = Cur
    BY <1>4, <1>5, <2>2
  <2>4. Block' = Block
    BY <1>5 DEF Block
  <2> QED BY <1>5, <1>7, <2>1, <2>3, <2>4 DEF Fresh
<1>10. RunsInv'
  <2>1. End' = End /\ Covered' = Covered
    BY <1>5 DEF End, Covered
  <2>2. run' \in 1..(Len(runs') + 1)
    BY <1>1, <1>4, <1>5
  <2> QED BY <1>3, <1>5, <1>9, <2>1, <2>2 DEF RunsInv
<1>11. run' \in Nat \ {0}
  BY <1>1, <1>4
<1>12. UNCHANGED <<call, walk, list, result>> /\ pc \in {"start", "runs"} /\ pc' = "runs"
  BY <1>1, <1>2, <1>5
<1> QED BY <1>3, <1>5, <1>6, <1>10, <1>11, <1>12, ReadGoesOn

\* A step that ends a read.
LEMMA ReadReturns ==
  ASSUME PathInv, pc \in {"start", "runs"}, pc' = "done",
         UNCHANGED <<call, run, byteOff, want, remain, walk, list>>,
         buf' \in [1..len -> Int], result' \in -1..len,
         \A p \in 1..result' :
           /\ off + p - 1 < End
           /\ \/ FileByte(attr, slack, given, off + p - 1, buf'[p])
              \/ /\ remain > 0 /\ run <= Len(attr.runs)
                 /\ DiskByte(given, off + p - 1, buf'[p]),
         ~(remain > 0 /\ run <= Len(attr.runs)) /\ off < End =>
           result' = IF attr.resident \/ off + Least(len, End - off) <= Covered
                     THEN Least(len, End - off)
                     ELSE IF off < Covered THEN Covered - off ELSE 0
  PROVE  PathInv'
<1>1. /\ attr' = attr /\ off' = off /\ len' = len /\ slack' = slack /\ run' = run
      /\ byteOff' = byteOff /\ want' = want /\ remain' = remain
      /\ runs' = runs /\ given' = given
  BY DEF call, list
<1>2. AttrInv'
  BY <1>1 DEF PathInv, AttrInv
<1>3. /\ WalkInv' /\ WalkGivesTheFile' /\ at' = 0 /\ skipRemain' = 0 /\ chunks' = << >>
      /\ idx' \in Nat /\ noSparse' \in BOOLEAN
  BY OffTheWalk
<1>4. CallInv'
  <2>1. off \in Nat /\ len \in Nat /\ slack \in BOOLEAN
    BY DEF PathInv, CallInv
  <2>2. End' \in Nat
    BY <1>1, <1>2, <2>1 DEF End, AttrInv
  <2>3. attr'.skip \in Nat
    BY <1>2 DEF AttrInv
  <2>4. ReadTypeOK'
    BY <1>1 DEF PathInv, CallInv, ReadTypeOK
  <2> QED BY <1>1, <1>3, <2>1, <2>2, <2>3, <2>4 DEF CallInv
<1>5. End' = End /\ Covered' = Covered /\ (ReadFailed' <=> remain > 0 /\ run <= Len(attr.runs))
  BY <1>1 DEF End, Covered, ReadFailed
<1>6. ReadsWhatWasGiven'
  <2> SUFFICES ASSUME NEW p \in 1..result'
               PROVE  /\ off' + p - 1 < End'
                      /\ \/ IsByte(off + p - 1, buf[p])'
                         \/ (ReadFailed' /\ IsDiskByte(off + p - 1, buf[p])')
    BY DEF ReadsWhatWasGiven
  <2>1. attr'.resident \in BOOLEAN
    BY <1>2 DEF AttrInv
  <2>2. FileByte(attr, slack, given, off + p - 1, buf'[p]) => IsByte(off + p - 1, buf[p])'
    BY <1>1, <2>1 DEF FileByte, DiskByte, IsByte, IsDiskByte, PastInitSize
  <2>3. DiskByte(given, off + p - 1, buf'[p]) => IsDiskByte(off + p - 1, buf[p])'
    BY <1>1 DEF DiskByte, IsDiskByte
  <2> QED BY <1>1, <1>5, <2>2, <2>3
<1>7. ReadsAreFull'
  BY <1>1, <1>5 DEF ReadsAreFull
<1>8. RunsInv'
  BY DEF RunsInv
<1> QED BY <1>2, <1>3, <1>4, <1>6, <1>7, <1>8 DEF PathInv

LEMMA RefuseOffsetKeeps ==
  ASSUME PathInv, ListInv, RefuseOffset, UNCHANGED <<walk, list>> PROVE PathInv'
<1>1. /\ pc = "start" /\ off >= End /\ result' = -1 /\ pc' = "done" /\ buf' = buf
      /\ UNCHANGED <<call, run, byteOff, want, remain, walk, list>>
  BY DEF RefuseOffset
<1>2. off \in Nat /\ len \in Nat /\ End \in Nat /\ buf \in [1..len -> Int]
  BY EndIsNat DEF PathInv, CallInv, ReadTypeOK
<1>3. 1..result' = {} /\ ~(off < End) /\ result' \in -1..len
  BY <1>1, <1>2
<1> QED BY <1>1, <1>2, <1>3, ReadReturns

LEMMA ReadResidentKeeps ==
  ASSUME PathInv, ListInv, ReadResident, UNCHANGED <<walk, list>> PROVE PathInv'
<1> DEFINE n == Least(len, End - off)
<1>1. /\ pc = "start" /\ off < End /\ attr.resident /\ result' = n /\ pc' = "done"
      /\ buf' = [p \in 1..len |-> IF p <= n THEN off + p - 1 ELSE Zero]
      /\ UNCHANGED <<call, run, byteOff, want, remain, walk, list>>
  BY DEF ReadResident
<1>2. off \in Nat /\ len \in Nat /\ End \in Nat
  BY EndIsNat DEF PathInv, CallInv, ReadTypeOK
<1>3. n \in 0..len /\ off + n <= End
  BY <1>1, <1>2 DEF Least
<1>4. buf' \in [1..len -> Int]
  <2>1. Zero \in Int
    BY DEF Zero
  <2> HIDE DEF n
  <2> QED BY <1>1, <1>2, <2>1
<1>5. ASSUME NEW p \in 1..result'
      PROVE  off + p - 1 < End /\ FileByte(attr, slack, given, off + p - 1, buf'[p])
  <2>1. p \in 1..len /\ p <= n /\ off + p - 1 < End
    BY <1>1, <1>2, <1>3
  <2>2. buf'[p] = off + p - 1
    <3> HIDE DEF n
    <3> QED BY <1>1, <2>1
  <2> QED BY <1>1, <2>1, <2>2 DEF FileByte
<1>6. result' \in -1..len
  BY <1>1, <1>2, <1>3
<1>7. result' = IF attr.resident \/ off + Least(len, End - off) <= Covered
                THEN Least(len, End - off)
                ELSE IF off < Covered THEN Covered - off ELSE 0
  BY <1>1
<1> QED BY <1>1, <1>4, <1>5, <1>6, <1>7, ReadReturns

LEMMA ReadRunFailsKeeps ==
  ASSUME PathInv, ListInv, ReadRunFails, UNCHANGED <<walk, list>> PROVE PathInv'
<1> DEFINE n == LenInRun(Cur)   d == want - remain
<1>1. /\ InRuns /\ ~Before(Cur) /\ ~ReturnsZeros(Cur) /\ pc' = "done"
      /\ UNCHANGED <<call, run, byteOff, want, remain, walk, list>>
  BY DEF ReadRunFails
<1>2. PICK k \in FsRead(Address(Cur), n) \ {n} :
        /\ buf' = [p \in 1..len |-> IF d < p /\ p <= d + k THEN Address(Cur) + (p - d - 1) ELSE buf[p]]
        /\ result' = k
  BY DEF ReadRunFails, Filled
<1>3. /\ len \in Nat /\ want \in 0..len /\ remain \in 0..want /\ buf \in [1..len -> Int]
      /\ off \in Nat /\ slack \in BOOLEAN /\ End \in Nat
  BY EndIsNat DEF PathInv, CallInv, ReadTypeOK
<1>4. /\ n \in 1..remain /\ ~attr.resident /\ Cur.kind = "data" /\ pc = "runs"
      /\ FileOffset(Cur) = off + d /\ attr.runs = runs /\ run \in 1..Len(runs)
  <2>1. Cur.kind = "data"
    BY <1>1 DEF ReturnsZeros
  <2>2. off + want - remain = off + d
    BY <1>3
  <2> QED BY <1>1, <2>1, <2>2, ReadPosition
<1>5. /\ off < End /\ want = Least(len, End - off)
      /\ \A p \in 1..d : FileByte(attr, slack, given, off + p - 1, buf[p])
  BY <1>4 DEF PathInv, RunsInv
<1>6. off + want <= End
  BY <1>3, <1>5 DEF Least
<1>7. Address(Cur) \in Nat
  <2>1. 0 \in 0..(n - 1)
    BY <1>3, <1>4
  <2>2. Address(Cur) + 0 \in Nat
    BY <1>1, <2>1, ByteToRead
  <2>3. Cur \in List!Runs /\ Cur.len > 0 /\ remain \in Nat \ {0}
    BY <1>1, <1>4, CurIsRun DEF PathInv
  <2>4. byteOff \in 0..(BlockSize - 1)
    BY DEF PathInv, CallInv, ReadTypeOK
  <2> QED BY <1>1, <1>3, <2>3, <2>4, RunPart
<1>8. k \in -1..n
  BY <1>3, <1>4, <1>7, ReadAssumption DEF FsRead, Least
<1> HIDE DEF n, d
<1>9. d \in Nat /\ n \in Nat /\ want \in Nat /\ d + n <= want /\ want <= len
  BY <1>3, <1>4 DEF d
<1>10. buf' \in [1..len -> Int]
  <2> SUFFICES ASSUME NEW p \in 1..len
               PROVE  (IF d < p /\ p <= d + k THEN Address(Cur) + (p - d - 1) ELSE buf[p]) \in Int
    BY <1>2
  <2> QED BY <1>3, <1>7, <1>9
<1>11. result' \in -1..len
  BY <1>2, <1>3, <1>8, <1>9
<1>12. ASSUME NEW p \in 1..result'
       PROVE  /\ off + p - 1 < End
              /\ \/ FileByte(attr, slack, given, off + p - 1, buf'[p])
                 \/ DiskByte(given, off + p - 1, buf'[p])
  <2>1. p \in 1..len /\ p <= k /\ off + p - 1 < End
    BY <1>2, <1>3, <1>6, <1>8, <1>9
  <2>2. CASE p <= d
    <3>1. buf'[p] = buf[p] /\ p \in 1..d
      BY <1>2, <1>9, <2>1, <2>2
    <3> QED BY <1>5, <2>1, <3>1
  <2>3. CASE p > d
    <3> DEFINE j == p - d - 1
    <3>1. j \in 0..(n - 1) /\ d < p /\ p <= d + k /\ off + d + j = off + p - 1
      BY <1>3, <1>8, <1>9, <2>1, <2>3
    <3>2. buf'[p] = Address(Cur) + j
      BY <1>2, <2>1, <3>1
    <3> HIDE DEF j
    <3>3. DiskByte(given, FileOffset(Cur) + j, Address(Cur) + j)
      BY <1>1, <1>4, <3>1, ByteToRead DEF n
    <3> QED BY <1>4, <2>1, <3>1, <3>2, <3>3
  <2> QED BY <1>9, <2>1, <2>2, <2>3
<1>13. remain > 0 /\ run <= Len(attr.runs)
  BY <1>1 DEF InRuns
<1> QED BY <1>1, <1>4, <1>10, <1>11, <1>12, <1>13, ReadReturns

LEMMA EndOfRunsKeeps ==
  ASSUME PathInv, ListInv, EndOfRuns, UNCHANGED <<walk, list>> PROVE PathInv'
<1>1. /\ pc = "runs" /\ ~InRuns /\ result' = want - remain /\ pc' = "done" /\ buf' = buf
      /\ UNCHANGED <<call, run, byteOff, want, remain, walk, list>>
  BY DEF EndOfRuns
<1>2. /\ len \in Nat /\ want \in 0..len /\ remain \in 0..want /\ buf \in [1..len -> Int]
      /\ off \in Nat /\ slack \in BOOLEAN /\ End \in Nat
  BY EndIsNat DEF PathInv, CallInv, ReadTypeOK
<1>3. /\ ~attr.resident /\ off < End /\ want = Least(len, End - off)
      /\ run \in 1..(Len(runs) + 1)
      /\ remain < want => off + want - remain <= Covered
      /\ remain > 0 => Fresh \/ Inside
      /\ \A p \in 1..(want - remain) : FileByte(attr, slack, given, off + p - 1, buf[p])
  BY <1>1 DEF PathInv, RunsInv
<1>4. attr.runs = runs /\ Len(runs) \in Nat
  BY <1>1, <1>3, GoodIsTyped DEF PathInv, AttrInv, ListInv
<1>5. off + want <= End /\ result' \in -1..len
  BY <1>1, <1>2, <1>3 DEF Least
<1>6. ASSUME NEW p \in 1..result'
      PROVE  off + p - 1 < End /\ FileByte(attr, slack, given, off + p - 1, buf'[p])
  <2>1. p \in 1..(want - remain) /\ off + p - 1 < End
    BY <1>1, <1>2, <1>5
  <2> QED BY <1>1, <1>3, <2>1
<1>7. Covered \in Nat
  <2>1. CASE runs = << >>
    BY <2>1 DEF Covered
  <2>2. CASE runs # << >>
    <3>1. Len(runs) \in 1..Len(runs)
      BY <1>4, <2>2, GoodIsTyped DEF ListInv
    <3> QED BY <3>1, EndsGrow
  <2> QED BY <2>1, <2>2
<1> DEFINE full == IF off + want <= Covered THEN want ELSE IF off < Covered THEN Covered - off ELSE 0
<1>8. result' = full
  <2>1. CASE remain = 0 /\ want = 0
    BY <1>1, <1>2, <1>7, <2>1
  <2>2. CASE remain = 0 /\ want > 0
    BY <1>1, <1>2, <1>3, <1>7, <2>2
  <2>3. CASE remain > 0
    <3>1. run = Len(runs) + 1
      BY <1>1, <1>3, <1>4, <2>3 DEF InRuns
    <3>2. run > 1 => Covered = List!EndOf(runs[run - 1]) * BlockSize /\ List!EndOf(runs[run - 1]) \in Nat
      <4> SUFFICES ASSUME run > 1 PROVE Covered = List!EndOf(runs[run - 1]) * BlockSize /\ List!EndOf(runs[run - 1]) \in Nat
        OBVIOUS
      <4>1. run - 1 = Len(runs) /\ Len(runs) \in 1..Len(runs)
        BY <1>4, <3>1
      <4>2. runs # << >> /\ List!EndOf(runs[Len(runs)]) \in Nat
        BY <4>1, GoodIsTyped DEF ListInv
      <4> QED BY <4>1, <4>2 DEF Covered
    <3>3. run = 1 => Covered = 0
      BY <1>4, <3>1, GoodIsTyped DEF Covered, ListInv
    <3>4. CASE Fresh
      <4>1. Block \in Nat /\ Block * BlockSize <= off /\ Block * BlockSize \in Nat
        <5>1. Block \in Nat /\ off = (Block * BlockSize) + (off % BlockSize) /\ off % BlockSize \in Nat
          <6>1. off \in Nat
            BY <1>2
          <6> QED BY <6>1, DivideByBlock DEF Block
        <5>2. Block * BlockSize \in Nat
          BY <5>1, BlocksInOrder
        <5> QED BY <1>2, <5>1, <5>2
      <4>2. Covered <= off
        <5>1. CASE run = 1
          BY <1>2, <3>3, <5>1
        <5>2. CASE run > 1
          <6> DEFINE e == List!EndOf(runs[run - 1])
          <6>1. e <= Block /\ e \in Nat /\ Covered = e * BlockSize
            BY <3>2, <3>4, <5>2 DEF Fresh
          <6>2. e * BlockSize <= Block * BlockSize
            BY <4>1, <6>1, BlocksInOrder
          <6> HIDE DEF e
          <6> QED BY <1>2, <1>7, <4>1, <6>1, <6>2
        <5> QED BY <1>3, <1>4, <5>1, <5>2
      <4>3. remain = want
        BY <3>4 DEF Fresh
      <4> QED BY <1>1, <1>2, <1>7, <2>3, <4>2, <4>3
    <3>5. CASE Inside
      <4>1. off + want - remain = Covered
        BY <3>2, <3>5 DEF Inside
      <4> QED BY <1>1, <1>2, <1>7, <2>3, <4>1
    <3> QED BY <1>3, <2>3, <3>4, <3>5
  <2> QED BY <1>2, <2>1, <2>2, <2>3
<1>9. result' = IF attr.resident \/ off + Least(len, End - off) <= Covered
                THEN Least(len, End - off)
                ELSE IF off < Covered THEN Covered - off ELSE 0
  BY <1>3, <1>8
<1> QED BY <1>1, <1>2, <1>5, <1>6, <1>9, ReadReturns

-----------------------------------------------------------------------------
(* Walking keeps the invariant *)

\* Byte p of the attribute as a chunk of a walk may hold it.
ChunkByte(a, s, G, p, b) ==
  \/ IF a.resident \/ (~s /\ p >= a.initSize)
     THEN FileByte(a, s, G, p, b) ELSE DiskByte(G, p + a.skip, b)
  \/ a.skip > 0 /\ ~a.resident /\ ~s /\ p + a.skip >= a.initSize /\ b = Zero

\* The chunks follow each other, up to the end e.
InSequence(cs, ns, e) ==
  \A i \in 1..Len(cs) :
    LET before == IF i = 1 THEN 0 ELSE cs[i - 1].off + Len(cs[i - 1].bytes)
    IN /\ cs[i].off = before \/ (ns /\ cs[i].off > before)
       /\ \A k \in 1..Len(cs[i].bytes) : cs[i].off + k - 1 < e
HoldBytes(cs, a, s, G) ==
  \A i \in 1..Len(cs) : \A k \in 1..Len(cs[i].bytes) :
    ChunkByte(a, s, G, cs[i].off + k - 1, cs[i].bytes[k])

LEMMA WalkGives ==
  ASSUME Ordinary, attr.resident \in BOOLEAN
  PROVE  WalkGivesTheFile <=>
           InSequence(chunks, noSparse, End) /\ HoldBytes(chunks, attr, slack, given)
<1>1. ASSUME NEW p, NEW b
      PROVE  (\/ IF attr.resident \/ PastInitSize(p) THEN IsByte(p, b)
                 ELSE IsDiskByte(p + attr.skip, b)
              \/ attr.skip > 0 /\ PastInitSize(p + attr.skip) /\ b = Zero)
             <=> ChunkByte(attr, slack, given, p, b)
  <2>1. IsByte(p, b) <=> FileByte(attr, slack, given, p, b)
    BY SameBytes
  <2>2. IsDiskByte(p + attr.skip, b) <=> DiskByte(given, p + attr.skip, b)
    BY SameBytes
  <2> QED BY <2>1, <2>2 DEF ChunkByte, PastInitSize
<1> QED BY <1>1 DEF WalkGivesTheFile, InSequence, HoldBytes

LEMMA ChunkIsAdded ==
  ASSUME NEW cs \in Seq(ChunkType), NEW c \in ChunkType, NEW ns \in BOOLEAN, NEW e \in Nat,
         NEW a, NEW s, NEW G,
         InSequence(cs, ns, e), HoldBytes(cs, a, s, G),
         EndOfChunks(cs) <= c.off, ns \/ EndOfChunks(cs) = c.off, c.off + Len(c.bytes) <= e,
         \A k \in 1..Len(c.bytes) : ChunkByte(a, s, G, c.off + k - 1, c.bytes[k])
  PROVE  /\ Append(cs, c) \in Seq(ChunkType)
         /\ InSequence(Append(cs, c), ns, e) /\ HoldBytes(Append(cs, c), a, s, G)
         /\ EndOfChunks(Append(cs, c)) = c.off + Len(c.bytes)
<1> DEFINE w == Append(cs, c)
<1>1. /\ Len(cs) \in Nat /\ w \in Seq(ChunkType) /\ Len(w) = Len(cs) + 1
      /\ w[Len(cs) + 1] = c /\ \A i \in 1..Len(cs) : w[i] = cs[i]
      /\ (cs = << >> <=> Len(cs) = 0) /\ w # << >>
  BY AppendProperties, LenProperties, EmptySeq
<1>2. c.off \in Nat /\ Len(c.bytes) \in Nat
  BY LenProperties DEF ChunkType
<1>3. \A i \in 1..Len(cs) : Len(cs[i].bytes) \in Nat /\ cs[i].off \in Nat
  <2> TAKE i \in 1..Len(cs)
  <2>1. cs[i] \in ChunkType
    BY ElementOfSeq
  <2> QED BY <2>1, LenProperties DEF ChunkType
<1>4. EndOfChunks(cs) \in Nat
  BY <1>1, <1>3 DEF EndOfChunks
<1> HIDE DEF w
<1>5. EndOfChunks(w) = c.off + Len(c.bytes)
  BY <1>1 DEF EndOfChunks
<1>6. ASSUME NEW i \in 1..Len(w), i # Len(cs) + 1
      PROVE  i \in 1..Len(cs) /\ w[i] = cs[i] /\ (i > 1 => w[i - 1] = cs[i - 1])
  <2>1. i \in 1..Len(cs)
    BY <1>1, <1>6
  <2>2. i > 1 => i - 1 \in 1..Len(cs)
    BY <1>1, <2>1
  <2> QED BY <1>1, <2>1, <2>2
<1> DEFINE before(i) == IF i = 1 THEN 0 ELSE w[i - 1].off + Len(w[i - 1].bytes)
<1>7. ASSUME NEW i \in 1..Len(w)
      PROVE  /\ w[i].off = before(i) \/ (ns /\ w[i].off > before(i))
             /\ \A k \in 1..Len(w[i].bytes) : w[i].off + k - 1 < e
  <2>1. CASE i = Len(cs) + 1
    <3>1. w[i] = c
      BY <1>1, <2>1
    <3>2. before(i) = EndOfChunks(cs)
      <4>1. CASE i = 1
        BY <1>1, <2>1, <4>1 DEF EndOfChunks
      <4>2. CASE i # 1
        <5>1. i - 1 = Len(cs) /\ Len(cs) \in 1..Len(cs) /\ cs # << >>
          BY <1>1, <2>1, <4>2
        <5>2. w[i - 1] = cs[Len(cs)]
          BY <1>1, <5>1
        <5> QED BY <4>2, <5>1, <5>2 DEF EndOfChunks
      <4> QED BY <4>1, <4>2
    <3> HIDE DEF before
    <3>3. c.off = before(i) \/ (ns /\ c.off > before(i))
      BY <1>2, <1>4, <3>2
    <3> QED BY <1>2, <3>1, <3>3
  <2>2. CASE i # Len(cs) + 1
    <3>1. i \in 1..Len(cs) /\ w[i] = cs[i] /\ (i > 1 => w[i - 1] = cs[i - 1])
      BY <1>6, <2>2
    <3>2. before(i) = IF i = 1 THEN 0 ELSE cs[i - 1].off + Len(cs[i - 1].bytes)
      BY <3>1
    <3> HIDE DEF before
    <3> QED BY <3>1, <3>2 DEF InSequence
  <2> QED BY <2>1, <2>2
<1>8. ASSUME NEW i \in 1..Len(w), NEW k \in 1..Len(w[i].bytes)
      PROVE  ChunkByte(a, s, G, w[i].off + k - 1, w[i].bytes[k])
  <2>1. CASE i = Len(cs) + 1
    <3>1. w[i] = c
      BY <1>1, <2>1
    <3> QED BY <3>1
  <2>2. CASE i # Len(cs) + 1
    <3>1. i \in 1..Len(cs) /\ w[i] = cs[i]
      BY <1>6, <2>2
    <3> QED BY <3>1 DEF HoldBytes
  <2> QED BY <2>1, <2>2
<1>9. InSequence(w, ns, e)
  BY <1>7 DEF InSequence
<1>10. HoldBytes(w, a, s, G)
  BY <1>8 DEF HoldBytes
<1> QED BY <1>1, <1>5, <1>9, <1>10 DEF w

\* A step of a walk.
LEMMA WalkGoesOn ==
  ASSUME PathInv, pc = "walk", pc' \in {"walk", "walked"},
         UNCHANGED <<call, reading, noSparse, list>>,
         result' \in {0, 1}, pc' = "walk" => result' = 0,
         run' \in Nat \ {0}, idx' \in Nat, at' \in 0..End, skipRemain' \in 0..attr.skip,
         WalkInv', InSequence(chunks', noSparse, End), HoldBytes(chunks', attr, slack, given)
  PROVE  PathInv'
<1>1. /\ attr' = attr /\ off' = off /\ len' = len /\ slack' = slack /\ noSparse' = noSparse
      /\ byteOff' = byteOff /\ want' = want /\ remain' = remain /\ buf' = buf
      /\ runs' = runs /\ given' = given
  BY DEF call, reading, list
<1>2. AttrInv'
  BY <1>1 DEF PathInv, AttrInv
<1>3. CallInv'
  <2>1. /\ off \in Nat /\ len \in Nat /\ slack \in BOOLEAN /\ noSparse \in BOOLEAN
        /\ byteOff \in 0..(BlockSize - 1) /\ want \in 0..len /\ remain \in 0..want
        /\ buf \in [1..len -> Int]
    BY DEF PathInv, CallInv, ReadTypeOK
  <2>2. End' = End
    BY <1>1 DEF End
  <2>3. ReadTypeOK'
    BY <1>1, <2>1 DEF ReadTypeOK
  <2>4. result' \in IF pc' = "walked" THEN {0, 1} ELSE -1..len
    BY <2>1
  <2> QED BY <1>1, <2>1, <2>2, <2>3, <2>4 DEF CallInv
<1>4. RunsInv' /\ ReadsWhatWasGiven' /\ ReadsAreFull'
  BY DEF RunsInv, ReadsWhatWasGiven, ReadsAreFull
<1>5. WalkGivesTheFile'
  <2>1. attr'.resident \in BOOLEAN
    BY <1>2 DEF AttrInv
  <2>2. End' = End
    BY <1>1 DEF End
  <2>3. ASSUME NEW p, NEW b
        PROVE  ChunkByte(attr', slack', given', p, b) =>
                 \/ IF attr'.resident \/ PastInitSize(p)' THEN IsByte(p, b)'
                    ELSE IsDiskByte(p + attr.skip, b)'
                 \/ attr'.skip > 0 /\ PastInitSize(p + attr.skip)' /\ b = Zero
    <3>1. FileByte(attr', slack', given', p, b) => IsByte(p, b)'
      BY <2>1 DEF IsByte, FileByte, PastInitSize, IsDiskByte, DiskByte
    <3>2. DiskByte(given', p + attr'.skip, b) => IsDiskByte(p + attr.skip, b)'
      BY DEF IsDiskByte, DiskByte
    <3> QED BY <2>1, <3>1, <3>2 DEF ChunkByte, PastInitSize
  <2>4. InSequence(chunks', noSparse', End') /\ HoldBytes(chunks', attr', slack', given')
    BY <1>1, <2>2
  <2> QED BY <2>3, <2>4 DEF WalkGivesTheFile, InSequence, HoldBytes
<1> QED BY <1>2, <1>3, <1>4, <1>5 DEF PathInv

LEMMA BeginWalkKeeps ==
  ASSUME PathInv, ListInv, BeginWalk, UNCHANGED list PROVE PathInv'
<1>1. /\ pc = "open" /\ pc' = "walk" /\ run' = 1 /\ slack' \in BOOLEAN /\ noSparse' \in BOOLEAN
      /\ idx' = 0 /\ at' = 0 /\ chunks' = << >> /\ skipRemain' = attr.skip
      /\ attr' = attr /\ off' = off /\ len' = len /\ result' = result
      /\ byteOff' = byteOff /\ want' = want /\ remain' = remain /\ buf' = buf
      /\ runs' = runs
  BY DEF BeginWalk, reading, list
<1>2. AttrInv'
  BY <1>1 DEF PathInv, AttrInv
<1>3. /\ off \in Nat /\ len \in Nat /\ result = 0
      /\ byteOff \in 0..(BlockSize - 1) /\ want \in 0..len /\ remain \in 0..want
      /\ buf \in [1..len -> Int]
  BY <1>1 DEF PathInv, CallInv, ReadTypeOK
<1>4. CallInv'
  <2>1. End' \in Nat /\ attr'.skip \in Nat
    BY <1>1, <1>2 DEF End, AttrInv
  <2>2. ReadTypeOK'
    BY <1>1, <1>3 DEF ReadTypeOK
  <2>3. at' \in 0..End' /\ skipRemain' \in 0..attr'.skip /\ result' \in -1..len'
    BY <1>1, <1>3, <2>1
  <2> QED BY <1>1, <1>3, <2>2, <2>3 DEF CallInv
<1>5. WalkInv'
  <2>1. Good(runs) /\ Len(runs) \in Nat
    BY GoodIsTyped DEF ListInv
  <2>2. attr.skip \in Nat
    BY DEF PathInv, AttrInv
  <2>3. run' <= Len(runs') => /\ idx' < runs'[run'].len
                              /\ (runs'[run'].offset + idx') * BlockSize = at' + attr'.skip - skipRemain'
    <3> SUFFICES ASSUME 1 <= Len(runs)
                 PROVE  0 < runs[1].len /\ (runs[1].offset + 0) * BlockSize = 0 + attr.skip - attr.skip
      BY <1>1
    <3>1. 1 \in 1..Len(runs)
      BY <2>1
    <3>2. runs[1].len \in Nat \ {0} /\ runs[1].offset = 0
      BY <2>1, <3>1, GoodIsTyped, WhereRunsBegin
    <3> QED BY <2>2, <3>2, BlockSizeIsPositive
  <2>4. run' \in 1..(Len(runs') + 1)
    BY <1>1, <2>1
  <2>5. chunks' \in Seq(ChunkType) /\ EndOfChunks(chunks') = 0
    BY <1>1 DEF EndOfChunks
  <2> QED BY <1>1, <1>3, <2>3, <2>4, <2>5 DEF WalkInv
<1>6. WalkGivesTheFile'
  <2>1. Len(chunks') = 0 /\ 1..Len(chunks') = {}
    BY <1>1
  <2> QED BY <2>1 DEF WalkGivesTheFile
<1>7. RunsInv' /\ ReadsWhatWasGiven' /\ ReadsAreFull'
  BY <1>1 DEF RunsInv, ReadsWhatWasGiven, ReadsAreFull
<1> QED BY <1>2, <1>4, <1>5, <1>6, <1>7 DEF PathInv

\* What a walk knows of itself.
LEMMA WalkFacts ==
  ASSUME Ordinary, PathInv, pc = "walk"
  PROVE  /\ attr.resident \in BOOLEAN /\ slack \in BOOLEAN /\ noSparse \in BOOLEAN
         /\ End \in Nat /\ at \in 0..End /\ attr.skip \in Nat /\ skipRemain \in 0..attr.skip
         /\ idx \in Nat /\ run \in Nat \ {0} /\ BlockSize \in Nat \ {0} /\ attr.initSize \in Nat
         /\ InSequence(chunks, noSparse, End) /\ HoldBytes(chunks, attr, slack, given)
         /\ chunks \in Seq(ChunkType)
         /\ EndOfChunks(chunks) <= at /\ (noSparse \/ EndOfChunks(chunks) = at)
<1>1. attr.resident \in BOOLEAN /\ attr.skip \in Nat /\ attr.initSize \in Nat
  BY DEF PathInv, AttrInv
<1>2. /\ slack \in BOOLEAN /\ noSparse \in BOOLEAN /\ at \in 0..End /\ skipRemain \in 0..attr.skip
      /\ idx \in Nat /\ run \in Nat \ {0}
  BY DEF PathInv, CallInv, ReadTypeOK
<1>3. End \in Nat
  BY <1>2, EndIsNat DEF PathInv
<1>4. InSequence(chunks, noSparse, End) /\ HoldBytes(chunks, attr, slack, given)
  BY <1>1, WalkGives DEF PathInv
<1>5. /\ chunks \in Seq(ChunkType)
      /\ EndOfChunks(chunks) <= at /\ (noSparse \/ EndOfChunks(chunks) = at)
  BY DEF PathInv, WalkInv
<1> QED BY <1>1, <1>2, <1>3, <1>4, <1>5, BlockSizeIsPositive

\* A walk that gives nothing and ends.
LEMMA WalkStops ==
  ASSUME Ordinary, PathInv, ListInv, WalkBlockFails \/ WalkEnds, UNCHANGED list PROVE PathInv'
<1>1. /\ pc = "walk" /\ pc' = "walked" /\ result' \in {0, 1}
      /\ UNCHANGED <<call, reading, run, walk, list>>
  <2>1. CASE WalkBlockFails
    BY <2>1 DEF WalkBlockFails, InBlocks, Walking
  <2>2. CASE WalkEnds
    BY <2>2 DEF WalkEnds, Walking
  <2> QED BY <2>1, <2>2
<1>2. /\ run' = run /\ noSparse' = noSparse /\ idx' = idx /\ at' = at
      /\ skipRemain' = skipRemain /\ chunks' = chunks
  BY <1>1 DEF walk
<1>3. /\ at \in 0..End /\ skipRemain \in 0..attr.skip /\ idx \in Nat /\ run \in Nat \ {0}
      /\ InSequence(chunks, noSparse, End) /\ HoldBytes(chunks, attr, slack, given)
      /\ chunks \in Seq(ChunkType)
  BY <1>1, WalkFacts
<1>4. WalkInv'
  BY <1>1, <1>2, <1>3 DEF WalkInv
<1>5. UNCHANGED <<call, reading, noSparse, list>>
  BY <1>1, <1>2
<1>6. pc' \in {"walk", "walked"} /\ (pc' = "walk" => result' = 0)
  BY <1>1
<1> QED BY <1>1, <1>2, <1>3, <1>4, <1>5, <1>6, WalkGoesOn

\* The answer of the callback.
LEMMA EndsWalk ==
  ASSUME NEW a \in Answers, NEW n, Ends(a, n), pc = "walk"
  PROVE  /\ pc' \in {"walk", "walked"} /\ result' \in {0, 1}
         /\ pc' = "walk" => result' = 0 /\ ~(at + n >= End)
  BY DEF Ends, Answers

LEMMA WalkResidentKeeps ==
  ASSUME Ordinary, PathInv, ListInv, WalkResident, UNCHANGED list PROVE PathInv'
<1> DEFINE n == Least(BlockSize, attr.size - at)   c == Chunk([k \in 1..n |-> at + k - 1])
<1>1. /\ pc = "walk" /\ attr.resident /\ at < attr.size
      /\ chunks' = Append(chunks, c) /\ at' = at + n
      /\ UNCHANGED <<call, reading, run, noSparse, idx, skipRemain>>
  BY DEF WalkResident, Walking
<1>2. PICK a \in Answers : Ends(a, n)
  BY DEF WalkResident
<1>3. /\ attr.resident \in BOOLEAN /\ slack \in BOOLEAN /\ noSparse \in BOOLEAN
      /\ End \in Nat /\ at \in 0..End /\ attr.skip \in Nat /\ skipRemain \in 0..attr.skip
      /\ idx \in Nat /\ run \in Nat \ {0} /\ BlockSize \in Nat \ {0}
      /\ InSequence(chunks, noSparse, End) /\ HoldBytes(chunks, attr, slack, given)
      /\ chunks \in Seq(ChunkType)
      /\ EndOfChunks(chunks) <= at /\ (noSparse \/ EndOfChunks(chunks) = at)
  BY <1>1, WalkFacts
<1>4. End = attr.size
  BY <1>1 DEF End
<1>5. n \in Nat /\ at + n <= End
  BY <1>1, <1>3, <1>4 DEF Least
<1> HIDE DEF n
<1>6. /\ c.off = at /\ c.bytes \in Seq(Int) /\ Len(c.bytes) = n
      /\ \A k \in 1..n : c.bytes[k] = at + k - 1
  <2> DEFINE f == [k \in 1..n |-> at + k - 1]
  <2>1. f \in [1..n -> Int]
    BY <1>3, <1>5
  <2>2. f \in Seq(Int) /\ Len(f) = n
    BY <1>5, <2>1, SeqDef, LenProperties
  <2> QED BY <2>1, <2>2 DEF Chunk
<1>7. c \in ChunkType
  BY <1>3, <1>6 DEF Chunk, ChunkType
<1>8. \A k \in 1..n : ChunkByte(attr, slack, given, c.off + k - 1, c.bytes[k])
  BY <1>1, <1>6 DEF ChunkByte, FileByte
<1> HIDE DEF c
<1>9. /\ Append(chunks, c) \in Seq(ChunkType)
      /\ InSequence(Append(chunks, c), noSparse, End)
      /\ HoldBytes(Append(chunks, c), attr, slack, given)
      /\ EndOfChunks(Append(chunks, c)) = at + n
  BY <1>3, <1>5, <1>6, <1>7, <1>8, ChunkIsAdded
<1>10. /\ pc' \in {"walk", "walked"} /\ result' \in {0, 1} /\ (pc' = "walk" => result' = 0)
  BY <1>1, <1>2, EndsWalk
<1>11. attr' = attr
  BY <1>1 DEF call
<1>12. WalkInv'
  <2>1. EndOfChunks(chunks') = at'
    BY <1>1, <1>9
  <2>2. EndOfChunks(chunks') <= at'
    BY <1>1, <1>3, <1>5, <2>1
  <2> QED BY <1>1, <1>9, <1>10, <1>11, <2>1, <2>2 DEF WalkInv
<1>13. at' \in 0..End /\ run' \in Nat \ {0} /\ idx' \in Nat /\ skipRemain' \in 0..attr.skip
  BY <1>1, <1>3, <1>5
<1>14. UNCHANGED <<call, reading, noSparse, list>>
  BY <1>1
<1>15. InSequence(chunks', noSparse, End) /\ HoldBytes(chunks', attr, slack, given)
  BY <1>1, <1>9
<1> QED BY <1>1, <1>10, <1>12, <1>13, <1>14, <1>15, WalkGoesOn

\* The block that a walk is at.
LEMMA WalkPosition ==
  ASSUME PathInv, ListInv, InBlocks
  PROVE  /\ pc = "walk" /\ ~attr.resident /\ attr.runs = runs /\ run \in 1..Len(runs)
         /\ Cur = runs[run] /\ Cur \in List!Runs /\ Cur.offset \in Nat /\ Cur.addr \in Nat
         /\ idx \in Nat /\ idx < Cur.len /\ (skipRemain > 0 => at = 0)
         /\ (Cur.offset + idx) * BlockSize = at + attr.skip - skipRemain
         /\ Len(runs) \in Nat
<1>1. pc = "walk" /\ ~attr.resident /\ run <= Len(attr.runs)
  BY DEF InBlocks, Walking
<1>2. attr.runs = runs
  BY <1>1 DEF PathInv, AttrInv
<1>3. /\ run \in 1..(Len(runs) + 1) /\ (skipRemain > 0 => at = 0)
      /\ run <= Len(runs) => /\ idx < runs[run].len
                             /\ (runs[run].offset + idx) * BlockSize = at + attr.skip - skipRemain
  BY <1>1 DEF PathInv, WalkInv
<1>4. Good(runs) /\ Len(runs) \in Nat
  BY GoodIsTyped DEF ListInv
<1>5. run \in 1..Len(runs) /\ Cur = runs[run]
  BY <1>1, <1>2, <1>3, <1>4 DEF Cur
<1>6. Cur \in List!Runs /\ Cur.offset \in Nat /\ Cur.addr \in Nat
  BY <1>4, <1>5, GoodIsTyped, RunsAreTyped
<1>7. idx \in Nat
  BY DEF PathInv, CallInv
<1> QED BY <1>1, <1>2, <1>3, <1>4, <1>5, <1>6, <1>7

\* The next block is the next of the file.
LEMMA NextBlockFollows ==
  ASSUME PathInv, ListInv, InBlocks, NextBlock, UNCHANGED list
  PROVE  /\ run' \in 1..(Len(runs') + 1) /\ idx' \in Nat
         /\ run' <= Len(runs') =>
              /\ idx' < runs'[run'].len
              /\ (runs'[run'].offset + idx') * BlockSize
                   = ((Cur.offset + idx) * BlockSize) + BlockSize
<1>1. /\ run \in 1..Len(runs) /\ Cur = runs[run] /\ Cur.offset \in Nat /\ idx \in Nat
      /\ idx < Cur.len /\ Len(runs) \in Nat
  BY WalkPosition
<1>2. Cur.len \in Nat
  BY <1>1, GoodIsTyped DEF ListInv
<1>3. runs' = runs
  BY DEF list
<1>4. run' \in 1..(Len(runs) + 1) /\ idx' \in Nat
  BY <1>1 DEF NextBlock
<1>5. run' <= Len(runs) =>
        idx' < runs[run'].len /\ runs[run'].offset + idx' = (Cur.offset + idx) + 1
  <2> SUFFICES ASSUME run' <= Len(runs)
               PROVE  idx' < runs[run'].len /\ runs[run'].offset + idx' = (Cur.offset + idx) + 1
    OBVIOUS
  <2>1. CASE idx + 1 < Cur.len
    <3>1. idx' = idx + 1 /\ run' = run
      BY <2>1 DEF NextBlock
    <3> QED BY <1>1, <2>1, <3>1
  <2>2. CASE ~(idx + 1 < Cur.len)
    <3>1. idx' = 0 /\ run' = run + 1
      BY <2>2 DEF NextBlock
    <3>2. run' \in 1..Len(runs) /\ run' > 1 /\ run' - 1 = run
      BY <1>1, <3>1
    <3>3. runs[run'].offset = List!EndOf(Cur)
      BY <1>1, <3>2, WhereRunsBegin
    <3>4. List!EndOf(Cur) = Cur.offset + idx + 1
      BY <1>1, <1>2, <2>2 DEF List!EndOf
    <3>5. runs[run'].len \in Nat \ {0}
      BY <3>2, GoodIsTyped DEF ListInv
    <3> QED BY <1>1, <3>1, <3>3, <3>4, <3>5
  <2> QED BY <2>1, <2>2
<1>6. ((Cur.offset + idx) + 1) * BlockSize = ((Cur.offset + idx) * BlockSize) + BlockSize
  <2> DEFINE x == Cur.offset + idx
  <2>1. x \in Nat /\ 1 \in Nat
    BY <1>1
  <2> HIDE DEF x
  <2>2. (x + 1) * BlockSize = (x * BlockSize) + (1 * BlockSize)
    BY <2>1, BlocksInOrder
  <2>3. 1 * BlockSize = BlockSize
    BY BlockSizeIsPositive
  <2> QED BY <2>2, <2>3 DEF x
<1> QED BY <1>3, <1>4, <1>5, <1>6

LEMMA SkipBlockKeeps ==
  ASSUME Ordinary, PathInv, ListInv, SkipBlock, UNCHANGED list PROVE PathInv'
<1>1. /\ InBlocks /\ skipRemain >= BlockSize /\ skipRemain' = skipRemain - BlockSize /\ NextBlock
      /\ UNCHANGED <<call, reading, pc, result, noSparse, at, chunks, list>>
  BY DEF SkipBlock
<1>2. /\ pc = "walk" /\ ~attr.resident /\ (skipRemain > 0 => at = 0)
      /\ (Cur.offset + idx) * BlockSize = at + attr.skip - skipRemain
      /\ Cur.offset \in Nat /\ idx \in Nat
  BY <1>1, WalkPosition
<1>3. /\ at \in 0..End /\ attr.skip \in Nat /\ skipRemain \in 0..attr.skip /\ End \in Nat
      /\ BlockSize \in Nat \ {0} /\ chunks \in Seq(ChunkType)
      /\ InSequence(chunks, noSparse, End) /\ HoldBytes(chunks, attr, slack, given)
      /\ EndOfChunks(chunks) <= at /\ (noSparse \/ EndOfChunks(chunks) = at)
  BY <1>2, WalkFacts
<1>4. /\ run' \in 1..(Len(runs') + 1) /\ idx' \in Nat
      /\ run' <= Len(runs') =>
           /\ idx' < runs'[run'].len
           /\ (runs'[run'].offset + idx') * BlockSize
                = ((Cur.offset + idx) * BlockSize) + BlockSize
  BY <1>1, NextBlockFollows
<1>5. /\ attr' = attr /\ pc' = pc /\ at' = at /\ chunks' = chunks /\ noSparse' = noSparse
      /\ result' = result /\ runs' = runs
  BY <1>1 DEF call, list
<1>6. at = 0 /\ at \in Int
  BY <1>1, <1>2, <1>3
<1> DEFINE X == (Cur.offset + idx) * BlockSize
<1>7. X + BlockSize = at' + attr'.skip - skipRemain'
  <2>1. X = at + attr.skip - skipRemain
    BY <1>2
  <2> HIDE DEF X
  <2> QED BY <1>1, <1>3, <1>5, <1>6, <2>1
<1>8. result' = 0
  <2>1. result = 0
    BY <1>2 DEF PathInv, WalkInv
  <2> QED BY <1>5, <2>1
<1>9. WalkInv'
  <2>1. run' <= Len(runs') =>
           /\ idx' < runs'[run'].len
           /\ (runs'[run'].offset + idx') * BlockSize = at' + attr'.skip - skipRemain'
    BY <1>4, <1>7
  <2> QED BY <1>3, <1>4, <1>5, <1>6, <1>8, <2>1 DEF WalkInv
<1>10. at' \in 0..End /\ run' \in Nat \ {0} /\ skipRemain' \in 0..attr.skip
  <2>1. Len(runs') \in Nat
    BY <1>1, <1>5, WalkPosition
  <2> QED BY <1>1, <1>3, <1>4, <1>5, <2>1
<1> QED BY <1>1, <1>2, <1>3, <1>4, <1>5, <1>8, <1>9, <1>10, WalkGoesOn

\* What the callback is given of a block.
LEMMA BlockHoldsBytes ==
  ASSUME Ordinary, PathInv, ListInv, InBlocks, skipRemain < BlockSize,
         NEW k \in Nat, skipRemain + k < BlockSize
  PROVE  /\ BlockByte(skipRemain + k) \in Int
         /\ ChunkByte(attr, slack, given, at + k, BlockByte(skipRemain + k))
<1>1. /\ pc = "walk" /\ ~attr.resident /\ attr.runs = runs /\ run \in 1..Len(runs)
      /\ Cur = runs[run] /\ Cur \in List!Runs /\ Cur.offset \in Nat /\ Cur.addr \in Nat
      /\ idx \in Nat /\ idx < Cur.len /\ (skipRemain > 0 => at = 0)
      /\ (Cur.offset + idx) * BlockSize = at + attr.skip - skipRemain
  BY WalkPosition
<1>2. /\ End \in Nat /\ at \in 0..End /\ attr.skip \in Nat /\ skipRemain \in 0..attr.skip
      /\ BlockSize \in Nat \ {0} /\ attr.initSize \in Nat /\ slack \in BOOLEAN
  BY <1>1, WalkFacts
<1>3. Cur.len \in Nat /\ List!EndOf(Cur) \in Nat
  BY <1>1, RunsAreTyped
<1> DEFINE o == Cur.offset   a == Cur.addr   j == skipRemain + k   p == at + k + attr.skip
<1>4. /\ (o + idx) * BlockSize = (o * BlockSize) + (idx * BlockSize)
      /\ (a + idx) * BlockSize = (a * BlockSize) + (idx * BlockSize)
      /\ ((o + idx) * BlockSize) + BlockSize <= List!EndOf(Cur) * BlockSize
  <2>1. /\ o + idx \in Nat /\ o + idx < List!EndOf(Cur)
    BY <1>1, <1>3 DEF List!EndOf
  <2>2. ((o + idx) * BlockSize) + BlockSize <= List!EndOf(Cur) * BlockSize
    BY <1>3, <2>1, BlocksInOrder
  <2> QED BY <1>1, <2>2, BlocksInOrder
<1> DEFINE oB == o * BlockSize   iB == idx * BlockSize   aB == a * BlockSize
           eB == List!EndOf(Cur) * BlockSize
<1>5. oB \in Nat /\ iB \in Nat /\ aB \in Nat /\ eB \in Nat
  BY <1>1, <1>3, BlocksInOrder
<1>6. /\ oB + iB = at + attr.skip - skipRemain /\ (oB + iB) + BlockSize <= eB
      /\ BlockAddr * BlockSize = aB + iB
  BY <1>1, <1>4 DEF BlockAddr
<1> HIDE DEF oB, iB, aB, eB
<1>7. j \in Nat /\ p \in Nat /\ p = oB + iB + j /\ oB <= p /\ p < eB
  BY <1>2, <1>5, <1>6
<1> HIDE DEF j, p
<1>8. DiskByte(given, p, RunByte(Cur, p))
  BY <1>1, <1>7, ByteOfList DEF oB, eB, o
<1>9. RunByte(Cur, p) = IF Cur.kind = "data" THEN (BlockAddr * BlockSize) + j ELSE Zero
  <2>1. aB + (p - oB) = (BlockAddr * BlockSize) + j
    BY <1>5, <1>6, <1>7
  <2> QED BY <2>1 DEF RunByte, aB, oB, o, a
<1>10. (at + k) + attr.skip = p /\ at + k \in Nat
  BY <1>2 DEF p
<1>11. (BlockAddr * BlockSize) + j \in Int /\ Zero \in Int
  BY <1>5, <1>6, <1>7 DEF Zero
<1> DEFINE b == BlockByte(skipRemain + k)   past == ~slack /\ at + k >= attr.initSize
<1>12. b = IF BlockIsZeros \/ (~slack /\ at + j >= attr.initSize) THEN Zero
           ELSE (BlockAddr * BlockSize) + j
  BY DEF BlockByte, j
<1> SUFFICES b \in Int /\ ChunkByte(attr, slack, given, at + k, b)
  OBVIOUS
<1> HIDE DEF b
<1>13. b \in Int
  BY <1>11, <1>12
<1>14. past => FileByte(attr, slack, given, at + k, Zero)
  BY <1>1 DEF FileByte
<1>15. CASE b = Zero /\ past
  BY <1>1, <1>13, <1>14, <1>15 DEF ChunkByte
<1>16. CASE Cur.kind # "data" /\ ~past
  <2>1. b = Zero
    BY <1>12, <1>16 DEF BlockIsZeros
  <2>2. DiskByte(given, (at + k) + attr.skip, b)
    BY <1>8, <1>9, <1>10, <1>16, <2>1
  <2> QED BY <1>1, <1>13, <1>16, <2>2 DEF ChunkByte
<1>17. CASE Cur.kind = "data" /\ ~past /\ ~slack /\ at + j >= attr.initSize
  <2>1. b = Zero
    BY <1>12, <1>17
  <2>2. skipRemain > 0 /\ attr.skip > 0 /\ (at + k) + attr.skip >= attr.initSize
    BY <1>2, <1>17 DEF j
  <2> QED BY <1>1, <1>13, <1>17, <2>1, <2>2 DEF ChunkByte
<1>18. CASE Cur.kind = "data" /\ ~past /\ (slack \/ ~(at + j >= attr.initSize))
  <2>1. ~BlockIsZeros
    <3>1. at <= at + k
      BY <1>2
    <3>2. ~slack => ~(at >= attr.initSize)
      BY <1>2, <1>18, <3>1
    <3> QED BY <1>18, <3>2 DEF BlockIsZeros
  <2>2. b = (BlockAddr * BlockSize) + j
    BY <1>12, <1>18, <2>1
  <2>3. DiskByte(given, (at + k) + attr.skip, b)
    BY <1>8, <1>9, <1>10, <1>18, <2>2
  <2> QED BY <1>1, <1>13, <1>18, <2>3 DEF ChunkByte
<1>19. past => b = Zero
  <2> SUFFICES ASSUME past PROVE b = Zero
    OBVIOUS
  <2>1. at + j >= attr.initSize
    BY <1>2, <1>7 DEF j
  <2> QED BY <1>12, <2>1
<1> QED BY <1>2, <1>13, <1>15, <1>16, <1>17, <1>18, <1>19

LEMMA GiveBlockKeeps ==
  ASSUME Ordinary, PathInv, ListInv, GiveBlock, UNCHANGED list PROVE PathInv'
<1> DEFINE n == Least(BlockSize - skipRemain, End - at)
           c == Chunk([k \in 1..n |-> BlockByte(skipRemain + k - 1)])
<1>1. /\ InBlocks /\ skipRemain < BlockSize /\ at' = at + n /\ skipRemain' = 0 /\ NextBlock
      /\ UNCHANGED <<call, reading, noSparse, list>>
  BY DEF GiveBlock
<1>2. \/ noSparse /\ Ends("continue", n) /\ chunks' = chunks
      \/ chunks' = Append(chunks, c) /\ \E a \in Answers : Ends(a, n)
  BY DEF GiveBlock
<1>3. /\ pc = "walk" /\ ~attr.resident /\ (skipRemain > 0 => at = 0)
      /\ (Cur.offset + idx) * BlockSize = at + attr.skip - skipRemain /\ Len(runs) \in Nat
  BY <1>1, WalkPosition
<1>4. /\ at \in 0..End /\ attr.skip \in Nat /\ skipRemain \in 0..attr.skip /\ End \in Nat
      /\ BlockSize \in Nat \ {0} /\ chunks \in Seq(ChunkType) /\ noSparse \in BOOLEAN
      /\ InSequence(chunks, noSparse, End) /\ HoldBytes(chunks, attr, slack, given)
      /\ EndOfChunks(chunks) <= at /\ (noSparse \/ EndOfChunks(chunks) = at)
  BY <1>3, WalkFacts
<1>5. /\ run' \in 1..(Len(runs') + 1) /\ idx' \in Nat
      /\ run' <= Len(runs') =>
           /\ idx' < runs'[run'].len
           /\ (runs'[run'].offset + idx') * BlockSize
                = ((Cur.offset + idx) * BlockSize) + BlockSize
  BY <1>1, NextBlockFollows
<1>6. attr' = attr /\ noSparse' = noSparse /\ runs' = runs
  BY <1>1 DEF call, list
<1>7. n \in Nat /\ at + n <= End /\ n <= BlockSize - skipRemain
      /\ (n = BlockSize - skipRemain \/ at + n = End)
  BY <1>1, <1>4 DEF Least
<1> HIDE DEF n
<1>8. /\ pc' \in {"walk", "walked"} /\ result' \in {0, 1}
      /\ pc' = "walk" => result' = 0 /\ ~(at + n >= End)
  <2>1. "continue" \in Answers
    BY DEF Answers
  <2> QED BY <1>2, <1>3, <2>1, EndsWalk
<1>9. ASSUME NEW k \in 1..n
      PROVE  /\ BlockByte(skipRemain + k - 1) \in Int
             /\ ChunkByte(attr, slack, given, at + k - 1, BlockByte(skipRemain + k - 1))
  <2> DEFINE j == k - 1
  <2>1. j \in Nat /\ skipRemain + j < BlockSize
    BY <1>4, <1>7
  <2>2. skipRemain + k - 1 = skipRemain + j /\ at + k - 1 = at + j
    BY <1>4
  <2> HIDE DEF j
  <2>3. /\ BlockByte(skipRemain + j) \in Int
        /\ ChunkByte(attr, slack, given, at + j, BlockByte(skipRemain + j))
    BY <1>1, <2>1, BlockHoldsBytes
  <2> QED BY <2>2, <2>3
<1>10. /\ c.off = at /\ c.bytes \in Seq(Int) /\ Len(c.bytes) = n
       /\ \A k \in 1..n : c.bytes[k] = BlockByte(skipRemain + k - 1)
  <2> DEFINE f == [k \in 1..n |-> BlockByte(skipRemain + k - 1)]
  <2>1. f \in [1..n -> Int]
    BY <1>9
  <2>2. f \in Seq(Int) /\ Len(f) = n
    BY <1>7, <2>1, SeqDef, LenProperties
  <2> QED BY <2>1, <2>2 DEF Chunk
<1>11. c \in ChunkType
  BY <1>4, <1>10 DEF Chunk, ChunkType
<1>12. \A k \in 1..n : ChunkByte(attr, slack, given, c.off + k - 1, c.bytes[k])
  BY <1>9, <1>10
<1> HIDE DEF c
<1>13. /\ Append(chunks, c) \in Seq(ChunkType)
       /\ InSequence(Append(chunks, c), noSparse, End)
       /\ HoldBytes(Append(chunks, c), attr, slack, given)
       /\ EndOfChunks(Append(chunks, c)) = at + n
  BY <1>4, <1>7, <1>10, <1>11, <1>12, ChunkIsAdded
<1>14. /\ chunks' \in Seq(ChunkType)
       /\ InSequence(chunks', noSparse, End) /\ HoldBytes(chunks', attr, slack, given)
       /\ EndOfChunks(chunks') <= at' /\ (noSparse \/ EndOfChunks(chunks') = at')
  <2>1. CASE noSparse /\ chunks' = chunks
    <3>1. EndOfChunks(chunks) \in Int
      <4>1. chunks # << >> => chunks[Len(chunks)] \in ChunkType
        BY <1>4, LenProperties, EmptySeq, ElementOfSeq
      <4> QED BY <4>1, LenProperties DEF EndOfChunks, ChunkType
    <3>2. EndOfChunks(chunks) <= at + n
      BY <1>4, <1>7, <3>1
    <3> QED BY <1>1, <1>4, <2>1, <3>2
  <2>2. CASE chunks' = Append(chunks, c)
    BY <1>1, <1>4, <1>7, <1>13, <2>2
  <2> QED BY <1>2, <2>1, <2>2
<1> DEFINE X == (Cur.offset + idx) * BlockSize
<1>15. pc' = "walk" => X + BlockSize = at' + attr'.skip - skipRemain'
  <2> SUFFICES ASSUME pc' = "walk" PROVE X + BlockSize = at' + attr'.skip - skipRemain'
    OBVIOUS
  <2>1. n = BlockSize - skipRemain
    BY <1>4, <1>7, <1>8
  <2>2. X = at + attr.skip - skipRemain
    BY <1>3
  <2> HIDE DEF X
  <2> QED BY <1>1, <1>4, <1>6, <2>1, <2>2
<1>16. WalkInv'
  <2>1. pc' = "walk" /\ run' <= Len(runs') =>
           /\ idx' < runs'[run'].len
           /\ (runs'[run'].offset + idx') * BlockSize = at' + attr'.skip - skipRemain'
    BY <1>5, <1>15
  <2>2. ~(skipRemain' > 0)
    BY <1>1
  <2> QED BY <1>5, <1>6, <1>8, <1>14, <2>1, <2>2 DEF WalkInv
<1>17. at' \in 0..End /\ run' \in Nat \ {0} /\ skipRemain' \in 0..attr.skip
  <2>1. Len(runs') \in Nat
    BY <1>3, <1>6
  <2>2. at' \in 0..End
    BY <1>1, <1>4, <1>7
  <2>3. skipRemain' \in 0..attr.skip
    BY <1>1, <1>4
  <2>4. run' \in Nat \ {0}
    BY <1>5, <2>1
  <2> QED BY <2>2, <2>3, <2>4
<1>18. pc' = "walk" => result' = 0
  BY <1>8
<1> QED BY <1>1, <1>3, <1>5, <1>8, <1>14, <1>16, <1>17, <1>18, WalkGoesOn

-----------------------------------------------------------------------------
(* The invariant holds *)

\* Before a read or a walk nothing is to be shown of either.
LEMMA BeforeTheCall ==
  ASSUME AttrInv', CallInv', WalkInv', pc' \in {"parse", "open", "start"} PROVE PathInv'
<1>1. RunsInv' /\ ReadsWhatWasGiven' /\ ReadsAreFull'
  BY DEF RunsInv, ReadsWhatWasGiven, ReadsAreFull
<1>2. chunks' = << >>
  BY DEF CallInv
<1>3. 1..Len(chunks') = {}
  BY <1>2
<1>4. WalkGivesTheFile'
  BY <1>3 DEF WalkGivesTheFile
<1> QED BY <1>1, <1>4 DEF PathInv

LEMMA NothingIsRead == << >> \in [1..0 -> Int]
<1>1. << >> \in Seq(Int) /\ Len(<< >>) = 0
  BY EmptySeq
<1> QED BY <1>1, LenProperties

LEMMA PathInitHolds == PathInit => PathInv
<1> SUFFICES ASSUME PathInit PROVE PathInv
  OBVIOUS
<1>1. /\ attr = NoAttr /\ off = 0 /\ len = 0 /\ slack = FALSE /\ pc = "parse"
      /\ run = 1 /\ byteOff = 0 /\ want = 0 /\ remain = 0 /\ buf = << >> /\ result = 0
      /\ noSparse = FALSE /\ idx = 0 /\ at = 0 /\ skipRemain = 0 /\ chunks = << >>
  BY DEF PathInit, WalkInit
<1>2. AttrInv
  BY <1>1 DEF AttrInv, NoAttr
<1>3. CallInv
  <2>1. End \in Nat /\ attr.skip \in Nat
    BY <1>1, <1>2 DEF End, AttrInv
  <2>2. ReadTypeOK
    BY <1>1, NothingIsRead, BlockSizeIsPositive DEF ReadTypeOK
  <2>3. 0 \in 0..End /\ 0 \in 0..attr.skip /\ 0 \in -1..0
    BY <2>1
  <2> QED BY <1>1, <2>2, <2>3 DEF CallInv
<1>4. WalkInv
  BY <1>1 DEF WalkInv
<1>5. RunsInv /\ ReadsWhatWasGiven /\ ReadsAreFull
  BY <1>1 DEF RunsInv, ReadsWhatWasGiven, ReadsAreFull
<1>6. 1..Len(chunks) = {}
  BY <1>1
<1>7. WalkGivesTheFile
  BY <1>6 DEF WalkGivesTheFile
<1> QED BY <1>2, <1>3, <1>4, <1>5, <1>7 DEF PathInv

LEMMA ParseKeeps == ASSUME PathInv, Parse PROVE PathInv'
<1>1. pc = "parse" /\ UNCHANGED <<vars, walk>>
  BY DEF Parse
<1>2. /\ attr' = attr /\ off' = off /\ len' = len /\ slack' = slack /\ pc' = pc
      /\ run' = run /\ byteOff' = byteOff /\ want' = want /\ remain' = remain /\ buf' = buf
      /\ result' = result /\ noSparse' = noSparse /\ idx' = idx /\ at' = at
      /\ skipRemain' = skipRemain /\ chunks' = chunks
  BY <1>1 DEF vars, walk
<1>3. AttrInv'
  BY <1>1, <1>2 DEF PathInv, AttrInv
<1>4. CallInv'
  <2>1. End' = End
    BY <1>2 DEF End
  <2>2. ReadTypeOK'
    BY <1>2 DEF PathInv, CallInv, ReadTypeOK
  <2> QED BY <1>2, <2>1, <2>2 DEF PathInv, CallInv
<1>5. WalkInv'
  BY <1>1, <1>2 DEF PathInv, WalkInv
<1> QED BY <1>1, <1>2, <1>3, <1>4, <1>5, BeforeTheCall

LEMMA OpenKeeps ==
  ASSUME PathInv, NEW a, Open(a),
         a.resident \in BOOLEAN, a.size \in Nat, a.allocSize \in Nat, a.initSize \in Nat,
         a.skip \in Nat, a.size <= a.allocSize, a.resident \/ a.runs = runs
  PROVE  PathInv'
<1>1. /\ pc = "parse" /\ attr' = a /\ pc' = "open"
      /\ off' = off /\ len' = len /\ slack' = slack /\ run' = run /\ byteOff' = byteOff
      /\ want' = want /\ remain' = remain /\ buf' = buf /\ result' = result
      /\ noSparse' = noSparse /\ idx' = idx /\ at' = at /\ skipRemain' = skipRemain
      /\ chunks' = chunks /\ runs' = runs
  BY DEF Open, walk, list
<1>2. AttrInv'
  BY <1>1 DEF AttrInv
<1>3. /\ off \in Nat /\ len \in Nat /\ slack \in BOOLEAN /\ noSparse \in BOOLEAN /\ ReadTypeOK
      /\ idx \in Nat /\ want = 0 /\ remain = 0 /\ result = 0 /\ at = 0 /\ skipRemain = 0
      /\ chunks = << >>
  BY <1>1 DEF PathInv, CallInv
<1>4. CallInv'
  <2>1. End' \in Nat
    BY <1>1, <1>2, <1>3 DEF End, AttrInv
  <2>2. ReadTypeOK'
    BY <1>1, <1>3 DEF ReadTypeOK
  <2>3. at' \in 0..End' /\ skipRemain' \in 0..attr'.skip
    BY <1>1, <1>3, <2>1
  <2> QED BY <1>1, <1>3, <2>2, <2>3 DEF CallInv
<1>5. WalkInv'
  BY <1>1, <1>3 DEF WalkInv
<1> QED BY <1>1, <1>2, <1>4, <1>5, BeforeTheCall

LEMMA OpenAnyKeeps == ASSUME PathInv, OpenAny PROVE PathInv'
<1>1. CASE \E a \in Attributes : ~set /\ Open(a)
  <2>1. PICK a \in Attributes : Open(a)
    BY <1>1
  <2>2. /\ a.resident /\ a.resident \in BOOLEAN /\ a.size \in Nat /\ a.allocSize \in Nat
        /\ a.initSize \in Nat /\ a.skip \in Nat /\ a.size <= a.allocSize
    BY AttributesAssumption, ResidentAssumption
  <2> QED BY <2>1, <2>2, OpenKeeps
<1>2. ASSUME NEW h \in Headers,
             Open([resident |-> FALSE, size |-> h.size, allocSize |-> h.allocSize,
                   initSize |-> h.initSize, skip |-> h.skip, runs |-> runs])
      PROVE  PathInv'
  <2> DEFINE a == [resident |-> FALSE, size |-> h.size, allocSize |-> h.allocSize,
                   initSize |-> h.initSize, skip |-> h.skip, runs |-> runs]
  <2>1. /\ a.resident \in BOOLEAN /\ a.size \in Nat /\ a.allocSize \in Nat
        /\ a.initSize \in Nat /\ a.skip \in Nat /\ a.size <= a.allocSize /\ a.runs = runs
    BY HeadersAssumption
  <2>2. Open(a)
    BY <1>2
  <2> HIDE DEF a
  <2> QED BY <2>1, <2>2, OpenKeeps
<1> QED BY <1>1, <1>2 DEF OpenAny

LEMMA AskKeeps == ASSUME PathInv, Ask PROVE PathInv'
<1>1. /\ pc = "open" /\ pc' = "start" /\ off' \in Offsets /\ len' \in Lengths /\ slack' \in BOOLEAN
      /\ buf' = [p \in 1..len' |-> Stale]
      /\ attr' = attr /\ run' = run /\ byteOff' = byteOff /\ want' = want /\ remain' = remain
      /\ result' = result /\ noSparse' = noSparse /\ idx' = idx /\ at' = at
      /\ skipRemain' = skipRemain /\ chunks' = chunks /\ runs' = runs
  BY DEF Ask, walk, list
<1>2. off' \in Nat /\ len' \in Nat
  BY <1>1, ReadAssumption
<1>3. AttrInv'
  BY <1>1 DEF PathInv, AttrInv
<1>4. /\ noSparse \in BOOLEAN /\ idx \in Nat /\ want = 0 /\ remain = 0 /\ result = 0
      /\ at = 0 /\ skipRemain = 0 /\ chunks = << >>
      /\ run \in Nat \ {0} /\ byteOff \in 0..(BlockSize - 1)
  BY <1>1 DEF PathInv, CallInv, ReadTypeOK
<1>5. CallInv'
  <2>1. End' \in Nat /\ attr'.skip \in Nat
    BY <1>1, <1>3 DEF End, AttrInv
  <2>2. Stale \in Int
    BY DEF Stale
  <2>3. buf' \in [1..len' -> Int]
    BY <1>1, <2>2
  <2>4. ReadTypeOK'
    BY <1>1, <1>2, <1>4, <2>3 DEF ReadTypeOK
  <2>5. at' \in 0..End' /\ skipRemain' \in 0..attr'.skip /\ result' \in -1..len'
    BY <1>1, <1>2, <1>4, <2>1
  <2> QED BY <1>1, <1>2, <1>4, <2>4, <2>5 DEF CallInv
<1>6. WalkInv'
  BY <1>1, <1>4 DEF WalkInv
<1> QED BY <1>1, <1>3, <1>5, <1>6, BeforeTheCall

LEMMA ReadKeeps == ASSUME PathInv, ListInv, Read PROVE PathInv'
<1>1. ReadNext /\ UNCHANGED <<walk, list>>
  BY DEF Read
<1>2. CASE RefuseOffset
  BY <1>1, <1>2, RefuseOffsetKeeps
<1>3. CASE ReadResident
  BY <1>1, <1>3, ReadResidentKeeps
<1>4. CASE StartRuns
  BY <1>1, <1>4, StartRunsKeeps
<1>5. CASE SkipRun
  BY <1>1, <1>5, SkipRunKeeps
<1>6. CASE ZeroRun
  BY <1>1, <1>6, ZeroRunKeeps
<1>7. CASE ReadRun
  BY <1>1, <1>7, ReadRunKeeps
<1>8. CASE ReadRunFails
  BY <1>1, <1>8, ReadRunFailsKeeps
<1>9. CASE EndOfRuns
  BY <1>1, <1>9, EndOfRunsKeeps
<1> QED BY <1>1, <1>2, <1>3, <1>4, <1>5, <1>6, <1>7, <1>8, <1>9 DEF ReadNext

LEMMA WalkKeeps == ASSUME Ordinary, PathInv, ListInv, Walk PROVE PathInv'
<1>1. WalkNext /\ UNCHANGED list
  BY DEF Walk
<1>2. CASE BeginWalk
  BY <1>1, <1>2, BeginWalkKeeps
<1>3. CASE WalkResident
  BY <1>1, <1>3, WalkResidentKeeps
<1>4. CASE WalkBlockFails \/ WalkEnds
  BY <1>1, <1>4, WalkStops
<1>5. CASE SkipBlock
  BY <1>1, <1>5, SkipBlockKeeps
<1>6. CASE GiveBlock
  BY <1>1, <1>6, GiveBlockKeeps
<1> QED BY <1>1, <1>2, <1>3, <1>4, <1>5, <1>6 DEF WalkNext

LEMMA PathStutters == ASSUME PathInv, UNCHANGED pathVars PROVE PathInv'
<1>1. /\ attr' = attr /\ off' = off /\ len' = len /\ slack' = slack /\ pc' = pc
      /\ run' = run /\ byteOff' = byteOff /\ want' = want /\ remain' = remain /\ buf' = buf
      /\ result' = result /\ noSparse' = noSparse /\ idx' = idx /\ at' = at
      /\ skipRemain' = skipRemain /\ chunks' = chunks /\ runs' = runs /\ given' = given
      /\ Ordinary' = Ordinary
  BY DEF pathVars, vars, walk, list, Ordinary, List!Apart
<1>2. AttrInv' /\ CallInv' /\ WalkInv'
  <2>1. End' = End
    BY <1>1 DEF End
  <2>2. ReadTypeOK'
    BY <1>1 DEF PathInv, CallInv, ReadTypeOK
  <2>3. CallInv'
    BY <1>1, <2>1, <2>2 DEF PathInv, CallInv
  <2> QED BY <1>1, <2>3 DEF PathInv, AttrInv, WalkInv
<1>3. RunsInv'
  BY <1>1 DEF PathInv, RunsInv, End, Fresh, Inside, Covered, Block
<1>4. ReadsWhatWasGiven' /\ ReadsAreFull'
  BY <1>1 DEF PathInv, ReadsWhatWasGiven, ReadsAreFull, End, ReadFailed, Covered,
              IsByte, IsDiskByte, PastInitSize
<1>5. WalkGivesTheFile'
  BY <1>1, SMTT(30) DEF PathInv, WalkGivesTheFile, End, IsByte, IsDiskByte, PastInitSize
<1> QED BY <1>2, <1>3, <1>4, <1>5 DEF PathInv

PathIsSound == Ordinary => PathInv

LEMMA PathInvHolds == PathSpec => []PathIsSound
<1>1. PathInit => PathIsSound
  BY PathInitHolds DEF PathIsSound
<1>2. ListTypes /\ ListIsSound /\ PathIsSound /\ [PathNext]_pathVars => PathIsSound'
  <2> SUFFICES ASSUME ListTypes, ListIsSound, PathIsSound, [PathNext]_pathVars, Ordinary'
               PROVE  PathInv'
    BY DEF PathIsSound
  <2>0. Ordinary /\ ListInv /\ PathInv
    BY OrdinaryBefore DEF ListIsSound, PathIsSound
  <2>1. CASE Parse
    BY <2>0, <2>1, ParseKeeps
  <2>2. CASE OpenAny
    BY <2>0, <2>2, OpenAnyKeeps
  <2>3. CASE Ask
    BY <2>0, <2>3, AskKeeps
  <2>4. CASE Read
    BY <2>0, <2>4, ReadKeeps
  <2>5. CASE Walk
    BY <2>0, <2>5, WalkKeeps
  <2>6. CASE UNCHANGED pathVars
    BY <2>0, <2>6, PathStutters
  <2> QED BY <2>1, <2>2, <2>3, <2>4, <2>5, <2>6 DEF PathNext
<1> QED BY <1>1, <1>2, ListTypesHold, ListInvHolds, PTL DEF PathSpec

\* tsk_fs_attr_read counts only bytes of the file at the offset asked for: of an
\* ordinary file from where its chains are on the disk, in whatever order they
\* were met, or zeros.
THEOREM ReadsAreRight == PathSpec => []ReadsWhatWasGiven
<1>1. PathIsSound => ReadsWhatWasGiven
  BY DEF PathIsSound, PathInv, ReadsWhatWasGiven
<1> QED BY <1>1, PathInvHolds, PTL

\* A read of tsk_fs_attr_read that meets no error returns all that was asked for
\* of an ordinary file, up to the end of the attribute or of its runs.
THEOREM FullReads == PathSpec => []ReadsAreFull
<1>1. PathIsSound => ReadsAreFull
  BY DEF PathIsSound, PathInv, ReadsAreFull
<1> QED BY <1>1, PathInvHolds, PTL

\* tsk_fs_attr_walk gives its callback the same bytes of an ordinary file, whole
\* and in order.
THEOREM WalksAreRight == PathSpec => []WalkGivesTheFile
<1>1. PathIsSound => WalkGivesTheFile
  BY DEF PathIsSound, PathInv, WalkGivesTheFile
<1> QED BY <1>1, PathInvHolds, PTL

-----------------------------------------------------------------------------
(* Types, for a file that is ordinary or not *)

CallTypes ==
  ListTypes /\ AttrInv /\ CallInv /\ (pc = "runs" => ~attr.resident)

\* A step of a read.
LEMMA ReadIsTyped ==
  ASSUME CallTypes, pc \in {"start", "runs"}, pc' \in {"runs", "done"},
         pc' = "runs" => ~attr.resident,
         UNCHANGED <<call, walk, list>>,
         run' \in Nat \ {0}, byteOff' \in 0..(BlockSize - 1),
         want' \in 0..len, remain' \in 0..want', buf' \in [1..len -> Int],
         result' \in -1..len
  PROVE  CallTypes'
<1>1. /\ attr' = attr /\ off' = off /\ len' = len /\ slack' = slack /\ runs' = runs
      /\ noSparse' = noSparse /\ idx' = idx /\ at' = at /\ skipRemain' = skipRemain
      /\ chunks' = chunks
  BY DEF call, walk, list
<1>2. AttrInv'
  BY <1>1 DEF CallTypes, AttrInv
<1>3. ReadTypeOK'
  BY <1>1 DEF ReadTypeOK
<1>4. End' = End
  BY <1>1 DEF End
<1>5. /\ off \in Nat /\ len \in Nat /\ slack \in BOOLEAN /\ noSparse \in BOOLEAN
      /\ idx \in Nat /\ at = 0 /\ skipRemain = 0 /\ chunks = << >>
      /\ at \in 0..End /\ skipRemain \in 0..attr.skip
  BY DEF CallTypes, CallInv
<1>6. CallInv'
  BY <1>1, <1>3, <1>4, <1>5 DEF CallInv
<1>7. ListTypes'
  BY ListTypesStay DEF CallTypes
<1> QED BY <1>1, <1>2, <1>6, <1>7 DEF CallTypes

\* The run that a read looks at.
LEMMA RunToRead ==
  ASSUME CallTypes, InRuns
  PROVE  /\ Cur \in List!Runs /\ Cur.len > 0 /\ remain \in Nat \ {0} /\ run \in Nat \ {0}
         /\ off \in Nat /\ len \in Nat /\ byteOff \in 0..(BlockSize - 1)
         /\ want \in 0..len /\ remain \in 0..want /\ buf \in [1..len -> Int]
         /\ result \in -1..len /\ pc = "runs" /\ ~attr.resident
<1>1. pc = "runs" /\ remain > 0 /\ run <= Len(attr.runs) /\ ~attr.resident
  BY DEF InRuns, CallTypes
<1>2. attr.runs = runs /\ runs \in Seq(WideRuns) /\ Len(runs) \in Nat
  BY <1>1, LenProperties DEF CallTypes, AttrInv, ListTypes
<1>3. /\ off \in Nat /\ len \in Nat /\ byteOff \in 0..(BlockSize - 1)
      /\ want \in 0..len /\ remain \in 0..want /\ buf \in [1..len -> Int]
      /\ run \in Nat \ {0} /\ result \in -1..len
  BY <1>1 DEF CallTypes, CallInv, ReadTypeOK
<1>4. run \in 1..Len(runs)
  BY <1>1, <1>2, <1>3
<1>5. Cur \in WideRuns
  BY <1>2, <1>4, ElementOfSeq DEF Cur
<1>6. Cur \in List!Runs /\ Cur.len > 0
  BY <1>5, ModulusIsPositive DEF WideRuns
<1> QED BY <1>1, <1>3, <1>6

LEMMA NextRunIsTyped ==
  ASSUME CallTypes, InRuns, ~Before(Cur), NextRun, UNCHANGED <<call, pc, want, result, walk, list>>,
         buf' \in [1..len -> Int]
  PROVE  CallTypes'
<1>1. /\ Cur \in List!Runs /\ Cur.len > 0 /\ remain \in Nat \ {0} /\ run \in Nat \ {0}
      /\ off \in Nat /\ len \in Nat /\ byteOff \in 0..(BlockSize - 1)
      /\ want \in 0..len /\ remain \in 0..want /\ result \in -1..len
      /\ pc = "runs" /\ ~attr.resident
  BY RunToRead
<1>2. LenInRun(Cur) \in 1..remain
  BY <1>1, RunPart
<1>3. remain' = remain - LenInRun(Cur) /\ run' = run + 1 /\ byteOff' = 0
  BY DEF NextRun
<1>4. remain' \in 0..want /\ run' \in Nat \ {0} /\ byteOff' \in 0..(BlockSize - 1)
  BY <1>1, <1>2, <1>3, BlockSizeIsPositive
<1>5. UNCHANGED <<call, walk, list>> /\ want' = want /\ result' = result /\ pc' = pc
  OBVIOUS
<1> QED BY <1>1, <1>4, <1>5, ReadIsTyped

LEMMA ZeroRunIsTyped ==
  ASSUME CallTypes, ZeroRun, UNCHANGED <<walk, list>> PROVE CallTypes'
<1>1. /\ InRuns /\ ~Before(Cur) /\ NextRun /\ UNCHANGED <<call, pc, want, result, walk, list>>
      /\ buf' = Filled(want - remain, LenInRun(Cur), LAMBDA k : Zero)
  BY DEF ZeroRun
<1>2. buf \in [1..len -> Int]
  BY <1>1, RunToRead
<1>3. buf' \in [1..len -> Int]
  <2>1. Zero \in Int
    BY DEF Zero
  <2> QED BY <1>1, <1>2, <2>1 DEF Filled
<1> QED BY <1>1, <1>3, NextRunIsTyped

LEMMA AddressIsNat == ASSUME CallTypes, InRuns, ~Before(Cur) PROVE Address(Cur) \in Nat
<1>1. /\ Cur \in List!Runs /\ Cur.len > 0 /\ remain \in Nat \ {0}
      /\ off \in Nat /\ byteOff \in 0..(BlockSize - 1)
  BY RunToRead
<1> QED BY <1>1, RunPart

LEMMA ReadRunIsTyped ==
  ASSUME CallTypes, ReadRun, UNCHANGED <<walk, list>> PROVE CallTypes'
<1> DEFINE d == want - remain   n == LenInRun(Cur)
<1>1. /\ InRuns /\ ~Before(Cur) /\ NextRun /\ UNCHANGED <<call, pc, want, result, walk, list>>
      /\ buf' = [p \in 1..len |-> IF d < p /\ p <= d + n THEN ByteOfRun(Cur, p - d - 1) ELSE buf[p]]
  BY DEF ReadRun, Filled
<1>2. /\ buf \in [1..len -> Int] /\ len \in Nat /\ want \in 0..len /\ remain \in 0..want
  BY <1>1, RunToRead
<1>3. \A k \in Int : ByteOfRun(Cur, k) \in Int
  <2>1. Address(Cur) \in Nat
    BY <1>1, AddressIsNat
  <2> QED BY <2>1 DEF ByteOfRun, Zero
<1>4. buf' \in [1..len -> Int]
  <2>1. \A p \in 1..len : p - d - 1 \in Int
    BY <1>2
  <2> HIDE DEF d, n
  <2> QED BY <1>1, <1>2, <1>3, <2>1
<1> QED BY <1>1, <1>4, NextRunIsTyped

LEMMA ReadRunFailsIsTyped ==
  ASSUME CallTypes, ReadRunFails, UNCHANGED <<walk, list>> PROVE CallTypes'
<1> DEFINE d == want - remain   n == LenInRun(Cur)
<1>1. /\ InRuns /\ ~Before(Cur) /\ pc' = "done"
      /\ UNCHANGED <<call, run, byteOff, want, remain, walk, list>>
  BY DEF ReadRunFails
<1>2. PICK k \in FsRead(Address(Cur), n) \ {n} :
        /\ buf' = [p \in 1..len |-> IF d < p /\ p <= d + k THEN Address(Cur) + (p - d - 1) ELSE buf[p]]
        /\ result' = k
  BY DEF ReadRunFails, Filled
<1>3. /\ Cur \in List!Runs /\ Cur.len > 0 /\ remain \in Nat \ {0} /\ run \in Nat \ {0}
      /\ off \in Nat /\ len \in Nat /\ byteOff \in 0..(BlockSize - 1)
      /\ want \in 0..len /\ remain \in 0..want /\ buf \in [1..len -> Int] /\ pc = "runs"
  BY <1>1, RunToRead
<1>4. n \in 1..remain /\ Address(Cur) \in Nat
  BY <1>1, <1>3, RunPart, AddressIsNat
<1>5. k \in -1..n
  BY <1>3, <1>4, ReadAssumption DEF FsRead, Least
<1> HIDE DEF n
<1>6. result' \in -1..len
  BY <1>2, <1>3, <1>4, <1>5
<1>7. d \in Int
  BY <1>3
<1> HIDE DEF d
<1>8. buf' \in [1..len -> Int]
  BY <1>2, <1>3, <1>4, <1>7
<1> QED BY <1>1, <1>3, <1>6, <1>8, ReadIsTyped

LEMMA SkipRunIsTyped ==
  ASSUME CallTypes, SkipRun, UNCHANGED <<walk, list>> PROVE CallTypes'
<1>1. /\ InRuns /\ run' = run + 1 /\ pc' = pc /\ result' = result /\ byteOff' = byteOff
      /\ want' = want /\ remain' = remain /\ buf' = buf /\ UNCHANGED <<call, walk, list>>
  BY DEF SkipRun
<1>2. /\ run \in Nat \ {0} /\ byteOff \in 0..(BlockSize - 1)
      /\ want \in 0..len /\ remain \in 0..want /\ buf \in [1..len -> Int]
      /\ result \in -1..len /\ pc = "runs" /\ ~attr.resident
  BY <1>1, RunToRead
<1>3. run' \in Nat \ {0}
  BY <1>1, <1>2
<1> QED BY <1>1, <1>2, <1>3, ReadIsTyped

LEMMA StartRunsIsTyped ==
  ASSUME CallTypes, StartRuns, UNCHANGED <<walk, list>> PROVE CallTypes'
<1>1. /\ pc = "start" /\ off < End /\ ~attr.resident /\ pc' = "runs" /\ run' = 1
      /\ want' = Least(len, End - off) /\ remain' = want' /\ byteOff' = off % BlockSize
      /\ buf' = [p \in 1..len |-> IF p > want' THEN Zero ELSE buf[p]]
      /\ UNCHANGED <<call, walk, list>> /\ result' = result
  BY DEF StartRuns
<1>2. /\ off \in Nat /\ len \in Nat /\ buf \in [1..len -> Int] /\ End \in Nat
      /\ result \in -1..len
  BY <1>1, EndIsNat DEF CallTypes, CallInv, ReadTypeOK
<1>3. want' \in 0..len /\ remain' \in 0..want' /\ run' \in Nat \ {0}
  BY <1>1, <1>2 DEF Least
<1>4. byteOff' \in 0..(BlockSize - 1)
  BY <1>1, <1>2, DivideByBlock
<1>5. Zero \in Int
  BY DEF Zero
<1>6. buf' \in [1..len -> Int]
  BY <1>1, <1>2, <1>5
<1> QED BY <1>1, <1>2, <1>3, <1>4, <1>6, ReadIsTyped

LEMMA ReadResidentIsTyped ==
  ASSUME CallTypes, RefuseOffset \/ ReadResident, UNCHANGED <<walk, list>> PROVE CallTypes'
<1>1. /\ pc = "start" /\ pc' = "done"
      /\ UNCHANGED <<call, run, byteOff, want, remain, walk, list>>
  BY DEF RefuseOffset, ReadResident
<1>2. /\ run \in Nat \ {0} /\ byteOff \in 0..(BlockSize - 1)
      /\ want \in 0..len /\ remain \in 0..want /\ buf \in [1..len -> Int]
      /\ off \in Nat /\ len \in Nat /\ End \in Nat
  BY EndIsNat DEF CallTypes, CallInv, ReadTypeOK
<1>3. result' \in -1..len /\ buf' \in [1..len -> Int]
  <2>1. CASE RefuseOffset
    BY <1>2, <2>1 DEF RefuseOffset
  <2>2. CASE ReadResident
    <3> DEFINE n == Least(len, End - off)
    <3>1. off < End /\ result' = n /\ buf' = [p \in 1..len |-> IF p <= n THEN off + p - 1 ELSE Zero]
      BY <2>2 DEF ReadResident
    <3>2. n \in 0..len
      BY <1>2, <3>1 DEF Least
    <3>3. Zero \in Int
      BY DEF Zero
    <3> HIDE DEF n
    <3> QED BY <1>2, <3>1, <3>2, <3>3
  <2> QED BY <2>1, <2>2
<1> QED BY <1>1, <1>2, <1>3, ReadIsTyped

LEMMA EndOfRunsIsTyped ==
  ASSUME CallTypes, EndOfRuns, UNCHANGED <<walk, list>> PROVE CallTypes'
<1>1. /\ pc = "runs" /\ pc' = "done" /\ result' = want - remain /\ buf' = buf
      /\ UNCHANGED <<call, run, byteOff, want, remain, walk, list>>
  BY DEF EndOfRuns
<1>2. /\ run \in Nat \ {0} /\ byteOff \in 0..(BlockSize - 1) /\ len \in Nat
      /\ want \in 0..len /\ remain \in 0..want /\ buf \in [1..len -> Int]
  BY DEF CallTypes, CallInv, ReadTypeOK
<1>3. result' \in -1..len
  BY <1>1, <1>2
<1> QED BY <1>1, <1>2, <1>3, ReadIsTyped

LEMMA ReadStepIsTyped == ASSUME CallTypes, Read PROVE CallTypes'
<1>1. ReadNext /\ UNCHANGED <<walk, list>>
  BY DEF Read
<1>2. CASE RefuseOffset \/ ReadResident
  BY <1>1, <1>2, ReadResidentIsTyped
<1>3. CASE StartRuns
  BY <1>1, <1>3, StartRunsIsTyped
<1>4. CASE SkipRun
  BY <1>1, <1>4, SkipRunIsTyped
<1>5. CASE ZeroRun
  BY <1>1, <1>5, ZeroRunIsTyped
<1>6. CASE ReadRun
  BY <1>1, <1>6, ReadRunIsTyped
<1>7. CASE ReadRunFails
  BY <1>1, <1>7, ReadRunFailsIsTyped
<1>8. CASE EndOfRuns
  BY <1>1, <1>8, EndOfRunsIsTyped
<1> QED BY <1>1, <1>2, <1>3, <1>4, <1>5, <1>6, <1>7, <1>8 DEF ReadNext

\* A step of a walk.
LEMMA WalkIsTyped ==
  ASSUME CallTypes, pc = "walk", pc' \in {"walk", "walked"}, UNCHANGED <<call, reading, noSparse, list>>,
         result' \in {0, 1}, pc' = "walk" => result' \in -1..len,
         run' \in Nat \ {0}, idx' \in Nat, at' \in 0..End, skipRemain' \in 0..attr.skip
  PROVE  CallTypes'
<1>1. /\ attr' = attr /\ off' = off /\ len' = len /\ slack' = slack /\ noSparse' = noSparse
      /\ byteOff' = byteOff /\ want' = want /\ remain' = remain /\ buf' = buf
      /\ runs' = runs
  BY DEF call, reading, list
<1>2. AttrInv'
  BY <1>1 DEF CallTypes, AttrInv
<1>3. /\ off \in Nat /\ len \in Nat /\ slack \in BOOLEAN /\ noSparse \in BOOLEAN
      /\ byteOff \in 0..(BlockSize - 1) /\ want \in 0..len /\ remain \in 0..want
      /\ buf \in [1..len -> Int]
  BY DEF CallTypes, CallInv, ReadTypeOK
<1>4. End' = End
  BY <1>1 DEF End
<1>5. ReadTypeOK'
  BY <1>1, <1>3 DEF ReadTypeOK
<1>6. result' \in IF pc' = "walked" THEN {0, 1} ELSE -1..len'
  BY <1>1
<1>7. CallInv'
  BY <1>1, <1>3, <1>4, <1>5, <1>6 DEF CallInv
<1>8. ListTypes'
  BY ListTypesStay DEF CallTypes
<1> QED BY <1>2, <1>7, <1>8 DEF CallTypes

\* What a walk has of types.
LEMMA WalkTypes ==
  ASSUME CallTypes
  PROVE  /\ End \in Nat /\ at \in 0..End /\ attr.skip \in Nat /\ skipRemain \in 0..attr.skip
         /\ idx \in Nat /\ run \in Nat \ {0} /\ BlockSize \in Nat \ {0} /\ len \in Nat
         /\ attr.resident \in BOOLEAN
  BY EndIsNat, BlockSizeIsPositive DEF CallTypes, AttrInv, CallInv, ReadTypeOK

LEMMA BeginWalkIsTyped == ASSUME CallTypes, BeginWalk, UNCHANGED list PROVE CallTypes'
<1>1. /\ pc = "open" /\ pc' = "walk" /\ run' = 1 /\ slack' \in BOOLEAN /\ noSparse' \in BOOLEAN
      /\ idx' = 0 /\ at' = 0 /\ chunks' = << >> /\ skipRemain' = attr.skip
      /\ attr' = attr /\ off' = off /\ len' = len /\ result' = result
      /\ byteOff' = byteOff /\ want' = want /\ remain' = remain /\ buf' = buf
      /\ runs' = runs
  BY DEF BeginWalk, reading, list
<1>2. AttrInv'
  BY <1>1 DEF CallTypes, AttrInv
<1>3. /\ off \in Nat /\ len \in Nat /\ result = 0
      /\ byteOff \in 0..(BlockSize - 1) /\ want \in 0..len /\ remain \in 0..want
      /\ buf \in [1..len -> Int]
  BY <1>1 DEF CallTypes, CallInv, ReadTypeOK
<1>4. End' \in Nat /\ attr'.skip \in Nat
  BY <1>1, <1>2 DEF End, AttrInv
<1>5. ReadTypeOK'
  BY <1>1, <1>3 DEF ReadTypeOK
<1>6. at' \in 0..End' /\ skipRemain' \in 0..attr'.skip /\ result' \in -1..len'
  BY <1>1, <1>3, <1>4
<1>7. CallInv'
  BY <1>1, <1>3, <1>5, <1>6 DEF CallInv
<1>8. ListTypes'
  BY ListTypesStay DEF CallTypes
<1> QED BY <1>1, <1>2, <1>7, <1>8 DEF CallTypes

LEMMA WalkEndsIsTyped ==
  ASSUME CallTypes, WalkBlockFails \/ WalkEnds, UNCHANGED list PROVE CallTypes'
<1>1. /\ pc = "walk" /\ pc' = "walked" /\ result' \in {0, 1}
      /\ UNCHANGED <<call, reading, run, noSparse, idx, at, skipRemain, list>>
  BY DEF WalkBlockFails, WalkEnds, InBlocks, Walking, walk
<1>2. /\ at \in 0..End /\ skipRemain \in 0..attr.skip /\ idx \in Nat /\ run \in Nat \ {0}
  BY WalkTypes
<1> QED BY <1>1, <1>2, WalkIsTyped

LEMMA WalkResidentIsTyped ==
  ASSUME CallTypes, WalkResident, UNCHANGED list PROVE CallTypes'
<1> DEFINE n == Least(BlockSize, attr.size - at)
<1>1. /\ pc = "walk" /\ attr.resident /\ at < attr.size /\ at' = at + n
      /\ UNCHANGED <<call, reading, run, noSparse, idx, skipRemain, list>>
  BY DEF WalkResident, Walking
<1>2. PICK a \in Answers : Ends(a, n)
  BY DEF WalkResident
<1>3. /\ End \in Nat /\ at \in 0..End /\ skipRemain \in 0..attr.skip
      /\ idx \in Nat /\ run \in Nat \ {0} /\ BlockSize \in Nat \ {0} /\ len \in Nat
  BY WalkTypes
<1>4. End = attr.size
  BY <1>1 DEF End
<1>5. at' \in 0..End
  BY <1>1, <1>3, <1>4 DEF Least
<1> HIDE DEF n
<1>6. /\ pc' \in {"walk", "walked"} /\ result' \in {0, 1} /\ (pc' = "walk" => result' = 0)
  BY <1>1, <1>2, EndsWalk
<1>7. pc' = "walk" => result' \in -1..len
  BY <1>3, <1>6
<1> QED BY <1>1, <1>3, <1>5, <1>6, <1>7, WalkIsTyped

LEMMA BlockIsTyped ==
  ASSUME CallTypes, SkipBlock \/ GiveBlock, UNCHANGED list PROVE CallTypes'
<1> DEFINE n == Least(BlockSize - skipRemain, End - at)
<1>1. /\ pc = "walk" /\ NextBlock /\ UNCHANGED <<call, reading, noSparse, list>>
  BY DEF SkipBlock, GiveBlock, InBlocks, Walking
<1>2. /\ End \in Nat /\ at \in 0..End /\ attr.skip \in Nat /\ skipRemain \in 0..attr.skip
      /\ idx \in Nat /\ run \in Nat \ {0} /\ BlockSize \in Nat \ {0} /\ len \in Nat
  BY WalkTypes
<1>3. idx' \in Nat /\ run' \in Nat \ {0}
  BY <1>1, <1>2 DEF NextBlock
<1>4. CASE SkipBlock
  <2>1. /\ skipRemain >= BlockSize /\ skipRemain' = skipRemain - BlockSize
        /\ pc' = pc /\ result' = result /\ at' = at
    BY <1>4 DEF SkipBlock
  <2>2. skipRemain' \in 0..attr.skip
    BY <1>2, <2>1
  <2>3. AttrInv'
    <3>1. attr' = attr /\ runs' = runs /\ pc' = pc
      BY <1>1, <2>1 DEF call, list
    <3> QED BY <3>1 DEF CallTypes, AttrInv
  <2>4. CallInv'
    <3>1. /\ attr' = attr /\ off' = off /\ len' = len /\ slack' = slack /\ noSparse' = noSparse
          /\ byteOff' = byteOff /\ want' = want /\ remain' = remain /\ buf' = buf
      BY <1>1 DEF call, reading
    <3>2. End' = End
      BY <3>1 DEF End
    <3>3. ReadTypeOK'
      BY <1>3, <3>1 DEF CallTypes, CallInv, ReadTypeOK
    <3>4. /\ off \in Nat /\ len \in Nat /\ slack \in BOOLEAN /\ noSparse \in BOOLEAN
          /\ result \in -1..len
      BY <1>1 DEF CallTypes, CallInv
    <3> QED BY <1>1, <1>2, <1>3, <2>1, <2>2, <3>1, <3>2, <3>3, <3>4 DEF CallInv
  <2>5. ListTypes'
    BY ListTypesStay DEF CallTypes
  <2> QED BY <1>1, <2>1, <2>3, <2>4, <2>5 DEF CallTypes
<1>5. CASE GiveBlock
  <2>1. /\ skipRemain < BlockSize /\ at' = at + n /\ skipRemain' = 0
        /\ Ends("continue", n) \/ \E a \in Answers : Ends(a, n)
    BY <1>5 DEF GiveBlock
  <2>2. at' \in 0..End /\ skipRemain' \in 0..attr.skip
    BY <1>2, <2>1 DEF Least
  <2> HIDE DEF n
  <2>3. /\ pc' \in {"walk", "walked"} /\ result' \in {0, 1} /\ (pc' = "walk" => result' = 0)
    <3>1. "continue" \in Answers
      BY DEF Answers
    <3> QED BY <1>1, <2>1, <3>1, EndsWalk
  <2>4. pc' = "walk" => result' \in -1..len
    BY <1>2, <2>3
  <2> QED BY <1>1, <1>3, <2>2, <2>3, <2>4, WalkIsTyped
<1> QED BY <1>4, <1>5

LEMMA WalkStepIsTyped == ASSUME CallTypes, Walk PROVE CallTypes'
<1>1. WalkNext /\ UNCHANGED list
  BY DEF Walk
<1>2. CASE BeginWalk
  BY <1>1, <1>2, BeginWalkIsTyped
<1>3. CASE WalkResident
  BY <1>1, <1>3, WalkResidentIsTyped
<1>4. CASE WalkBlockFails \/ WalkEnds
  BY <1>1, <1>4, WalkEndsIsTyped
<1>5. CASE SkipBlock \/ GiveBlock
  BY <1>1, <1>5, BlockIsTyped
<1> QED BY <1>1, <1>2, <1>3, <1>4, <1>5 DEF WalkNext

\* Before a read or a walk there is nothing that could depend on the list.
LEMMA SoundBeforeTheCall ==
  ASSUME CallTypes, pc \in {"parse", "open"} PROVE PathInv
<1>1. AttrInv /\ CallInv /\ chunks = << >> /\ Len(chunks) = 0 /\ 1..Len(chunks) = {}
  BY DEF CallTypes, CallInv
<1>2. WalkInv /\ RunsInv /\ ReadsWhatWasGiven /\ ReadsAreFull
  BY <1>1, EmptySeq DEF WalkInv, RunsInv, ReadsWhatWasGiven, ReadsAreFull
<1>3. WalkGivesTheFile
  BY <1>1 DEF WalkGivesTheFile
<1> QED BY <1>1, <1>2, <1>3 DEF PathInv

\* All variables of the list, of the read and of the walk keep their types;
\* positions stay in the attribute and counts within what was asked for,
\* whatever chains tsk_fs_attr_add_run is given.
THEOREM TypeCorrect == PathSpec => []TypeOK
<1>1. PathInit => CallTypes
  <2> SUFFICES ASSUME PathInit PROVE CallTypes
    OBVIOUS
  <2>1. ListTypes
    BY EmptySeq DEF PathInit, List!Init, ListTypes
  <2>2. PathInv /\ pc = "parse"
    BY PathInitHolds DEF PathInit
  <2> QED BY <2>1, <2>2 DEF CallTypes, PathInv
<1>2. CallTypes /\ [PathNext]_pathVars => CallTypes'
  <2> SUFFICES ASSUME CallTypes, [PathNext]_pathVars PROVE CallTypes'
    OBVIOUS
  <2>0. ListTypes'
    BY OtherSteps, ListStepIsTyped, ListTypesStay DEF CallTypes
  <2>1. CASE Parse
    <3>1. pc = "parse" /\ pc' = pc
      BY <2>1 DEF Parse, vars
    <3> QED BY <2>0, <2>1, <3>1, SoundBeforeTheCall, ParseKeeps DEF CallTypes, PathInv
  <2>2. CASE OpenAny
    <3>1. pc = "parse" /\ pc' = "open"
      BY <2>2 DEF OpenAny, Open
    <3> QED BY <2>0, <2>2, <3>1, SoundBeforeTheCall, OpenAnyKeeps DEF CallTypes, PathInv
  <2>3. CASE Ask
    <3>1. pc = "open" /\ pc' = "start"
      BY <2>3 DEF Ask
    <3> QED BY <2>0, <2>3, <3>1, SoundBeforeTheCall, AskKeeps DEF CallTypes, PathInv
  <2>4. CASE Read
    BY <2>4, ReadStepIsTyped
  <2>5. CASE Walk
    BY <2>5, WalkStepIsTyped
  <2>6. CASE UNCHANGED pathVars
    <3>1. /\ attr' = attr /\ off' = off /\ len' = len /\ slack' = slack /\ pc' = pc
          /\ run' = run /\ byteOff' = byteOff /\ want' = want /\ remain' = remain /\ buf' = buf
          /\ result' = result /\ noSparse' = noSparse /\ idx' = idx /\ at' = at
          /\ skipRemain' = skipRemain /\ chunks' = chunks /\ runs' = runs
      BY <2>6 DEF pathVars, vars, walk, list
    <3>2. End' = End
      BY <3>1 DEF End
    <3>3. ReadTypeOK'
      BY <3>1 DEF CallTypes, CallInv, ReadTypeOK
    <3>4. AttrInv' /\ CallInv'
      BY <3>1, <3>2, <3>3 DEF CallTypes, AttrInv, CallInv
    <3> QED BY <2>0, <3>1, <3>4 DEF CallTypes
  <2> QED BY <2>1, <2>2, <2>3, <2>4, <2>5, <2>6 DEF PathNext
<1>3. CallTypes => TypeOK
  <2> SUFFICES ASSUME CallTypes PROVE TypeOK
    OBVIOUS
  <2>1. ListTypes /\ CallInv
    BY DEF CallTypes
  <2>2. WideRuns \subseteq List!Runs
    BY DEF WideRuns
  <2>3. runs \in Seq(List!Runs) /\ Len(runs) \in Nat
    BY <2>1, <2>2, LenProperties, SeqDef DEF ListTypes
  <2>4. List!TypeOK
    BY <2>1, <2>3 DEF ListTypes, List!TypeOK
  <2> QED BY <2>1, <2>4 DEF CallInv, TypeOK
<1> QED BY <1>1, <1>2, <1>3, PTL DEF PathSpec
=============================================================================
