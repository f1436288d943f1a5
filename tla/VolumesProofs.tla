--------------------------- MODULE VolumesProofs ---------------------------
(* Whichever tables a disk has, tsk_vs_open leaves the structure that it     *)
(* returns allocated, and of the others only that of a DOS table which a BSD *)
(* label supersedes; the list of parts of that structure is the one that the *)
(* table gives, and covers the disk.  What it finds does not matter to the   *)
(* lifetime of handles: a program on the disk is one of Handles.             *)
EXTENDS Volumes, SequenceTheorems, WellFoundedInduction, TLAPS

HP == INSTANCE HandlesProofs

Before == {Kinds[i] : i \in {j \in 1..Len(Kinds) : j < turn}}

\* The structures that are allocated between two types.
Left ==
  (IF prev = NULL THEN {} ELSE {prev}) \union (IF {"dos", "bsd"} \subseteq found THEN {"dos"} ELSE {})

LoadingPcs == {"try", "entry", "finish", "unused", "loaded"}

\* Until the search is over, the type that stands is one of those found, and it
\* is DOS only if no BSD label was.  The structure that is being loaded is
\* allocated too.
Competition ==
  pc # "returned" =>
    /\ found \subseteq Before
    /\ IF prev = NULL THEN found = {} ELSE prev \in found
    /\ prev = "dos" => "bsd" \notin found
    /\ open = Left \union (IF pc = "kind" THEN {} ELSE {kind})

IInv ==
  /\ turn \in 1..6
  /\ pc \in LoadingPcs \union {"kind", "returned"}
  /\ pc \in LoadingPcs => turn \in 1..5
  /\ Competition
  /\ OneIsLeftOpen

-----------------------------------------------------------------------------

LEMMA TypesInOrder ==
  /\ Len(Kinds) = 5 /\ KindSet = {"dos", "bsd", "gpt", "sun", "mac"}
  /\ Kinds[1] = "dos" /\ Kinds[2] = "bsd" /\ Kinds[3] = "gpt" /\ Kinds[4] = "sun" /\ Kinds[5] = "mac"
<1>1. /\ Len(Kinds) = 5 /\ DOMAIN Kinds = {1, 2, 3, 4, 5}
      /\ Kinds[1] = "dos" /\ Kinds[2] = "bsd" /\ Kinds[3] = "gpt" /\ Kinds[4] = "sun" /\ Kinds[5] = "mac"
  BY DEF Kinds
<1> HIDE DEF Kinds
<1> QED BY <1>1 DEF KindSet, ToSet

LEMMA BeforeEach ==
  /\ turn = 1 => Before = {}
  /\ turn = 2 => Before = {"dos"}
  /\ turn = 3 => Before = {"dos", "bsd"}
  /\ turn = 4 => Before = {"dos", "bsd", "gpt"}
  /\ turn = 5 => Before = {"dos", "bsd", "gpt", "sun"}
<1>1. Before = {Kinds[i] : i \in {j \in {1, 2, 3, 4, 5} : j < turn}}
  BY TypesInOrder DEF Before
<1>2. ASSUME turn = 1 PROVE {j \in {1, 2, 3, 4, 5} : j < turn} = {}
  BY <1>2
<1>3. ASSUME turn = 2 PROVE {j \in {1, 2, 3, 4, 5} : j < turn} = {1}
  BY <1>3
<1>4. ASSUME turn = 3 PROVE {j \in {1, 2, 3, 4, 5} : j < turn} = {1, 2}
  BY <1>4
<1>5. ASSUME turn = 4 PROVE {j \in {1, 2, 3, 4, 5} : j < turn} = {1, 2, 3}
  BY <1>5
<1>6. ASSUME turn = 5 PROVE {j \in {1, 2, 3, 4, 5} : j < turn} = {1, 2, 3, 4}
  BY <1>6
<1> QED BY <1>1, <1>2, <1>3, <1>4, <1>5, <1>6, TypesInOrder

\* The type looked for is none of those before it, which stay so.
LEMMA KindIsNew ==
  ASSUME turn \in 1..5
  PROVE  kind \in KindSet /\ kind \notin Before
BY TypesInOrder, BeforeEach DEF kind

LEMMA BeforeGrows ==
  ASSUME turn \in 1..5, turn' = turn + 1
  PROVE  Before' = Before \union {kind}
<1> USE TypesInOrder DEF kind, Before
<1> QED OBVIOUS

LEMMA NullIsNoType == NULL \notin KindSet
BY VsOpenAssumption DEF KindSet

\* Nothing that is allocated between two types is the one looked for.
LEMMA LeftIsOlder ==
  ASSUME Competition, turn \in 1..5, pc # "returned"
  PROVE  Left \subseteq found /\ kind \notin Left /\ NULL \notin found
BY KindIsNew, NullIsNoType, TypesInOrder, BeforeEach DEF Competition, Left

-----------------------------------------------------------------------------
(* Every step keeps the invariant *)

LEMMA InitGivesIInv == ASSUME Init PROVE IInv
BY DEF Init, IInv, Competition, OneIsLeftOpen, Left

\* The next type is looked for.
LEMMA BeginKindKeepsIInv == ASSUME IInv, BeginKind PROVE IInv'
<1>1. turn \in 1..5 /\ pc = "kind"
  BY TypesInOrder DEF IInv, BeginKind
<1>2. /\ open' = open \union {kind} /\ pc' = "try"
      /\ turn' = turn /\ prev' = prev /\ found' = found
  BY DEF BeginKind
<1>3. Before' = Before /\ Left' = Left /\ kind' = kind
  BY <1>2 DEF Before, Left, kind
<1>4. Competition'
  BY <1>1, <1>2, <1>3 DEF IInv, Competition
<1>5. OneIsLeftOpen'
  BY <1>2 DEF OneIsLeftOpen
<1> QED BY <1>1, <1>2, <1>4, <1>5 DEF IInv, LoadingPcs

\* A step of the loading that allocates and frees nothing.
LEMMA LoadingKeepsIInv ==
  ASSUME IInv, pc \in LoadingPcs, pc' \in LoadingPcs, UNCHANGED <<turn, open, prev, found>>
  PROVE  IInv'
<1>1. Before' = Before /\ Left' = Left /\ kind' = kind
  BY DEF Before, Left, kind
<1>2. pc' \notin {"kind", "returned"} /\ pc \notin {"kind", "returned"}
  BY DEF LoadingPcs
<1>3. Competition'
  BY <1>1, <1>2 DEF IInv, Competition
<1>4. OneIsLeftOpen'
  BY <1>2 DEF OneIsLeftOpen
<1> QED BY <1>3, <1>4 DEF IInv

\* A failed attempt is followed by another, or the structure is freed.
LEMMA LoadFailsKeepsIInv ==
  ASSUME IInv, pc \in LoadingPcs, LoadFails PROVE IInv'
<1>1. turn \in 1..5 /\ pc \notin {"kind", "returned"}
  BY DEF IInv, LoadingPcs
<1>2. CASE TryAgain
  BY <1>2, LoadingKeepsIInv DEF LoadFails, TryAgain, LoadingPcs
<1>3. CASE GiveUp
  <2>1. /\ open' = open \ {kind} /\ turn' = turn + 1 /\ pc' = "kind"
        /\ prev' = prev /\ found' = found
    BY <1>3 DEF GiveUp, LoadFails
  <2>2. Before' = Before \union {kind} /\ Left' = Left
    BY <2>1, <1>1, BeforeGrows DEF Left
  <2>3. Competition'
    BY <1>1, <2>1, <2>2, LeftIsOlder DEF IInv, Competition
  <2>4. OneIsLeftOpen'
    BY <2>1 DEF OneIsLeftOpen
  <2> QED BY <1>1, <2>1, <2>3, <2>4 DEF IInv, LoadingPcs
<1> QED BY <1>2, <1>3 DEF LoadFails

LEMMA LoadKeepsIInv == ASSUME IInv, Load PROVE IInv'
<1>1. CASE BeginKind
  BY <1>1, BeginKindKeepsIInv
<1>2. CASE NoTable \/ EntryFails \/ FinishFails
  BY <1>2, LoadFailsKeepsIInv DEF NoTable, EntryFails, InTable, FinishFails, LoadingPcs
<1>3. CASE ReadTable
  BY <1>3, LoadingKeepsIInv DEF ReadTable, LoadingPcs
<1>4. CASE ListMeta
  BY <1>4, LoadingKeepsIInv DEF ListMeta, Reads, LoadingPcs
<1>5. CASE SkipEntry
  BY <1>5, LoadingKeepsIInv DEF SkipEntry, InTable, Reads, LoadingPcs
<1>6. CASE ListPart
  BY <1>6, LoadingKeepsIInv DEF ListPart, InUse, InTable, Reads, LoadingPcs
<1>7. CASE ListExtended
  BY <1>7, LoadingKeepsIInv DEF ListExtended, InUse, InTable, Reads, LoadingPcs
<1>8. CASE ExtendedLoop
  BY <1>8, LoadingKeepsIInv DEF ExtendedLoop, InUse, InTable, Reads, LoadingPcs
<1>9. CASE TableEnds
  BY <1>9, LoadingKeepsIInv DEF TableEnds, LoadingPcs
<1>10. CASE Finish
  BY <1>10, LoadingKeepsIInv DEF Finish, LoadingPcs
<1>11. CASE PassPart
  BY <1>11, LoadingKeepsIInv DEF PassPart, LoadingPcs
<1>12. CASE FillBefore
  BY <1>12, LoadingKeepsIInv DEF FillBefore, LoadingPcs
<1>13. CASE FillEnd
  BY <1>13, LoadingKeepsIInv DEF FillEnd, LoadingPcs
<1> QED BY <1>1, <1>2, <1>3, <1>4, <1>5, <1>6, <1>7, <1>8, <1>9, <1>10, <1>11, <1>12, <1>13 DEF Load

\* What the competition has in common when a type was loaded.
LEMMA Loaded ==
  ASSUME IInv, pc = "loaded"
  PROVE  /\ turn \in 1..5 /\ kind \in KindSet
         /\ found \subseteq Before /\ kind \notin found /\ NULL \notin found /\ kind # NULL
         /\ IF prev = NULL THEN found = {} ELSE prev \in found
         /\ prev = "dos" => "bsd" \notin found
         /\ open = Left \union {kind} /\ Left \subseteq found
<1>1. turn \in 1..5 /\ pc \notin {"kind", "returned"} /\ Competition
  BY DEF IInv, LoadingPcs
<1> QED BY <1>1, LeftIsOlder, KindIsNew, NullIsNoType DEF Competition

LEMMA TakesOverKeepsIInv == ASSUME IInv, TakesOver PROVE IInv'
<1>1. pc = "loaded" /\ (prev = NULL \/ kind = "bsd" \/ Replaces)
  BY DEF TakesOver
<1>2. /\ prev' = kind /\ found' = found \union {kind}
      /\ open' = open \ (IF Replaces THEN {"dos"} ELSE {})
      /\ turn' = turn + 1 /\ pc' = "kind"
  BY DEF TakesOver, Settle, Closes
<1>3. Before' = Before \union {kind}
  BY <1>1, <1>2, Loaded, BeforeGrows
<1>4. kind = "bsd" => found \subseteq {"dos"}
  BY <1>1, Loaded, BeforeEach, TypesInOrder DEF kind
<1>5. open' = Left'
  <2>1. CASE prev = NULL
    BY <2>1, <1>1, <1>2, Loaded DEF Left, Replaces
  <2>2. CASE prev # NULL /\ kind = "bsd"
    BY <2>2, <1>1, <1>2, <1>4, Loaded DEF Left, Replaces
  <2>3. CASE Replaces /\ kind # "bsd"
    BY <2>3, <1>1, <1>2, Loaded DEF Left, Replaces
  <2> QED BY <2>1, <2>2, <2>3, <1>1
<1>6. kind = "dos" => "bsd" \notin found'
  BY <1>1, <1>2, Loaded, BeforeEach, TypesInOrder DEF kind
<1>7. Competition'
  BY <1>1, <1>2, <1>3, <1>5, <1>6, Loaded DEF Competition
<1>8. OneIsLeftOpen'
  BY <1>2 DEF OneIsLeftOpen
<1> QED BY <1>1, <1>2, <1>7, <1>8, Loaded DEF IInv, LoadingPcs

LEMMA GivesWayKeepsIInv == ASSUME IInv, GivesWay PROVE IInv'
<1>1. pc = "loaded" /\ prev = "dos" /\ kind = "gpt"
  BY DEF GivesWay, Yields, IsBackup
<1>2. /\ prev' = prev /\ found' = found \union {kind} /\ open' = open \ {"gpt"}
      /\ turn' = turn + 1 /\ pc' = "kind"
  BY DEF GivesWay, Settle, Closes
<1>3. Before' = Before \union {kind}
  BY <1>1, <1>2, Loaded, BeforeGrows
<1>4. open' = Left'
  BY <1>1, <1>2, Loaded DEF Left
<1>5. Competition'
  <2>1. prev # NULL
    BY <1>1, NullIsNoType, TypesInOrder
  <2> QED BY <2>1, <1>1, <1>2, <1>3, <1>4, Loaded DEF Competition
<1>6. OneIsLeftOpen'
  BY <1>2 DEF OneIsLeftOpen
<1> QED BY <1>1, <1>2, <1>5, <1>6, Loaded DEF IInv, LoadingPcs

LEMMA ConflictKeepsIInv == ASSUME IInv, Conflict PROVE IInv'
<1>1. pc = "loaded" /\ prev # NULL /\ kind # "bsd"
  BY DEF Conflict
<1>2. /\ prev' = NULL /\ found' = found \union {kind} /\ open' = open \ {prev, kind}
      /\ turn' = turn /\ pc' = "returned"
  BY DEF Conflict, Closes, ClosedInConflict
<1>3. OneIsLeftOpen'
  <2>1. kind # "dos"
    BY <1>1, Loaded, BeforeEach, TypesInOrder DEF kind
  <2> QED BY <2>1, <1>1, <1>2, Loaded DEF OneIsLeftOpen, Left
<1>4. Competition'
  BY <1>2 DEF Competition
<1> QED BY <1>2, <1>3, <1>4 DEF IInv, LoadingPcs

LEMMA ReturnKeepsIInv == ASSUME IInv, Return PROVE IInv'
<1>1. /\ pc = "kind" /\ pc' = "returned"
      /\ turn' = turn /\ open' = open /\ prev' = prev /\ found' = found
  BY DEF Return
<1>2. Competition' /\ OneIsLeftOpen'
  BY <1>1 DEF IInv, Competition, OneIsLeftOpen, Left
<1> QED BY <1>1, <1>2 DEF IInv, LoadingPcs

-----------------------------------------------------------------------------

\* A step of tsk_vs_open.
LEMMA NextKeepsIInv == ASSUME IInv, [Next]_vars PROVE IInv'
<1>1. ASSUME Next PROVE IInv'
  BY <1>1, LoadKeepsIInv, TakesOverKeepsIInv, GivesWayKeepsIInv, ConflictKeepsIInv,
     ReturnKeepsIInv DEF Next
<1>2. ASSUME UNCHANGED vars PROVE IInv'
  BY <1>2 DEF vars, IInv, Competition, OneIsLeftOpen, Left, Before, kind
<1> QED BY <1>1, <1>2

\* On every disk, with every set of block sizes: when the search is over, the
\* structure that is returned is allocated, and of all the others that were
\* loaded, given up or in conflict only that of a DOS table under a BSD label.
THEOREM OneStructure == VolumesSpec => []OneIsLeftOpen
<1>1. VolumesInit => IInv
  BY InitGivesIInv DEF VolumesInit
<1>2. IInv /\ [VolumesNext]_<<vars, objects>> => IInv'
  <2> SUFFICES ASSUME IInv, [VolumesNext]_<<vars, objects>> PROVE IInv'
    OBVIOUS
  <2>1. [Next]_vars
    BY DEF VolumesNext, Detect, OpenReturns, Use, Let
  <2> QED BY <2>1, NextKeepsIInv
<1>3. IInv => OneIsLeftOpen
  BY DEF IInv
<1> QED BY <1>1, <1>2, <1>3, PTL DEF VolumesSpec

-----------------------------------------------------------------------------

\* What holds of 0 and passes from n to n + 1 holds of all numbers up to m:
\* otherwise there would be a least one of which it does not hold.
LEMMA CountingUp ==
  ASSUME NEW m \in Nat, NEW T, 0 \in T, \A n \in 0..(m - 1) : n \in T => n + 1 \in T
  PROVE  \A n \in 0..m : n \in T
<1> DEFINE R == OpToRel(<, Nat)   Bad == {n \in 0..m : n \notin T}
<1> SUFFICES ASSUME Bad # {} PROVE FALSE
  OBVIOUS
<1>1. IsWellFoundedOn(R, Nat)
  BY NatLessThanWellFounded, Zenon
<1>2. \A x, y \in Nat : x < y => <<x, y>> \in R
  BY Zenon DEF OpToRel
<1>3. Bad \subseteq Nat /\ \A n \in Bad : n - 1 \in Bad
  OBVIOUS
<1> HIDE DEF R, Bad
<1>4. PICK n \in Bad : \A k \in Bad : <<k, n>> \notin R
  BY <1>1, <1>3, WFMin
<1>5. n \in Nat /\ n - 1 \in Bad /\ n - 1 \in Nat
  BY <1>3
<1>6. <<n - 1, n>> \in R
  BY <1>2, <1>5
<1> QED BY <1>4, <1>5, <1>6

-----------------------------------------------------------------------------
(* A part is added to a list *)

GoodList(l) == l \in Seq(Parts) /\ IsInOrder(l) /\ IsNumbered(l)

LEMMA PartsTypes ==
  ASSUME NEW l \in Seq(Parts), NEW k \in 1..Len(l)
  PROVE  /\ l[k] \in Parts /\ l[k].start \in Nat /\ l[k].len \in Nat /\ l[k].addr \in Nat
         /\ l[k].flag \in PartFlags /\ EndOf(l[k]) \in Nat /\ l[k].start <= EndOf(l[k])
<1> DEFINE p == l[k]
<1>1. p \in Parts
  OBVIOUS
<1> HIDE DEF p
<1>2. p.start \in Nat /\ p.len \in Nat /\ p.addr \in Nat /\ p.flag \in PartFlags
  BY <1>1 DEF Parts
<1>3. EndOf(p) \in Nat /\ p.start <= EndOf(p)
  BY <1>2 DEF EndOf
<1> QED BY <1>1, <1>2, <1>3 DEF p

\* There is a place for each part in each list.
LEMMA PlaceIs ==
  ASSUME NEW l \in Seq(Parts), NEW p, p.start \in Nat
  PROVE  /\ Place(l, p) \in 1..Len(l) + 1
         /\ Place(l, p) <= Len(l) => l[Place(l, p)].start > p.start
         /\ \A j \in 1..Place(l, p) - 1 : l[j].start <= p.start
<1> DEFINE T == {n \in Nat : \A j \in 1..n : l[j].start <= p.start}
           Is(i) == /\ i <= Len(l) => l[i].start > p.start
                    /\ \A j \in 1..i - 1 : l[j].start <= p.start
<1>1. Len(l) \in Nat /\ 0 \in T
  OBVIOUS
<1>2. \E i \in 1..Len(l) + 1 : Is(i)
  <2>1. CASE \A n \in 0..Len(l) : n \in T
    <3>1. Len(l) \in T
      BY <1>1, <2>1
    <3>2. Is(Len(l) + 1)
      BY <1>1, <3>1
    <3> QED BY <1>1, <3>2
  <2>2. CASE \E n \in 0..Len(l) : n \notin T
    <3>1. PICK n \in 0..(Len(l) - 1) : n \in T /\ n + 1 \notin T
      <4> HIDE DEF T
      <4> QED BY <1>1, <2>2, CountingUp
    <3>2. \A j \in 1..Len(l) : l[j].start \in Nat
      BY PartsTypes
    <3>3. Is(n + 1)
      BY <1>1, <3>1, <3>2
    <3> QED BY <1>1, <3>1, <3>3
  <2> QED BY <2>1, <2>2
<1>3. Place(l, p) = CHOOSE i \in 1..Len(l) + 1 : Is(i)
  BY DEF Place
<1> HIDE DEF Is
<1>4. Place(l, p) \in 1..Len(l) + 1 /\ Is(Place(l, p))
  BY <1>2, <1>3
<1> QED BY <1>4 DEF Is

LEMMA WithAddress ==
  ASSUME NEW p \in Parts, NEW a \in Nat, NEW q, q = [p EXCEPT !.addr = a]
  PROVE  q \in Parts /\ q.addr = a /\ q.start = p.start /\ q.len = p.len /\ q.flag = p.flag
BY DEF Parts

\* Those before the place have stayed, the others follow the new one.
OldPlace(i, k) == IF k < i THEN k ELSE k - 1

LEMMA PartAddGives ==
  ASSUME NEW l, GoodList(l), NEW p, p \in Parts
  PROVE  /\ GoodList(PartAdd(l, p)) /\ Len(PartAdd(l, p)) = Len(l) + 1
         /\ Len(l) \in Nat /\ Place(l, p) \in 1..Len(l) + 1
         /\ \A j \in 1..Len(l) : j < Place(l, p) <=> l[j].start <= p.start
         /\ \A k \in 1..Len(l) + 1 :
              LET was == IF k = Place(l, p) THEN p ELSE l[OldPlace(Place(l, p), k)] IN
              /\ PartAdd(l, p)[k].start = was.start /\ PartAdd(l, p)[k].len = was.len
              /\ PartAdd(l, p)[k].flag = was.flag
<1> DEFINE i == Place(l, p)   m == PartAdd(l, p)
           was(k) == IF k = i THEN p ELSE l[OldPlace(i, k)]
<1>1. l \in Seq(Parts) /\ Len(l) \in Nat /\ p.start \in Nat /\ p.len \in Nat /\ p.flag \in PartFlags
  BY DEF GoodList, Parts
<1>2. \A k \in 1..Len(l) : l[k] \in Parts /\ l[k].start \in Nat /\ l[k].addr = k - 1
  BY <1>1, PartsTypes DEF GoodList, IsNumbered
<1>3. /\ i \in 1..Len(l) + 1
      /\ i <= Len(l) => l[i].start > p.start
      /\ \A j \in 1..i - 1 : l[j].start <= p.start
  BY <1>1, PlaceIs
<1> DEFINE mk(k) == IF k < i THEN l[k] ELSE IF k = i THEN [p EXCEPT !.addr = AddrAt(l, i)]
                    ELSE Shifted(l[k - 1])
<1>4. m = [k \in 1..Len(l) + 1 |-> mk(k)]
  BY DEF PartAdd
<1> HIDE DEF m, i
<1>o. \A g, h \in 1..Len(l) : g <= h => l[g].start <= l[h].start
  BY DEF GoodList, IsInOrder
<1>5. AddrAt(l, i) = i - 1
  BY <1>1, <1>2, <1>3 DEF AddrAt
<1>6. ASSUME NEW k \in 1..Len(l) + 1
      PROVE  /\ mk(k) \in Parts /\ mk(k).addr = k - 1
             /\ mk(k).start = was(k).start /\ mk(k).len = was(k).len /\ mk(k).flag = was(k).flag
  <2>1. CASE k < i
    <3>1. k \in 1..Len(l) /\ l[k] \in Parts /\ l[k].addr = k - 1
      BY <1>1, <1>2, <1>3, <2>1
    <3>2. mk(k) = l[k]
      BY <2>1
    <3>3. was(k) = l[k]
      BY <1>1, <1>3, <2>1 DEF OldPlace
    <3> HIDE DEF mk, was
    <3> QED BY <3>1, <3>2, <3>3
  <2>2. CASE k = i
    <3>1. mk(k) = [p EXCEPT !.addr = k - 1] /\ was(k) = p /\ k - 1 \in Nat
      BY <1>1, <1>3, <1>5, <2>2
    <3> HIDE DEF mk, was
    <3> QED BY <3>1, WithAddress
  <2>3. CASE k > i
    <3>1. k - 1 \in 1..Len(l)
      BY <1>1, <1>3, <2>3
    <3>2. l[k - 1] \in Parts /\ l[k - 1].addr = k - 1 - 1
      BY <1>2, <3>1
    <3>3. mk(k) = Shifted(l[k - 1]) /\ was(k) = l[k - 1]
      BY <1>1, <1>3, <2>3 DEF OldPlace
    <3> HIDE DEF mk, was
    <3>4. mk(k) = [l[k - 1] EXCEPT !.addr = l[k - 1].addr + 1]
      BY <3>3 DEF Shifted
    <3>5. l[k - 1].addr + 1 = k - 1 /\ k - 1 \in Nat
      BY <1>1, <3>1, <3>2
    <3> QED BY <3>2, <3>3, <3>4, <3>5, WithAddress
  <2> QED BY <1>1, <1>3, <2>1, <2>2, <2>3
<1> HIDE DEF mk
<1>7. \A j \in 1..Len(l) : j < i <=> l[j].start <= p.start
  <2> SUFFICES ASSUME NEW j \in 1..Len(l), ~(j < i) PROVE ~(l[j].start <= p.start)
    BY <1>1, <1>3
  <2>1. i \in 1..Len(l) /\ i <= j
    BY <1>1, <1>3
  <2>2. l[i].start <= l[j].start
    BY <1>o, <2>1
  <2> QED BY <1>1, <1>2, <1>3, <2>1, <2>2
<1>8. /\ m \in Seq(Parts) /\ Len(m) = Len(l) + 1
      /\ \A k \in 1..Len(l) + 1 : m[k] = mk(k)
  <2>1. \A k \in 1..Len(l) + 1 : mk(k) \in Parts
    BY <1>6
  <2> QED BY <1>1, <1>4, <2>1
<1>9. IsNumbered(m)
  BY <1>1, <1>6, <1>8 DEF IsNumbered
<1>10. IsInOrder(m)
  <2> SUFFICES ASSUME NEW j \in 1..Len(l) + 1, NEW k \in 1..Len(l) + 1, j <= k
               PROVE  was(j).start <= was(k).start
    BY <1>1, <1>6, <1>8 DEF IsInOrder
  <2>2. CASE j # i /\ k # i
    <3>1. /\ OldPlace(i, j) \in 1..Len(l) /\ OldPlace(i, k) \in 1..Len(l)
          /\ OldPlace(i, j) <= OldPlace(i, k)
      BY <1>1, <1>3, <2>2 DEF OldPlace
    <3> QED BY <1>o, <2>2, <3>1
  <2>3. CASE j = i /\ k # i
    <3>1. k - 1 \in 1..Len(l) /\ ~(k - 1 < i) /\ was(k) = l[k - 1]
      BY <1>1, <1>3, <2>3 DEF OldPlace
    <3> QED BY <1>1, <1>2, <1>7, <2>3, <3>1
  <2>4. CASE k = i /\ j # i
    BY <1>1, <1>3, <1>7, <2>4 DEF OldPlace
  <2>5. CASE j = i /\ k = i
    BY <1>1, <2>5
  <2> QED BY <2>2, <2>3, <2>4, <2>5
<1> QED BY <1>1, <1>3, <1>6, <1>7, <1>8, <1>9, <1>10 DEF GoodList, m, i

-----------------------------------------------------------------------------
(* Unused space is listed *)

Tabled == {"alloc", "safety", "free"}

\* The parts before place a were looked at for unused space, which was listed up
\* to sector e: they cover all sectors before e, and begin within.
CoversTo(l, a, e) ==
  \A x \in 0..e - 1 : \E k \in 1..a - 1 : ~IsMeta(l[k]) /\ l[k].start <= x /\ x < EndOf(l[k])
BeginWithin(l, a, e) == \A k \in 1..a - 1 : ~IsMeta(l[k]) => l[k].start <= e

\* All fillers are among them, and end before another part begins.
NoFillers(l, a) == \A k \in a..Len(l) : l[k].flag # "unalloc"
FillersFit(l, a, e) ==
  \A k \in 1..a - 1 : l[k].flag = "unalloc" =>
    /\ EndOf(l[k]) <= e
    /\ \A j \in k + 1..Len(l) : ~IsMeta(l[j]) => EndOf(l[k]) <= l[j].start

\* Parts of a table that are apart end before the next filler begins.
TabledFit(l, a, e) ==
  Apart(l, Tabled) =>
    \A k \in 1..a - 1 : l[k].flag \in Tabled =>
      /\ EndOf(l[k]) <= e
      /\ \A j \in k + 1..Len(l) : l[j].flag = "unalloc" => EndOf(l[k]) <= l[j].start

Passed(l, a, e) ==
  /\ a \in 1..Len(l) + 1 /\ e \in Nat
  /\ CoversTo(l, a, e) /\ BeginWithin(l, a, e)
  /\ NoFillers(l, a) /\ FillersFit(l, a, e) /\ TabledFit(l, a, e)

\* What ListFillsTheDisk says of a list.
Fills(l, n) ==
  /\ 0..n - 1 \subseteq UNION {Sectors(l[i]) : i \in {j \in DOMAIN l : ~IsMeta(l[j])}}
  /\ Apart(l, {"alloc", "safety", "free"}) => Apart(l, PartFlags \ {"meta"})

LEMMA PassedTypes ==
  ASSUME NEW l, GoodList(l), NEW a, NEW e, Passed(l, a, e)
  PROVE  /\ a \in Nat /\ a >= 1 /\ a <= Len(l) + 1 /\ e \in Nat /\ Len(l) \in Nat
         /\ \A k \in 1..Len(l) : /\ l[k].start \in Nat /\ EndOf(l[k]) \in Nat
                                 /\ l[k].start <= EndOf(l[k]) /\ l[k].flag \in PartFlags
<1>1. l \in Seq(Parts) /\ a \in 1..Len(l) + 1 /\ e \in Nat
  BY DEF GoodList, Passed
<1>2. Len(l) \in Nat
  BY <1>1
<1> QED BY <1>1, <1>2, PartsTypes

\* tsk_vs_part_unused passes a part of meta data.
LEMMA PassMeta ==
  ASSUME NEW l, GoodList(l), NEW a, NEW e, Passed(l, a, e), a <= Len(l), IsMeta(l[a])
  PROVE  Passed(l, a + 1, e)
<1>1. a \in Nat /\ a >= 1 /\ e \in Nat /\ Len(l) \in Nat
  BY PassedTypes
<1>2. \A k \in 1..(a + 1) - 1 : k # a => k \in 1..a - 1
  BY <1>1
<1>3. l[a].flag = "meta"
  BY DEF IsMeta
<1>4. CoversTo(l, a + 1, e)
  BY <1>1 DEF Passed, CoversTo
<1>5. BeginWithin(l, a + 1, e)
  BY <1>2 DEF Passed, BeginWithin
<1>6. NoFillers(l, a + 1)
  BY <1>1 DEF Passed, NoFillers
<1>7. FillersFit(l, a + 1, e)
  BY <1>2, <1>3 DEF Passed, FillersFit
<1>8. TabledFit(l, a + 1, e)
  BY <1>2, <1>3 DEF Passed, TabledFit, Tabled
<1> QED BY <1>1, <1>4, <1>5, <1>6, <1>7, <1>8 DEF Passed

\* It passes another one that begins before the end of the last.
LEMMA PassReal ==
  ASSUME NEW l, GoodList(l), NEW a, NEW e, Passed(l, a, e), a <= Len(l),
         ~IsMeta(l[a]), l[a].start <= e
  PROVE  Passed(l, a + 1, EndOf(l[a]))
<1> DEFINE d == EndOf(l[a])
<1>1. /\ a \in Nat /\ a >= 1 /\ e \in Nat /\ Len(l) \in Nat
      /\ \A k \in 1..Len(l) : l[k].start \in Nat /\ EndOf(l[k]) \in Nat /\ l[k].start <= EndOf(l[k])
  BY PassedTypes
<1>2. \A k \in 1..(a + 1) - 1 : k \in 1..Len(l) /\ (k # a => k \in 1..a - 1)
  BY <1>1
<1>3. a \in 1..Len(l) /\ d \in Nat /\ l[a].start \in Nat /\ l[a].start <= d /\ d = EndOf(l[a])
  BY <1>1
<1>4. \A g, h \in 1..Len(l) : g <= h => l[g].start <= l[h].start
  BY DEF GoodList, IsInOrder
<1>5. l[a].flag # "unalloc"
  BY <1>3 DEF Passed, NoFillers
<1> HIDE DEF d
<1>6. CoversTo(l, a + 1, d)
  <2> SUFFICES ASSUME NEW x \in 0..d - 1
               PROVE  \E k \in 1..(a + 1) - 1 : ~IsMeta(l[k]) /\ l[k].start <= x /\ x < EndOf(l[k])
    BY DEF CoversTo
  <2>1. CASE x < e
    BY <1>1, <1>3, <2>1 DEF Passed, CoversTo
  <2>2. CASE x >= e
    BY <1>1, <1>3, <2>2
  <2> QED BY <1>1, <1>3, <2>1, <2>2
<1>7. BeginWithin(l, a + 1, d)
  BY <1>1, <1>2, <1>3, <1>4 DEF BeginWithin
<1>8. NoFillers(l, a + 1)
  BY <1>1 DEF Passed, NoFillers
<1>9. FillersFit(l, a + 1, d)
  <2> SUFFICES ASSUME NEW k \in 1..a - 1, l[k].flag = "unalloc"
               PROVE  /\ EndOf(l[k]) <= d
                      /\ \A j \in k + 1..Len(l) : ~IsMeta(l[j]) => EndOf(l[k]) <= l[j].start
    BY <1>2, <1>5 DEF FillersFit
  <2>1. \A j \in k + 1..Len(l) : ~IsMeta(l[j]) => EndOf(l[k]) <= l[j].start
    BY DEF Passed, FillersFit
  <2>2. EndOf(l[k]) <= l[a].start
    BY <1>1, <1>3, <2>1
  <2> QED BY <1>1, <1>3, <2>1, <2>2
<1>10. TabledFit(l, a + 1, d)
  <2> SUFFICES ASSUME Apart(l, Tabled), NEW k \in 1..(a + 1) - 1, l[k].flag \in Tabled
               PROVE  /\ EndOf(l[k]) <= d
                      /\ \A j \in k + 1..Len(l) : l[j].flag = "unalloc" => EndOf(l[k]) <= l[j].start
    BY DEF TabledFit
  <2>1. CASE k = a
    <3>1. \A j \in a + 1..Len(l) : l[j].flag # "unalloc"
      BY <1>1 DEF Passed, NoFillers
    <3> QED BY <1>3, <2>1, <3>1
  <2>2. CASE k # a
    <3>1. k \in 1..a - 1
      BY <1>2, <2>2
    <3>2. \A j \in k + 1..Len(l) : l[j].flag = "unalloc" => EndOf(l[k]) <= l[j].start
      BY <3>1 DEF Passed, TabledFit
    <3>3. l[a].flag \in Tabled
      BY <1>1, <1>3, <1>5, PassedTypes DEF PartFlags, IsMeta, Tabled
    <3>4. DOMAIN l = 1..Len(l)
      BY DEF GoodList
    <3>5. EndOf(l[k]) <= l[a].start
      BY <1>1, <1>3, <3>1, <3>3, <3>4 DEF Apart
    <3> QED BY <1>1, <1>3, <3>1, <3>2, <3>5
  <2> QED BY <2>1, <2>2
<1> QED BY <1>1, <1>3, <1>6, <1>7, <1>8, <1>9, <1>10 DEF Passed, d

Filler(from, to) == Part(from, to - from, "unalloc")

\* A filler from e to f, put into a list in which no part begins between them
\* but those of meta data.
LEMMA WithFiller ==
  ASSUME NEW l, GoodList(l), NEW a, NEW e, Passed(l, a, e), NEW f \in Nat, e < f,
         \A k \in a..Len(l) : ~IsMeta(l[k]) => f <= l[k].start,
         NEW m, m = PartAdd(l, Filler(e, f)), NEW i, i = Place(l, Filler(e, f))
  PROVE
         /\ GoodList(m) /\ Len(m) = Len(l) + 1 /\ i \in 1..Len(l) + 1
         /\ ~IsMeta(m[i]) /\ m[i].flag = "unalloc" /\ m[i].start = e /\ EndOf(m[i]) = f
         /\ \A k \in 1..Len(m) : k # i =>
              /\ OldPlace(i, k) \in 1..Len(l)
              /\ m[k].start = l[OldPlace(i, k)].start /\ EndOf(m[k]) = EndOf(l[OldPlace(i, k)])
              /\ m[k].flag = l[OldPlace(i, k)].flag /\ (IsMeta(m[k]) <=> IsMeta(l[OldPlace(i, k)]))
         /\ \A k \in 1..a - 1 : ~IsMeta(l[k]) => k < i
         /\ \A k \in i..Len(l) : ~IsMeta(l[k]) => f <= l[k].start
         /\ \A k \in a..Len(l) : ~IsMeta(l[k]) => i <= k
<1> DEFINE p == Filler(e, f)
<1>1. e \in Nat /\ a \in Nat /\ Len(l) \in Nat /\ l \in Seq(Parts)
  BY PassedTypes DEF GoodList
<1>2. p.start = e /\ p.len = f - e /\ p.flag = "unalloc" /\ p \in Parts /\ f - e \in Nat
  BY <1>1 DEF Filler, Part, Parts, PartFlags
<1>0. m = PartAdd(l, p) /\ i = Place(l, p)
  OBVIOUS
<1> HIDE DEF p
<1>a. /\ GoodList(m) /\ Len(m) = Len(l) + 1 /\ i \in 1..Len(l) + 1
      /\ \A j \in 1..Len(l) : j < i <=> l[j].start <= p.start
      /\ \A k \in 1..Len(l) + 1 :
           LET was == IF k = i THEN p ELSE l[OldPlace(i, k)] IN
           m[k].start = was.start /\ m[k].len = was.len /\ m[k].flag = was.flag
  BY <1>0, <1>2, PartAddGives, SMTT(30)
<1>3. /\ GoodList(m) /\ Len(m) = Len(l) + 1 /\ i \in 1..Len(l) + 1
      /\ \A j \in 1..Len(l) : j < i <=> l[j].start <= e
      /\ \A k \in 1..Len(l) + 1 :
           LET was == IF k = i THEN p ELSE l[OldPlace(i, k)] IN
           m[k].start = was.start /\ m[k].len = was.len /\ m[k].flag = was.flag
  BY <1>2, <1>a
<1>4. ~IsMeta(m[i]) /\ m[i].flag = "unalloc" /\ m[i].start = e /\ EndOf(m[i]) = f
  BY <1>1, <1>2, <1>3 DEF IsMeta, EndOf
<1>5. ASSUME NEW k \in 1..Len(m), k # i
      PROVE  /\ OldPlace(i, k) \in 1..Len(l)
             /\ m[k].start = l[OldPlace(i, k)].start /\ EndOf(m[k]) = EndOf(l[OldPlace(i, k)])
             /\ m[k].flag = l[OldPlace(i, k)].flag /\ (IsMeta(m[k]) <=> IsMeta(l[OldPlace(i, k)]))
  <2>1. OldPlace(i, k) \in 1..Len(l)
    BY <1>1, <1>3, <1>5 DEF OldPlace
  <2>2. /\ m[k].start = l[OldPlace(i, k)].start /\ m[k].len = l[OldPlace(i, k)].len
        /\ m[k].flag = l[OldPlace(i, k)].flag
    BY <1>3, <1>5
  <2> QED BY <2>1, <2>2 DEF EndOf, IsMeta
<1>6. \A k \in 1..a - 1 : ~IsMeta(l[k]) => k < i
  BY <1>1, <1>3 DEF Passed, BeginWithin
<1>7. \A k \in i..Len(l) : ~IsMeta(l[k]) => f <= l[k].start
  BY <1>1, <1>3, <1>6
<1>8. \A k \in a..Len(l) : ~IsMeta(l[k]) => i <= k
  <2>1. \A k \in a..Len(l) : k \in 1..Len(l) /\ l[k].start \in Nat
    BY <1>1, PassedTypes
  <2> QED BY <1>1, <1>3, <2>1
<1> QED BY <1>3, <1>4, <1>5, <1>6, <1>7, <1>8 DEF p

\* The filler keeps what the old ones promise, and keeps to it itself, as far as
\* place b, at which sector d is reached.
LEMMA FillerFits ==
  ASSUME NEW l, GoodList(l), NEW a, NEW e, Passed(l, a, e), NEW f \in Nat, e < f,
         \A k \in a..Len(l) : ~IsMeta(l[k]) => f <= l[k].start,
         NEW m, m = PartAdd(l, Filler(e, f)), NEW b \in a..Len(l) + 1, b <= a + 1,
         NEW d \in Nat, f <= d,
         b = a + 1 => EndOf(l[a]) <= d /\ ~IsMeta(l[a])
  PROVE  FillersFit(m, b + 1, d) /\ TabledFit(m, b + 1, d)
<1> DEFINE i == Place(l, Filler(e, f))   o(k) == OldPlace(i, k)
<1>0. i = Place(l, Filler(e, f))
  OBVIOUS
<1> HIDE DEF i
<1>1. /\ Len(m) = Len(l) + 1 /\ i \in 1..Len(l) + 1 /\ GoodList(m)
      /\ m[i].flag = "unalloc" /\ m[i].start = e /\ EndOf(m[i]) = f
      /\ \A k \in 1..Len(m) : k # i =>
           /\ o(k) \in 1..Len(l)
           /\ m[k].start = l[o(k)].start /\ EndOf(m[k]) = EndOf(l[o(k)])
           /\ m[k].flag = l[o(k)].flag /\ (IsMeta(m[k]) <=> IsMeta(l[o(k)]))
      /\ \A k \in 1..a - 1 : ~IsMeta(l[k]) => k < i
      /\ \A k \in i..Len(l) : ~IsMeta(l[k]) => f <= l[k].start
      /\ \A k \in a..Len(l) : ~IsMeta(l[k]) => i <= k
  BY <1>0, WithFiller
<1>2. /\ a \in Nat /\ a >= 1 /\ e \in Nat /\ Len(l) \in Nat /\ a <= Len(l) + 1
      /\ \A k \in 1..Len(l) : l[k].start \in Nat /\ EndOf(l[k]) \in Nat
  BY PassedTypes
<1>3. \A k \in 1..Len(m) : k # i => (k < i => o(k) = k) /\ (i < k => o(k) = k - 1)
  BY <1>1, <1>2 DEF OldPlace
<1> HIDE DEF o
<1>4. ASSUME NEW k \in 1..Len(m), NEW j \in 1..Len(m), k # i, j # i, k < j PROVE o(k) < o(j)
  <2>1. CASE j < i
    <3>1. k < i
      BY <1>1, <1>2, <1>4, <2>1
    <3> QED BY <1>3, <1>4, <2>1, <3>1
  <2>2. CASE k < i /\ i < j
    <3>1. o(k) = k /\ o(j) = j - 1
      BY <1>3, <2>2
    <3> QED BY <1>1, <1>2, <2>2, <3>1
  <2>3. CASE i < k
    <3>1. o(k) = k - 1 /\ o(j) = j - 1
      BY <1>1, <1>2, <1>3, <1>4, <2>3
    <3> QED BY <1>1, <1>2, <1>4, <3>1
  <2> QED BY <1>1, <1>2, <1>4, <2>1, <2>2, <2>3
<1>5. ASSUME NEW k \in 1..(b + 1) - 1, k # i, ~IsMeta(m[k])
      PROVE  /\ k \in 1..Len(m) /\ o(k) \in 1..Len(l) /\ (o(k) \in 1..a - 1 \/ (o(k) = a /\ b = a + 1))
             /\ (o(k) \in 1..a - 1 => k < i)
  <2>1. k \in 1..Len(m) /\ o(k) \in 1..Len(l) /\ ~IsMeta(l[o(k)])
    BY <1>1, <1>2, <1>5
  <2>2. CASE k < i
    <3>1. o(k) = k /\ ~IsMeta(l[k]) /\ k \in 1..Len(l)
      BY <1>3, <2>1, <2>2
    <3>2. ~(k \in a..Len(l))
      BY <1>1, <1>2, <2>2, <3>1
    <3> QED BY <1>2, <2>1, <2>2, <3>1, <3>2
  <2>3. CASE i < k
    <3>0. o(k) = k - 1
      BY <1>3, <2>1, <2>3
    <3>1. o(k) = k - 1 /\ i <= o(k) /\ o(k) <= a
      BY <1>1, <1>2, <2>3, <3>0
    <3>2. ~(o(k) \in 1..a - 1)
      BY <1>1, <1>2, <2>1, <3>1
    <3>3. o(k) = a /\ b = a + 1
      BY <1>1, <1>2, <2>1, <3>1, <3>2
    <3> QED BY <2>1, <3>2, <3>3
  <2> QED BY <1>1, <1>5, <2>1, <2>2, <2>3
<1>6. \A k \in a..Len(l) : l[k].flag # "unalloc"
  BY DEF Passed, NoFillers
<1>7. FillersFit(m, b + 1, d)
  <2> SUFFICES ASSUME NEW k \in 1..(b + 1) - 1, m[k].flag = "unalloc"
               PROVE  /\ EndOf(m[k]) <= d
                      /\ \A j \in k + 1..Len(m) : ~IsMeta(m[j]) => EndOf(m[k]) <= m[j].start
    BY DEF FillersFit
  <2>1. CASE k = i
    <3>1. ASSUME NEW j \in k + 1..Len(m), ~IsMeta(m[j]) PROVE f <= m[j].start
      <4>1. j \in 1..Len(m) /\ j # i /\ o(j) = j - 1
        BY <1>1, <1>2, <1>3, <2>1
      <4>2. o(j) \in i..Len(l) /\ ~IsMeta(l[o(j)]) /\ m[j].start = l[o(j)].start
        BY <1>1, <1>2, <2>1, <3>1, <4>1
      <4> QED BY <1>1, <4>2
    <3> QED BY <1>1, <2>1, <3>1
  <2>2. CASE k # i
    <3>1. ~IsMeta(m[k])
      BY DEF IsMeta
    <3>2. k \in 1..Len(m) /\ o(k) \in 1..Len(l) /\ o(k) \in 1..a - 1 /\ k < i /\ l[o(k)].flag = "unalloc"
      BY <1>1, <1>2, <1>5, <1>6, <2>2, <3>1
    <3>3. /\ EndOf(l[o(k)]) <= e
          /\ \A j \in o(k) + 1..Len(l) : ~IsMeta(l[j]) => EndOf(l[o(k)]) <= l[j].start
      BY <3>2 DEF Passed, FillersFit
    <3>4. EndOf(m[k]) = EndOf(l[o(k)]) /\ EndOf(m[k]) \in Nat
      BY <1>1, <1>2, <2>2, <3>2
    <3>5. ASSUME NEW j \in k + 1..Len(m), ~IsMeta(m[j]) PROVE EndOf(m[k]) <= m[j].start
      <4>1. CASE j = i
        BY <1>1, <3>3, <3>4, <4>1
      <4>2. CASE j # i
        <5>0. j \in 1..Len(m) /\ k < j
          BY <1>1, <1>2, <3>2
        <5>1. j \in 1..Len(m) /\ o(j) \in o(k) + 1..Len(l) /\ ~IsMeta(l[o(j)])
          <6>1. o(j) \in 1..Len(l) /\ ~IsMeta(l[o(j)])
            BY <1>1, <3>5, <4>2, <5>0
          <6>2. o(k) < o(j)
            BY <1>4, <2>2, <3>2, <4>2, <5>0
          <6> QED BY <1>2, <3>2, <5>0, <6>1, <6>2
        <5> QED BY <1>1, <3>3, <3>4, <4>2, <5>1
      <4> QED BY <4>1, <4>2
    <3> QED BY <1>2, <3>3, <3>4, <3>5
  <2> QED BY <2>1, <2>2
<1>8. ASSUME Apart(m, Tabled) PROVE Apart(l, Tabled)
  <2> SUFFICES ASSUME NEW g \in DOMAIN l, NEW h \in DOMAIN l, g < h,
                      l[g].flag \in Tabled, l[h].flag \in Tabled
               PROVE  EndOf(l[g]) <= l[h].start
    BY DEF Apart
  <2> DEFINE n(k) == IF k < i THEN k ELSE k + 1
  <2>1. DOMAIN l = 1..Len(l) /\ DOMAIN m = 1..Len(m)
    BY <1>1 DEF GoodList
  <2>2. /\ n(g) \in DOMAIN m /\ n(h) \in DOMAIN m /\ n(g) < n(h) /\ n(g) # i /\ n(h) # i
        /\ o(n(g)) = g /\ o(n(h)) = h
    <3>1. \A k \in 1..Len(l) : n(k) \in 1..Len(m) /\ n(k) # i
      BY <1>1, <1>2
    <3>2. \A k \in 1..Len(l) : (k < i => o(k) = k) /\ (~(k < i) => o(k + 1) = k)
      BY <1>1, <1>2, <1>3
    <3>3. o(n(g)) = g /\ o(n(h)) = h
      BY <2>1, <3>2
    <3>4. n(g) < n(h)
      BY <1>1, <1>2, <2>1
    <3> QED BY <2>1, <3>1, <3>3, <3>4
  <2> HIDE DEF n
  <2>3. m[n(g)].flag \in Tabled /\ m[n(h)].flag \in Tabled
    BY <1>1, <2>1, <2>2
  <2>4. EndOf(m[n(g)]) <= m[n(h)].start
    BY <1>8, <2>2, <2>3 DEF Apart
  <2> QED BY <1>1, <2>1, <2>2, <2>4
<1>9. TabledFit(m, b + 1, d)
  <2> SUFFICES ASSUME Apart(m, Tabled), NEW k \in 1..(b + 1) - 1, m[k].flag \in Tabled
               PROVE  /\ EndOf(m[k]) <= d
                      /\ \A j \in k + 1..Len(m) : m[j].flag = "unalloc" => EndOf(m[k]) <= m[j].start
    BY DEF TabledFit
  <2>1. k # i /\ ~IsMeta(m[k])
    BY <1>1 DEF Tabled, IsMeta
  <2>2. /\ k \in 1..Len(m) /\ o(k) \in 1..Len(l) /\ (o(k) \in 1..a - 1 \/ (o(k) = a /\ b = a + 1))
        /\ (o(k) \in 1..a - 1 => k < i)
    BY <1>5, <2>1
  <2>3. EndOf(m[k]) = EndOf(l[o(k)]) /\ l[o(k)].flag \in Tabled /\ EndOf(m[k]) \in Nat
    BY <1>1, <1>2, <2>1, <2>2
  <2>4. o(k) \in 1..a - 1 =>
          /\ EndOf(l[o(k)]) <= e
          /\ \A j \in o(k) + 1..Len(l) : l[j].flag = "unalloc" => EndOf(l[o(k)]) <= l[j].start
    BY <1>8, <2>3 DEF Passed, TabledFit
  <2>5. EndOf(m[k]) <= d
    BY <1>2, <2>2, <2>3, <2>4
  <2>6. ASSUME NEW j \in k + 1..Len(m), m[j].flag = "unalloc" PROVE EndOf(m[k]) <= m[j].start
    <3>1. CASE j = i
      <4>1. o(k) \in 1..a - 1
        <5>1. k < i /\ o(k) = k
          BY <1>1, <1>2, <1>3, <2>1, <2>2, <3>1
        <5>2. i <= a \/ o(k) # a
          BY <1>1, <1>2, <2>1, <2>2
        <5> QED BY <1>1, <1>2, <2>2, <5>1, <5>2
      <4> QED BY <1>1, <2>3, <2>4, <3>1, <4>1
    <3>2. CASE j # i
      <4>0. j \in 1..Len(m) /\ k < j
        BY <1>1, <1>2, <2>2
      <4>4. o(j) \in 1..Len(l) /\ l[o(j)].flag = "unalloc"
        BY <1>1, <2>6, <3>2, <4>0
      <4>5. o(k) < o(j)
        BY <1>4, <2>1, <2>2, <3>2, <4>0
      <4>1. j \in 1..Len(m) /\ o(j) \in o(k) + 1..Len(l) /\ l[o(j)].flag = "unalloc"
        BY <1>2, <2>2, <4>0, <4>4, <4>5
      <4>2. ~(o(j) \in a..Len(l))
        BY <1>6, <4>1
      <4>3. o(k) \in 1..a - 1
        BY <1>1, <1>2, <2>2, <4>1, <4>2
      <4> QED BY <1>1, <2>3, <2>4, <3>2, <4>1, <4>3
    <3> QED BY <3>1, <3>2
  <2> QED BY <2>5, <2>6
<1> QED BY <1>7, <1>9

\* tsk_vs_part_unused lists what lies before a part.
LEMMA FillGap ==
  ASSUME NEW l, GoodList(l), NEW a, NEW e, Passed(l, a, e), a <= Len(l),
         ~IsMeta(l[a]), l[a].start > e
  PROVE  Passed(PartAdd(l, Filler(e, l[a].start)), a + 2, EndOf(l[a]))
<1> DEFINE f == l[a].start   d == EndOf(l[a])   m == PartAdd(l, Filler(e, f))
           i == Place(l, Filler(e, f))   o(k) == OldPlace(i, k)
<1>1. /\ a \in Nat /\ a >= 1 /\ e \in Nat /\ Len(l) \in Nat /\ a \in 1..Len(l)
      /\ \A k \in 1..Len(l) : l[k].start \in Nat /\ EndOf(l[k]) \in Nat /\ l[k].start <= EndOf(l[k])
  BY PassedTypes
<1>2. f \in Nat /\ d \in Nat /\ e < f /\ f <= d /\ f = l[a].start /\ d = EndOf(l[a])
  BY <1>1
<1>3. \A k \in a..Len(l) : ~IsMeta(l[k]) => f <= l[k].start
  BY <1>1 DEF GoodList, IsInOrder
<1> HIDE DEF f, d
<1>a. m = PartAdd(l, Filler(e, f)) /\ i = Place(l, Filler(e, f))
  OBVIOUS
<1> HIDE DEF i, m
<1>4. /\ Len(m) = Len(l) + 1 /\ i \in 1..Len(l) + 1
      /\ ~IsMeta(m[i]) /\ m[i].start = e /\ EndOf(m[i]) = f
      /\ \A k \in 1..Len(m) : k # i =>
           /\ o(k) \in 1..Len(l)
           /\ m[k].start = l[o(k)].start /\ EndOf(m[k]) = EndOf(l[o(k)])
           /\ m[k].flag = l[o(k)].flag /\ (IsMeta(m[k]) <=> IsMeta(l[o(k)]))
      /\ \A k \in 1..a - 1 : ~IsMeta(l[k]) => k < i
      /\ \A k \in a..Len(l) : ~IsMeta(l[k]) => i <= k
  BY <1>2, <1>3, <1>a, WithFiller, SMTT(30)
<1>5. FillersFit(m, (a + 1) + 1, d) /\ TabledFit(m, (a + 1) + 1, d)
  <2>1. a + 1 \in a..Len(l) + 1 /\ a + 1 <= a + 1
    BY <1>1
  <2>2. EndOf(l[a]) <= d /\ ~IsMeta(l[a])
    BY <1>2
  <2> QED BY <1>2, <1>3, <1>a, <2>1, <2>2, FillerFits
<1>6. i <= a /\ \A k \in 1..Len(m) : k # i => (k < i => o(k) = k) /\ (i < k => o(k) = k - 1)
  BY <1>1, <1>4 DEF OldPlace
<1> HIDE DEF o
<1>7. ASSUME NEW k \in 1..a, ~IsMeta(l[k])
      PROVE  \E h \in 1..a + 1 : ~IsMeta(m[h]) /\ m[h].start = l[k].start /\ EndOf(m[h]) = EndOf(l[k])
  <2>1. CASE k < i
    <3>1. k \in 1..Len(m) /\ k # i /\ k \in 1..a + 1
      BY <1>1, <1>4, <2>1
    <3>2. o(k) = k
      BY <1>6, <2>1, <3>1
    <3> QED BY <1>4, <1>7, <3>1, <3>2
  <2>2. CASE i <= k
    <3>1. k + 1 \in 1..Len(m) /\ k + 1 # i /\ i < k + 1 /\ k + 1 \in 1..a + 1
      BY <1>1, <1>4, <2>2
    <3>2. o(k + 1) = k
      BY <1>1, <1>6, <3>1
    <3> QED BY <1>4, <1>7, <3>1, <3>2
  <2> QED BY <1>1, <1>4, <2>1, <2>2
<1>8. CoversTo(m, a + 2, d)
  <2>0. (a + 2) - 1 = a + 1
    BY <1>1
  <2> SUFFICES ASSUME NEW x \in 0..d - 1
               PROVE  \E k \in 1..a + 1 : ~IsMeta(m[k]) /\ m[k].start <= x /\ x < EndOf(m[k])
    BY <2>0, Zenon DEF CoversTo
  <2>1. CASE x < e
    <3>1. PICK k \in 1..a - 1 : ~IsMeta(l[k]) /\ l[k].start <= x /\ x < EndOf(l[k])
      BY <1>1, <1>2, <2>1 DEF Passed, CoversTo
    <3>2. k \in 1..a
      BY <1>1
    <3> QED BY <1>7, <3>1, <3>2
  <2>2. CASE e <= x /\ x < f
    <3>1. i \in 1..a + 1
      BY <1>1, <1>4, <1>6
    <3> QED BY <1>4, <2>2, <3>1
  <2>3. CASE f <= x
    <3>1. a \in 1..a /\ ~IsMeta(l[a]) /\ l[a].start <= x /\ x < EndOf(l[a])
      BY <1>1, <1>2, <2>3
    <3> QED BY <1>7, <3>1
  <2> QED BY <1>1, <1>2, <2>1, <2>2, <2>3
<1>9. BeginWithin(m, a + 2, d)
  <2> SUFFICES ASSUME NEW k \in 1..a + 1, ~IsMeta(m[k]), k # i PROVE m[k].start <= d
    BY <1>1, <1>2, <1>4 DEF BeginWithin
  <2>1. k \in 1..Len(m) /\ o(k) \in 1..a /\ ~IsMeta(l[o(k)]) /\ m[k].start = l[o(k)].start
    <3>1. k \in 1..Len(m)
      BY <1>1, <1>4
    <3>2. k < i => o(k) \in 1..a
      BY <1>1, <1>4, <1>6, <3>1
    <3>3. i < k => o(k) \in 1..a
      BY <1>1, <1>4, <1>6, <3>1
    <3> QED BY <1>1, <1>4, <3>1, <3>2, <3>3
  <2>2. CASE o(k) = a
    BY <1>2, <2>1, <2>2
  <2>3. CASE o(k) # a
    <3>1. o(k) \in 1..a - 1
      BY <1>1, <2>1, <2>3
    <3>2. l[o(k)].start <= e
      BY <2>1, <3>1 DEF Passed, BeginWithin
    <3>3. l[o(k)].start \in Nat
      BY <1>1, <3>1
    <3> QED BY <1>1, <1>2, <2>1, <3>2, <3>3
  <2> QED BY <2>2, <2>3
<1>10. NoFillers(m, a + 2)
  <2> SUFFICES ASSUME NEW k \in a + 2..Len(m) PROVE m[k].flag # "unalloc"
    BY DEF NoFillers
  <2>1. k \in 1..Len(m) /\ i < k
    BY <1>1, <1>4, <1>6
  <2>2. o(k) \in a..Len(l)
    BY <1>1, <1>4, <1>6, <2>1
  <2>3. l[o(k)].flag # "unalloc"
    BY <2>2 DEF Passed, NoFillers
  <2>4. k # i
    BY <1>4, <2>1
  <2> QED BY <1>4, <2>1, <2>3, <2>4
<1>11. (a + 1) + 1 = a + 2 /\ a + 2 \in 1..Len(m) + 1
  BY <1>1, <1>4
<1> QED BY <1>2, <1>5, <1>8, <1>9, <1>10, <1>11 DEF Passed, m, f, d

\* What was passed to the end is a list as ListFillsTheDisk says.
LEMMA PassedFills ==
  ASSUME NEW l, GoodList(l), NEW a, NEW e, Passed(l, a, e), a > Len(l), NEW n \in Int, n <= e
  PROVE  Fills(l, n)
<1>1. /\ a \in Nat /\ a - 1 = Len(l) /\ e \in Nat /\ Len(l) \in Nat /\ DOMAIN l = 1..Len(l)
      /\ \A k \in 1..Len(l) : /\ l[k].start \in Nat /\ EndOf(l[k]) \in Nat
                              /\ l[k].flag \in PartFlags
  BY PassedTypes DEF GoodList
<1>2. ASSUME NEW x \in 0..n - 1
      PROVE  x \in UNION {Sectors(l[i]) : i \in {j \in DOMAIN l : ~IsMeta(l[j])}}
  <2>0. x \in 0..e - 1 /\ a - 1 = Len(l)
    BY <1>1
  <2>1. PICK k \in 1..Len(l) : ~IsMeta(l[k]) /\ l[k].start <= x /\ x < EndOf(l[k])
    BY <2>0 DEF Passed, CoversTo
  <2>2. x \in Sectors(l[k])
    BY <1>1, <2>1 DEF Sectors
  <2> QED BY <1>1, <2>1, <2>2
<1>3. ASSUME Apart(l, Tabled) PROVE Apart(l, PartFlags \ {"meta"})
  <2> SUFFICES ASSUME NEW i \in 1..Len(l), NEW j \in 1..Len(l), i < j, ~IsMeta(l[i]), ~IsMeta(l[j])
               PROVE  EndOf(l[i]) <= l[j].start
    BY <1>1 DEF Apart, IsMeta
  <2>1. i \in 1..a - 1 /\ j \in i + 1..Len(l)
    BY <1>1
  <2>2. CASE l[i].flag = "unalloc"
    BY <2>1, <2>2 DEF Passed, FillersFit
  <2>3. CASE l[i].flag \in Tabled /\ l[j].flag = "unalloc"
    BY <1>3, <2>1, <2>3 DEF Passed, TabledFit
  <2>4. CASE l[i].flag \in Tabled /\ l[j].flag \in Tabled
    BY <1>1, <1>3, <2>4 DEF Apart
  <2> QED BY <1>1, <2>2, <2>3, <2>4 DEF Tabled, IsMeta, PartFlags
<1> QED BY <1>2, <1>3 DEF Fills, Tabled

\* It lists what is left behind the last part.
LEMMA FillTail ==
  ASSUME NEW l, GoodList(l), NEW a, NEW e, Passed(l, a, e), a > Len(l), NEW n \in Nat, e < n
  PROVE  Fills(PartAdd(l, Filler(e, n)), n)
<1> DEFINE m == PartAdd(l, Filler(e, n))   i == Place(l, Filler(e, n))   o(k) == OldPlace(i, k)
<1>1. /\ a \in Nat /\ a = Len(l) + 1 /\ e \in Nat /\ Len(l) \in Nat
      /\ \A k \in 1..Len(l) : l[k].start \in Nat /\ EndOf(l[k]) \in Nat
  BY PassedTypes
<1>2. \A k \in a..Len(l) : ~IsMeta(l[k]) => n <= l[k].start
  BY <1>1
<1>a. m = PartAdd(l, Filler(e, n)) /\ i = Place(l, Filler(e, n))
  OBVIOUS
<1> HIDE DEF i, m
<1>3. /\ GoodList(m) /\ Len(m) = Len(l) + 1 /\ i \in 1..Len(l) + 1
      /\ ~IsMeta(m[i]) /\ m[i].start = e /\ EndOf(m[i]) = n
      /\ \A k \in 1..Len(m) : k # i =>
           /\ o(k) \in 1..Len(l)
           /\ m[k].start = l[o(k)].start /\ EndOf(m[k]) = EndOf(l[o(k)])
           /\ m[k].flag = l[o(k)].flag /\ (IsMeta(m[k]) <=> IsMeta(l[o(k)]))
      /\ \A k \in 1..a - 1 : ~IsMeta(l[k]) => k < i
  BY <1>2, <1>a, WithFiller
<1>4. FillersFit(m, a + 1, n) /\ TabledFit(m, a + 1, n)
  <2>1. a \in a..Len(l) + 1 /\ a <= a + 1 /\ n <= n /\ a # a + 1
    BY <1>1
  <2> QED BY <1>2, <1>a, <2>1, FillerFits
<1>5. \A k \in 1..Len(m) : k # i => (k < i => o(k) = k) /\ (i < k => o(k) = k - 1)
  BY <1>1, <1>3 DEF OldPlace
<1> HIDE DEF o
<1>6. CoversTo(m, a + 1, n)
  <2> SUFFICES ASSUME NEW x \in 0..n - 1
               PROVE  \E k \in 1..a : ~IsMeta(m[k]) /\ m[k].start <= x /\ x < EndOf(m[k])
    BY <1>1 DEF CoversTo
  <2>1. CASE x < e
    <3>1. PICK k \in 1..a - 1 : ~IsMeta(l[k]) /\ l[k].start <= x /\ x < EndOf(l[k])
      BY <1>1, <2>1 DEF Passed, CoversTo
    <3>2. k < i /\ k \in 1..Len(m) /\ k # i /\ k \in 1..a
      BY <1>1, <1>3, <3>1
    <3>3. o(k) = k
      BY <1>5, <3>2
    <3>4. ~IsMeta(m[k]) /\ m[k].start <= x /\ x < EndOf(m[k])
      BY <1>3, <3>1, <3>2, <3>3
    <3> QED BY <3>2, <3>4
  <2>2. CASE e <= x
    <3>1. i \in 1..a
      BY <1>1, <1>3
    <3>2. ~IsMeta(m[i]) /\ m[i].start <= x /\ x < EndOf(m[i])
      BY <1>3, <2>2
    <3> QED BY <3>1, <3>2
  <2>3. x < e \/ e <= x
    BY <1>1
  <2> QED BY <2>1, <2>2, <2>3
<1>7. BeginWithin(m, a + 1, n)
  <2> SUFFICES ASSUME NEW k \in 1..a, ~IsMeta(m[k]), k # i PROVE m[k].start <= n
    BY <1>1, <1>3 DEF BeginWithin
  <2>1. k \in 1..Len(m) /\ o(k) \in 1..a - 1 /\ ~IsMeta(l[o(k)]) /\ m[k].start = l[o(k)].start
    BY <1>1, <1>3
  <2>2. l[o(k)].start <= e /\ l[o(k)].start \in Nat
    BY <1>1, <2>1 DEF Passed, BeginWithin
  <2> QED BY <1>1, <2>1, <2>2
<1>8. NoFillers(m, a + 1) /\ a + 1 > Len(m) /\ a + 1 \in 1..Len(m) + 1
  BY <1>1, <1>3 DEF NoFillers
<1>9. Passed(m, a + 1, n)
  BY <1>4, <1>6, <1>7, <1>8 DEF Passed
<1>10. Fills(m, n)
  BY <1>3, <1>8, <1>9, PassedFills
<1> QED BY <1>10 DEF m

-----------------------------------------------------------------------------
(* What is looked for on a disk *)

AllKinds == EntryKinds \union {"ext"}
MetaParts == {p \in Parts : IsMeta(p)}
Places(k) == IF k = "gpt" THEN {"gpt", "backup"} ELSE {k}
Tries(k) == [bs : Nat \ {0}, place : Places(k)]

LEMMA DiskTypes ==
  ASSUME disk \in DOMAIN Disks
  PROVE  /\ image.size \in Nat /\ image.sector \in Nat \ {0}
         /\ image.mbr # NULL => image.mbr \in TablesOf(AllKinds)
         /\ \A s \in DOMAIN image.ext : s \in Nat /\ image.ext[s] \in Entries(AllKinds)
         /\ \A l \in DOMAIN image.labels : image.labels[l] \in TablesOf(EntryKinds)
<1>1. image.mbr \in TablesOf(AllKinds) \union {NULL}
  BY DisksAssumption DEF image, AllKinds
<1>2. \A s \in DOMAIN image.ext : s \in Nat /\ image.ext[s] \in Entries(AllKinds)
  BY DisksAssumption DEF image, AllKinds
<1>3. \A l \in DOMAIN image.labels : image.labels[l] \in TablesOf(EntryKinds)
  BY DisksAssumption DEF image
<1> QED BY <1>1, <1>2, <1>3, DisksAssumption DEF image

LEMMA BlocksAreNat ==
  ASSUME disk \in DOMAIN Disks, NEW bs \in Nat \ {0} PROVE Blocks(bs) \in Nat
<1>1. \A n \in Nat : n \div bs \in Nat
  OBVIOUS
<1> QED BY <1>1, DiskTypes DEF Blocks

LEMMA AttemptsTypes ==
  ASSUME disk \in DOMAIN Disks, NEW k \in KindSet
  PROVE  Attempts(k) \in Seq(Tries(k)) /\ Len(Attempts(k)) >= 1
<1>1. /\ BlockSizes \in Seq(Nat \ {0}) /\ MacSizes[1] \in Nat \ {0} /\ MacSizes[2] \in Nat \ {0}
      /\ image.sector \in Nat \ {0}
  BY DiskTypes, VsOpenAssumption
<1>2. ASSUME NEW p \in Places(k)
      PROVE  TrySector(p) \in Seq(Tries(k)) /\ Len(TrySector(p)) = 1 /\ TrySizes(p) \in Seq(Tries(k))
  <2>1. \A i \in 1..Len(BlockSizes) : [bs |-> BlockSizes[i], place |-> p] \in Tries(k)
    BY <1>1 DEF Tries
  <2>2. TrySizes(p) \in Seq(Tries(k))
    BY <1>1, <2>1 DEF TrySizes
  <2>3. [bs |-> image.sector, place |-> p] \in Tries(k)
    BY <1>1 DEF Tries
  <2> QED BY <2>2, <2>3 DEF TrySector
<1>3. CASE k = "gpt"
  <2> DEFINE a == TrySector("gpt")   b == TrySizes("gpt")   c == TrySector("backup")   d == TrySizes("backup")
  <2>1. /\ a \in Seq(Tries(k)) /\ Len(a) = 1 /\ b \in Seq(Tries(k))
        /\ c \in Seq(Tries(k)) /\ d \in Seq(Tries(k))
    BY <1>2, <1>3 DEF Places
  <2>2. Attempts(k) = a \o b \o c \o d
    BY <1>3 DEF Attempts
  <2> HIDE DEF a, b, c, d
  <2>3. a \o b \in Seq(Tries(k)) /\ Len(a \o b) >= 1
    BY <2>1
  <2>4. a \o b \o c \in Seq(Tries(k)) /\ Len(a \o b \o c) >= 1
    BY <2>1, <2>3
  <2>5. a \o b \o c \o d \in Seq(Tries(k)) /\ Len(a \o b \o c \o d) >= 1
    BY <2>1, <2>4
  <2> QED BY <2>2, <2>5
<1>4. CASE k = "mac"
  <2> DEFINE a == TrySector("mac")
             b == IF image.sector = MacSizes[1] THEN <<[bs |-> MacSizes[2], place |-> "mac"]>>
                  ELSE IF image.sector = MacSizes[2] THEN <<[bs |-> MacSizes[1], place |-> "mac"]>>
                  ELSE << >>
  <2>1. a \in Seq(Tries(k)) /\ Len(a) = 1
    BY <1>2, <1>4 DEF Places
  <2>2. b \in Seq(Tries(k))
    <3>1. /\ [bs |-> MacSizes[2], place |-> "mac"] \in Tries(k)
          /\ [bs |-> MacSizes[1], place |-> "mac"] \in Tries(k)
      BY <1>1, <1>4 DEF Tries, Places
    <3> QED BY <3>1
  <2>3. Attempts(k) = a \o b
    BY <1>4 DEF Attempts
  <2> HIDE DEF a, b
  <2>4. a \o b \in Seq(Tries(k))
    BY <2>1, <2>2
  <2>5. Len(a \o b) = Len(a) + Len(b)
    BY <2>1, <2>2, ConcatProperties
  <2>7. Len(b) \in Nat
    BY <2>2, LenProperties
  <2>6. Len(a \o b) >= 1
    BY <2>1, <2>5, <2>7
  <2> QED BY <2>3, <2>4, <2>6
<1>5. CASE k \notin {"gpt", "mac"}
  <2>1. Attempts(k) = TrySector(k) /\ k \in Places(k)
    BY <1>5 DEF Attempts, Places
  <2>2. TrySector(k) \in Seq(Tries(k)) /\ Len(TrySector(k)) = 1
    BY <1>2, <2>1
  <2> QED BY <2>1, <2>2
<1> QED BY <1>3, <1>4, <1>5

LEMMA TryTypes ==
  ASSUME disk \in DOMAIN Disks, NEW k \in KindSet, attempt[k] \in 1..Len(Attempts(k))
  PROVE  /\ TryOf(k).bs \in Nat \ {0} /\ TryOf(k).place \in Places(k)
         /\ Blocks(TryOf(k).bs) \in Nat
<1>1. TryOf(k) \in Tries(k)
  BY AttemptsTypes DEF TryOf
<1>2. TryOf(k).bs \in Nat \ {0} /\ TryOf(k).place \in Places(k)
  BY <1>1 DEF Tries
<1> QED BY <1>2, BlocksAreNat

LEMMA TableTypes ==
  ASSUME disk \in DOMAIN Disks, NEW t, t.bs \in Nat \ {0}, Table(t) # NULL
  PROVE  /\ Table(t) \in TablesOf(AllKinds)
         /\ t.place = "dos" => Table(t) = image.mbr /\ image.mbr # NULL
         /\ t.place # "dos" => Table(t) \in TablesOf(EntryKinds)
         /\ t.place = "backup" => Blocks(t.bs) >= 1
<1>1. \A n, b : Label(n, b) # NULL => Label(n, b) \in TablesOf(EntryKinds)
  BY DiskTypes DEF Label
<1>2. \A n, b, a : AtSector(n, b, a) # NULL => AtSector(n, b, a) \in TablesOf(EntryKinds) /\ a >= 0
  BY <1>1 DEF AtSector, Readable
<1>3. t.place = "dos" => Table(t) = image.mbr /\ image.mbr # NULL
  BY DEF Table
<1>4. t.place # "dos" => Table(t) \in TablesOf(EntryKinds)
  <2>1. CASE t.place = "bsd"
    BY <1>2, <2>1 DEF Table
  <2>2. CASE t.place = "gpt"
    BY <1>2, <2>2 DEF Table
  <2>3. CASE t.place = "backup"
    BY <1>2, <2>3 DEF Table
  <2>4. CASE t.place = "sun"
    BY <1>1, <1>2, <2>4 DEF Table
  <2>5. CASE t.place \notin {"dos", "bsd", "gpt", "backup", "sun"}
    BY <1>1, <2>5 DEF Table
  <2> QED BY <2>1, <2>2, <2>3, <2>4, <2>5
<1>5. t.place = "backup" => Blocks(t.bs) >= 1
  <2>1. ASSUME t.place = "backup" PROVE Blocks(t.bs) - 1 >= 0
    BY <1>2, <2>1 DEF Table
  <2> QED BY <2>1, BlocksAreNat
<1>6. TablesOf(EntryKinds) \subseteq TablesOf(AllKinds)
  <2> DEFINE E == [start : Nat, len : Nat, kind : EntryKinds, ok : BOOLEAN]
             F == [start : Nat, len : Nat, kind : AllKinds, ok : BOOLEAN]
  <2>1. E \subseteq F
    BY DEF AllKinds
  <2>2. TablesOf(EntryKinds) = [start : Nat, len : Nat, head : Nat, entries : Seq(E)]
    BY DEF TablesOf, Entries
  <2>3. TablesOf(AllKinds) = [start : Nat, len : Nat, head : Nat, entries : Seq(F)]
    BY DEF TablesOf, Entries
  <2> HIDE DEF E, F
  <2>4. Seq(E) \subseteq Seq(F)
    BY <2>1
  <2> QED BY <2>2, <2>3, <2>4
<1>7. t.place = "dos" => Table(t) \in TablesOf(AllKinds)
  BY <1>3, DiskTypes
<1> QED BY <1>3, <1>4, <1>5, <1>6, <1>7

LEMMA MetasTypes ==
  ASSUME disk \in DOMAIN Disks, NEW t, t.bs \in Nat \ {0}, Table(t) # NULL
  PROVE  Metas(t, Table(t)) \in Seq(MetaParts)
<1>1. Table(t).start \in Nat /\ Table(t).len \in Nat /\ Table(t).head \in Nat
  BY TableTypes DEF TablesOf
<1>2. ASSUME NEW a \in Nat, NEW n \in Nat PROVE Part(a, n, "meta") \in MetaParts
  BY DEF Part, Parts, PartFlags, MetaParts, IsMeta
<1>3. /\ Part(0, 1, "meta") \in MetaParts /\ Part(1, 1, "meta") \in MetaParts
      /\ Part(1, Table(t).head, "meta") \in MetaParts
  BY <1>1, <1>2
<1>4. Part(Table(t).start, Table(t).len, "meta") \in MetaParts
  BY <1>1, <1>2
<1>5. t.place = "backup" => Part(Blocks(t.bs) - 1, Table(t).head, "meta") \in MetaParts
  BY <1>1, <1>2, TableTypes, BlocksAreNat
<1> HIDE DEF MetaParts
<1> QED BY <1>3, <1>4, <1>5 DEF Metas

-----------------------------------------------------------------------------
(* The invariant of the lists *)

ListedIn(l) == {<<l[i].start, l[i].len>> : i \in {j \in DOMAIN l : IsPart(l[j])}}
HasNoFiller(l) == \A i \in 1..Len(l) : l[i].flag # "unalloc"

\* What the parts of type k are, as PartsAreTheTables says.
LogicalParts == UNION {Logical(s) : s \in Tables}
Right(k) ==
  CASE k = "dos" ->
         /\ InTheTable("dos") \subseteq Listed("dos")
         /\ Listed("dos") \subseteq InTheTable("dos") \union LogicalParts
    [] k = "mac" -> InTheTable("mac") \subseteq Listed("mac")
    [] OTHER -> Listed(k) = InTheTable(k)
Filled(k) == Fills(parts[k], Blocks(TryOf(k).bs))

\* The tables that are being read: the primary one, and extended ones on the way.
Frames == [at : Nat, metas : Seq(MetaParts), entries : Entries(AllKinds), i : Nat \ {0}]
IsReached(b, s) ==
  /\ b \in ExtOf(image.mbr.entries) /\ s \in DOMAIN image.ext
  /\ \A S \in SUBSET (ExtOf(image.mbr.entries) \X DOMAIN image.ext) :
       HoldsTables(S) => <<b, s>> \in S
Nested(fs) ==
  /\ fs \in Seq(Frames) /\ Len(fs) > 0
  /\ fs[1].entries = Table(Try).entries
  /\ Len(fs) > 1 => kind = "dos"
  /\ \A f \in 2..Len(fs) :
       IsReached(fs[2].at, fs[f].at) /\ fs[f].entries = image.ext[fs[f].at]

\* What the table itself lists before its entry i, and what is listed when it
\* was read that far.
TopParts(i) ==
  LET entries == Table(Try).entries
  IN {<<entries[j].start, entries[j].len>> :
        j \in {h \in DOMAIN entries : h < i /\ EntryIsPart(kind, entries[h])}}
ListedTo(i, L) ==
  /\ TopParts(i) \subseteq L
  /\ kind # "mac" => L \subseteq TopParts(i) \union (IF kind = "dos" THEN LogicalParts ELSE {})

ListsInv ==
  /\ disk \in DOMAIN Disks
  /\ attempt \in [KindSet -> Nat] /\ \A k \in KindSet : attempt[k] \in 1..Len(Attempts(k))
  /\ DOMAIN parts = KindSet /\ \A k \in KindSet : GoodList(parts[k])
  /\ at \in Nat \ {0} /\ prevEnd \in Nat
  /\ found \subseteq KindSet /\ prev \in KindSet \union {NULL}

LoadInv ==
  /\ pc \in {"try", "entry", "finish"} => HasNoFiller(list)
  /\ pc = "try" /\ kind # "mac" => list = << >>
  /\ pc = "entry" => Table(Try) # NULL /\ Nested(frames) /\ ListedTo(frames[1].i, ListedIn(list))
  /\ pc \in {"finish", "unused", "loaded"} => Table(Try) # NULL /\ Right(kind)
  /\ pc = "unused" => Passed(list, at, prevEnd)
  /\ pc = "loaded" => Filled(kind)

\* Nothing is listed of the types that were not looked for.
FreshInv ==
  pc # "returned" =>
    \A k \in KindSet \ Before : (pc = "kind" \/ k # kind) => parts[k] = << >>

PrevInv == prev # NULL => Right(prev) /\ Filled(prev)

VInv == ListsInv /\ LoadInv /\ FreshInv /\ PrevInv

\* The disk stays, and with it all that is read from it.
LEMMA SameDisk ==
  ASSUME disk' = disk
  PROVE  /\ image' = image
         /\ \A t : Table(t)' = Table(t)
         /\ \A t, u : Metas(t, u)' = Metas(t, u)
         /\ \A k : Attempts(k)' = Attempts(k)
         /\ \A b : Blocks(b)' = Blocks(b)
         /\ LogicalParts' = LogicalParts
         /\ \A b, s : IsReached(b, s)' = IsReached(b, s)
<1>1. image' = image
  BY DEF image
<1>2. \A b, a : Readable(b, a)' = Readable(b, a)
  BY <1>1 DEF Readable
<1>3. \A t : HasMbr(t)' = HasMbr(t)
  BY <1>1, <1>2 DEF HasMbr
<1>4. \A n, b : Label(n, b)' = Label(n, b)
  BY <1>1 DEF Label
<1>5. \A n, b, a : AtSector(n, b, a)' = AtSector(n, b, a)
  BY <1>2, <1>4 DEF AtSector
<1>6. \A b : Blocks(b)' = Blocks(b)
  BY <1>1 DEF Blocks
<1>7. \A t : Table(t)' = Table(t)
  BY <1>1, <1>2, <1>3, <1>4, <1>5, <1>6 DEF Table
<1>8. \A k : Attempts(k)' = Attempts(k)
  BY <1>1 DEF Attempts, TrySector, TrySizes
<1>9. \A t, u : Metas(t, u)' = Metas(t, u)
  BY <1>6 DEF Metas
<1>10. \A S : HoldsTables(S)' = HoldsTables(S)
  BY <1>1, Zenon DEF HoldsTables
<1>11. \A b, s : IsReached(b, s)' = IsReached(b, s)
  BY <1>1, <1>10, Zenon DEF IsReached
<1>12. Tables' = Tables
  BY <1>1, <1>10, Zenon DEF Tables
<1>13. \A s : Logical(s)' = Logical(s)
  BY <1>1, Zenon DEF Logical
<1>14. LogicalParts' = LogicalParts
  BY <1>12, <1>13, Zenon DEF LogicalParts
<1> QED BY <1>1, <1>6, <1>7, <1>8, <1>9, <1>11, <1>14

\* The parts of a type that stay, stay right.
LEMMA SameParts ==
  ASSUME disk' = disk
  PROVE  \A k : attempt'[k] = attempt[k] /\ parts'[k] = parts[k] =>
           Right(k)' = Right(k) /\ Filled(k)' = Filled(k)
<1> SUFFICES ASSUME NEW k, attempt'[k] = attempt[k], parts'[k] = parts[k]
             PROVE  Right(k)' = Right(k) /\ Filled(k)' = Filled(k)
  OBVIOUS
<1>1. TryOf(k)' = TryOf(k) /\ LogicalParts' = LogicalParts
  BY SameDisk DEF TryOf
<1>2. Table(TryOf(k))' = Table(TryOf(k)) /\ Blocks(TryOf(k).bs)' = Blocks(TryOf(k).bs)
  BY <1>1, SameDisk
<1>3. InTheTable(k)' = InTheTable(k) /\ Listed(k)' = Listed(k)
  BY <1>2 DEF InTheTable, Listed
<1>4. Right(k)' = Right(k)
  BY <1>1, <1>3 DEF Right
<1> QED BY <1>2, <1>4 DEF Filled

\* The table stays during an attempt.
LEMMA SameTry ==
  ASSUME disk' = disk, turn' = turn, attempt' = attempt
  PROVE  /\ kind' = kind /\ Try' = Try /\ Table(Try)' = Table(Try)
         /\ \A fs : Nested(fs)' = Nested(fs)
         /\ \A i, L : ListedTo(i, L)' = ListedTo(i, L)
<1>1. kind' = kind /\ image' = image /\ LogicalParts' = LogicalParts
  BY SameDisk DEF kind
<1>2. Try' = Try
  BY <1>1, SameDisk DEF Try, TryOf
<1>3. Table(Try)' = Table(Try)
  BY <1>2, SameDisk
<1>4. \A fs : Nested(fs)' = Nested(fs)
  BY <1>1, <1>3, SameDisk, Zenon DEF Nested
<1>5. \A i : TopParts(i)' = TopParts(i)
  BY <1>1, <1>3, Zenon DEF TopParts
<1>6. \A i, L : ListedTo(i, L)' = ListedTo(i, L)
  BY <1>1, <1>5 DEF ListedTo
<1> QED BY <1>1, <1>2, <1>3, <1>4, <1>6

LEMMA AddLists ==
  ASSUME NEW l, GoodList(l), NEW p, p \in Parts
  PROVE  ListedIn(PartAdd(l, p)) = ListedIn(l) \union (IF IsPart(p) THEN {<<p.start, p.len>>} ELSE {})
<1> DEFINE m == PartAdd(l, p)   i == Place(l, p)   n(k) == IF k < i THEN k ELSE k + 1
<1>1. /\ GoodList(m) /\ Len(m) = Len(l) + 1 /\ Len(l) \in Nat /\ i \in 1..Len(l) + 1
      /\ \A k \in 1..Len(l) + 1 :
           LET was == IF k = i THEN p ELSE l[OldPlace(i, k)] IN
           m[k].start = was.start /\ m[k].len = was.len /\ m[k].flag = was.flag
  BY PartAddGives
<1>2. DOMAIN l = 1..Len(l) /\ DOMAIN m = 1..Len(l) + 1
  BY <1>1 DEF GoodList
<1> HIDE DEF m, i
<1>3. m[i].start = p.start /\ m[i].len = p.len /\ (IsPart(m[i]) <=> IsPart(p))
  BY <1>1 DEF IsPart
<1>4. ASSUME NEW k \in 1..Len(l)
      PROVE  /\ n(k) \in 1..Len(l) + 1
             /\ m[n(k)].start = l[k].start /\ m[n(k)].len = l[k].len /\ (IsPart(m[n(k)]) <=> IsPart(l[k]))
  <2>1. n(k) \in 1..Len(l) + 1 /\ n(k) # i /\ OldPlace(i, n(k)) = k
    BY <1>1 DEF OldPlace
  <2> HIDE DEF n
  <2> QED BY <1>1, <2>1 DEF IsPart
<1>5. ASSUME NEW k \in 1..Len(l) + 1, k # i PROVE \E h \in 1..Len(l) : n(h) = k
  <2>1. CASE k < i
    BY <1>1, <2>1
  <2>2. CASE i < k
    <3>1. k - 1 \in 1..Len(l) /\ ~(k - 1 < i) /\ (k - 1) + 1 = k
      BY <1>1, <2>2
    <3> QED BY <3>1
  <2> QED BY <1>1, <1>5, <2>1, <2>2
<1> HIDE DEF n
<1>6. ListedIn(m) \subseteq ListedIn(l) \union (IF IsPart(p) THEN {<<p.start, p.len>>} ELSE {})
  <2> SUFFICES ASSUME NEW k \in 1..Len(l) + 1, IsPart(m[k])
               PROVE  <<m[k].start, m[k].len>> \in ListedIn(l) \union (IF IsPart(p) THEN {<<p.start, p.len>>} ELSE {})
    BY <1>2 DEF ListedIn
  <2>1. CASE k = i
    BY <1>3, <2>1
  <2>2. CASE k # i
    <3>1. PICK h \in 1..Len(l) : n(h) = k
      BY <1>5, <2>2
    <3>2. IsPart(l[h]) /\ <<m[k].start, m[k].len>> = <<l[h].start, l[h].len>>
      BY <1>4, <3>1
    <3> QED BY <1>2, <3>2 DEF ListedIn
  <2> QED BY <2>1, <2>2
<1>7. ListedIn(l) \subseteq ListedIn(m)
  <2> SUFFICES ASSUME NEW k \in 1..Len(l), IsPart(l[k]) PROVE <<l[k].start, l[k].len>> \in ListedIn(m)
    BY <1>2 DEF ListedIn
  <2>1. n(k) \in DOMAIN m /\ IsPart(m[n(k)]) /\ <<m[n(k)].start, m[n(k)].len>> = <<l[k].start, l[k].len>>
    BY <1>2, <1>4
  <2> QED BY <2>1 DEF ListedIn
<1>8. IsPart(p) => <<p.start, p.len>> \in ListedIn(m)
  <2> SUFFICES ASSUME IsPart(p) PROVE <<m[i].start, m[i].len>> \in ListedIn(m)
    BY <1>3
  <2> QED BY <1>1, <1>2, <1>3 DEF ListedIn
<1> QED BY <1>6, <1>7, <1>8 DEF m

LEMMA AddIsNoFiller ==
  ASSUME NEW l, GoodList(l), NEW p, p \in Parts, HasNoFiller(l), p.flag # "unalloc"
  PROVE  HasNoFiller(PartAdd(l, p))
<1> DEFINE m == PartAdd(l, p)   i == Place(l, p)
<1>1. /\ Len(m) = Len(l) + 1 /\ Len(l) \in Nat /\ i \in 1..Len(l) + 1
      /\ \A k \in 1..Len(l) + 1 :
           LET was == IF k = i THEN p ELSE l[OldPlace(i, k)] IN m[k].flag = was.flag
  BY PartAddGives
<1> HIDE DEF m, i
<1>2. ASSUME NEW k \in 1..Len(l) + 1 PROVE m[k].flag # "unalloc"
  <2>1. k # i => OldPlace(i, k) \in 1..Len(l)
    BY <1>1 DEF OldPlace
  <2>2. k # i => l[OldPlace(i, k)].flag # "unalloc"
    BY <2>1 DEF HasNoFiller
  <2> QED BY <1>1, <2>2
<1>3. HasNoFiller(m)
  BY <1>1, <1>2 DEF HasNoFiller
<1> QED BY <1>3 DEF m

-----------------------------------------------------------------------------
(* The tables that are being read *)

LEMMA FrameTypes ==
  ASSUME NEW fs, Nested(fs)
  PROVE  /\ fs \in Seq(Frames) /\ Len(fs) \in Nat /\ Len(fs) >= 1
         /\ \A f \in 1..Len(fs) :
              /\ fs[f] \in Frames /\ fs[f].at \in Nat /\ fs[f].metas \in Seq(MetaParts)
              /\ fs[f].entries \in Entries(AllKinds) /\ fs[f].i \in Nat /\ fs[f].i >= 1
<1>1. fs \in Seq(Frames) /\ Len(fs) \in Nat /\ Len(fs) >= 1
  BY DEF Nested
<1>2. \A f \in 1..Len(fs) : fs[f] \in Frames
  BY <1>1
<1>3. \A g \in Frames : /\ g.at \in Nat /\ g.metas \in Seq(MetaParts)
                        /\ g.entries \in Entries(AllKinds) /\ g.i \in Nat /\ g.i >= 1
  <2> HIDE DEF MetaParts, Entries
  <2> QED BY DEF Frames
<1> QED BY <1>1, <1>2, <1>3, Zenon

LEMMA TopIs ==
  ASSUME Nested(frames)
  PROVE  /\ Top = frames[Len(frames)] /\ Top \in Frames
         /\ Top.at \in Nat /\ Top.metas \in Seq(MetaParts) /\ Top.entries \in Entries(AllKinds)
         /\ Top.i \in Nat /\ Top.i >= 1
         /\ frames[1] \in Frames /\ frames[1].i \in Nat
         /\ frames[1].entries = Table(Try).entries
         /\ ~Extended => Len(frames) = 1 /\ Top = frames[1]
         /\ Extended => /\ kind = "dos" /\ frames[2].at \in Nat
                        /\ IsReached(frames[2].at, Top.at) /\ Top.entries = image.ext[Top.at]
<1>1. /\ Len(frames) \in Nat /\ Len(frames) >= 1
      /\ \A f \in 1..Len(frames) :
           /\ frames[f] \in Frames /\ frames[f].at \in Nat /\ frames[f].metas \in Seq(MetaParts)
           /\ frames[f].entries \in Entries(AllKinds) /\ frames[f].i \in Nat /\ frames[f].i >= 1
  BY FrameTypes
<1>2. Top = frames[Len(frames)]
  BY DEF Top, Last
<1>3. Len(frames) \in 1..Len(frames) /\ 1 \in 1..Len(frames)
  BY <1>1
<1>4. ~Extended => Len(frames) = 1 /\ Top = frames[1]
  <2>1. Len(frames) \in Nat /\ Len(frames) >= 1
    BY <1>1
  <2>2. \A n \in Nat : n >= 1 /\ ~(n > 1) => n = 1
    OBVIOUS
  <2>3. ~Extended => Len(frames) = 1
    BY <2>1, <2>2, Zenon DEF Extended
  <2> QED BY <1>2, <2>3, Zenon
<1>5. ASSUME Extended
      PROVE  /\ kind = "dos" /\ frames[2].at \in Nat
             /\ IsReached(frames[2].at, Top.at) /\ Top.entries = image.ext[Top.at]
  <2>1. 2 \in 1..Len(frames) /\ Len(frames) \in 2..Len(frames)
    BY <1>1, <1>5 DEF Extended
  <2> QED BY <1>1, <1>2, <1>5, <2>1 DEF Extended, Nested
<1>6. frames[1].entries = Table(Try).entries
  BY DEF Nested
<1> QED BY <1>1, <1>2, <1>3, <1>4, <1>5, <1>6

\* The innermost table is read further.
LEMMA TopMoves ==
  ASSUME Nested(frames), NEW g \in Frames, g.at = Top.at, g.entries = Top.entries,
         NEW fs, fs = Front(frames) \o <<g>>
  PROVE  /\ Nested(fs) /\ Len(fs) = Len(frames)
         /\ fs[1] = IF Extended THEN frames[1] ELSE g
         /\ Extended => fs[2].at = frames[2].at
<1>1. frames \in Seq(Frames) /\ Len(frames) \in Nat /\ Len(frames) >= 1 /\ Top = frames[Len(frames)]
  BY FrameTypes, TopIs
<1>2. /\ fs \in Seq(Frames) /\ Len(fs) = Len(frames)
      /\ \A f \in 1..Len(frames) : fs[f] = IF f < Len(frames) THEN frames[f] ELSE g
  <2>1. /\ Front(frames) \in Seq(Frames) /\ Len(Front(frames)) = Len(frames) - 1
        /\ \A f \in 1..Len(frames) - 1 : Front(frames)[f] = frames[f]
    BY <1>1 DEF Front
  <2>2. <<g>> \in Seq(Frames) /\ Len(<<g>>) = 1 /\ <<g>>[1] = g
    OBVIOUS
  <2> HIDE DEF Front
  <2>3. fs \in Seq(Frames) /\ Len(fs) = Len(frames)
    BY <1>1, <2>1, <2>2
  <2>4. ASSUME NEW f \in 1..Len(frames) PROVE fs[f] = IF f < Len(frames) THEN frames[f] ELSE g
    BY <1>1, <2>1, <2>2
  <2> QED BY <2>3, <2>4
<1>3. \A f \in 1..Len(frames) : fs[f].at = frames[f].at /\ fs[f].entries = frames[f].entries
  BY <1>1, <1>2
<1>4. fs[1] = IF Extended THEN frames[1] ELSE g
  BY <1>1, <1>2 DEF Extended
<1>5. Extended => 2 \in 1..Len(frames) /\ fs[2].at = frames[2].at
  <2>1. Extended => 2 \in 1..Len(frames)
    BY <1>1 DEF Extended
  <2> QED BY <1>3, <2>1
<1>6. fs[1].entries = Table(Try).entries
  BY <1>1, <1>3 DEF Nested
<1>7. ASSUME NEW f \in 2..Len(fs)
      PROVE  IsReached(fs[2].at, fs[f].at) /\ fs[f].entries = image.ext[fs[f].at]
  <2>1. f \in 2..Len(frames) /\ f \in 1..Len(frames) /\ Extended
    BY <1>1, <1>2 DEF Extended
  <2>2. IsReached(frames[2].at, frames[f].at) /\ frames[f].entries = image.ext[frames[f].at]
    BY <2>1 DEF Nested
  <2> QED BY <1>3, <1>5, <2>1, <2>2
<1>8. Nested(fs)
  BY <1>1, <1>2, <1>6, <1>7 DEF Nested
<1> QED BY <1>2, <1>4, <1>5, <1>8

LEMMA OnwardIs ==
  ASSUME Nested(frames)
  PROVE  /\ Nested(Onward) /\ Len(Onward) = Len(frames)
         /\ Extended => Onward[1] = frames[1] /\ Onward[2].at = frames[2].at
         /\ ~Extended => Onward[1].i = Top.i + 1
<1> DEFINE g == [Top EXCEPT !.i = @ + 1]
<1>1. Top \in Frames
  BY TopIs
<1>2. g \in Frames /\ g.at = Top.at /\ g.entries = Top.entries /\ g.i = Top.i + 1
  BY <1>1 DEF Frames
<1>3. Onward = Front(frames) \o <<g>>
  BY DEF Onward
<1> HIDE DEF g
<1> QED BY <1>2, <1>3, TopMoves

\* An extended table is left.
LEMMA FrontIs ==
  ASSUME Nested(frames), Extended
  PROVE  Nested(Front(frames)) /\ Front(frames)[1] = frames[1]
<1> DEFINE fs == Front(frames)
<1>1. frames \in Seq(Frames) /\ Len(frames) \in Nat /\ Len(frames) > 1
  BY FrameTypes DEF Extended
<1>2. /\ fs \in Seq(Frames) /\ Len(fs) = Len(frames) - 1
      /\ \A f \in 1..Len(frames) - 1 : fs[f] = frames[f]
  BY <1>1 DEF Front
<1> HIDE DEF fs
<1>3. fs[1] = frames[1]
  BY <1>1, <1>2
<1>4. ASSUME NEW f \in 2..Len(fs)
      PROVE  IsReached(fs[2].at, fs[f].at) /\ fs[f].entries = image.ext[fs[f].at]
  <2>1. f \in 2..Len(frames) /\ fs[f] = frames[f] /\ fs[2] = frames[2]
    BY <1>1, <1>2
  <2> QED BY <2>1 DEF Nested
<1>5. Nested(fs)
  BY <1>1, <1>2, <1>3, <1>4 DEF Nested
<1> QED BY <1>3, <1>5 DEF fs

LEMMA BaseIs ==
  ASSUME Nested(frames)
  PROVE  Nested(<<frames[1]>>)
<1>1. frames[1] \in Frames
  BY TopIs
<1>2. <<frames[1]>> \in Seq(Frames) /\ Len(<<frames[1]>>) = 1 /\ <<frames[1]>>[1] = frames[1]
  BY <1>1
<1> QED BY <1>2 DEF Nested

\* An extended table is entered.
LEMMA EnteredIs ==
  ASSUME NEW fs, Nested(fs), kind = "dos", disk \in DOMAIN Disks,
         NEW s, IsReached(IF Len(fs) > 1 THEN fs[2].at ELSE s, s),
         NEW m \in Seq(MetaParts), NEW gs, gs = Append(fs, Frame(s, m, image.ext[s]))
  PROVE  Nested(gs) /\ gs[1] = fs[1]
<1> DEFINE g == Frame(s, m, image.ext[s])
<1>1. fs \in Seq(Frames) /\ Len(fs) \in Nat /\ Len(fs) >= 1
  BY FrameTypes
<1>2. s \in Nat /\ image.ext[s] \in Entries(AllKinds)
  BY DiskTypes DEF IsReached
<1>3. g \in Frames /\ g.at = s /\ g.entries = image.ext[s]
  BY <1>2 DEF Frame, Frames
<1> HIDE DEF g
<1>4. /\ gs \in Seq(Frames) /\ Len(gs) = Len(fs) + 1 /\ gs[Len(fs) + 1] = g
      /\ \A f \in 1..Len(fs) : gs[f] = fs[f]
  BY <1>1, <1>3 DEF g
<1>5. gs[1] = fs[1] /\ gs[1].entries = Table(Try).entries
  BY <1>1, <1>4 DEF Nested
<1>6. gs[2].at = IF Len(fs) > 1 THEN fs[2].at ELSE s
  BY <1>1, <1>3, <1>4
<1>7. ASSUME NEW f \in 2..Len(gs)
      PROVE  IsReached(gs[2].at, gs[f].at) /\ gs[f].entries = image.ext[gs[f].at]
  <2>1. CASE f = Len(gs)
    BY <1>3, <1>4, <1>6, <2>1
  <2>2. CASE f # Len(gs)
    <3>1. f \in 2..Len(fs) /\ Len(fs) > 1 /\ gs[f] = fs[f]
      BY <1>1, <1>4, <2>2
    <3> QED BY <1>6, <3>1 DEF Nested
  <2> QED BY <2>1, <2>2
<1>8. Nested(gs)
  BY <1>1, <1>4, <1>5, <1>7 DEF Nested
<1> QED BY <1>5, <1>8

-----------------------------------------------------------------------------
(* The entries that are read *)

\* Every set that holds the tables holds the first ones and what they lead to.
LEMMA FirstReached ==
  ASSUME NEW b, b \in ExtOf(image.mbr.entries), b \in DOMAIN image.ext
  PROVE  IsReached(b, b)
BY Zenon DEF IsReached, HoldsTables

LEMMA NextReached ==
  ASSUME NEW b, NEW s, IsReached(b, s), NEW x, x \in ExtOf(image.ext[s]), x # 0,
         b + x \in DOMAIN image.ext
  PROVE  IsReached(b, b + x)
<1> SUFFICES ASSUME NEW S \in SUBSET (ExtOf(image.mbr.entries) \X DOMAIN image.ext), HoldsTables(S)
             PROVE  <<b, b + x>> \in S
  BY Zenon DEF IsReached
<1>1. <<b, s>> \in S
  BY Zenon DEF IsReached
<1>2. \A t \in S : \A y \in ExtOf(image.ext[t[2]]) \ {0} :
        t[1] + y \in DOMAIN image.ext => <<t[1], t[1] + y>> \in S
  BY Zenon DEF HoldsTables
<1>3. \A y \in ExtOf(image.ext[s]) \ {0} : b + y \in DOMAIN image.ext => <<b, b + y>> \in S
  BY <1>1, <1>2
<1> HIDE DEF HoldsTables, ExtOf
<1> QED BY <1>3

LEMMA ReachedIsTable ==
  ASSUME NEW b, NEW s, IsReached(b, s)
  PROVE  s \in Tables
<1>1. /\ s \in DOMAIN image.ext
      /\ \A S \in SUBSET (ExtOf(image.mbr.entries) \X DOMAIN image.ext) :
           HoldsTables(S) => <<b, s>> \in S
  BY Zenon DEF IsReached
<1>2. <<b, s>>[2] = s
  OBVIOUS
<1> QED BY <1>1, <1>2, Zenon DEF Tables

LEMMA EntryTypes ==
  ASSUME NEW kinds, NEW es \in Entries(kinds), NEW i \in 1..Len(es)
  PROVE  es[i].start \in Nat /\ es[i].len \in Nat /\ es[i].kind \in kinds
<1> DEFINE E == [start : Nat, len : Nat, kind : kinds, ok : BOOLEAN]
<1>1. es \in Seq(E)
  BY DEF Entries
<1> HIDE DEF E
<1>2. es[i] \in E
  BY <1>1
<1> QED BY <1>2 DEF E

LEMMA EntryIs ==
  ASSUME disk \in DOMAIN Disks, Nested(frames), InTable,
         Try.bs \in Nat \ {0}, Try.place \in Places(kind), Table(Try) # NULL
  PROVE  /\ Top.i \in DOMAIN Top.entries /\ Top.i \in 1..Len(Top.entries)
         /\ Entry.start \in Nat /\ Entry.len \in Nat /\ Entry.kind \in AllKinds
         /\ Start \in Nat /\ (~Extended => Start = Entry.start)
         /\ Part(Start, Entry.len, Flag) \in Parts
         /\ Part(Start, Entry.len, Flag).flag = Flag /\ Flag # "unalloc"
         /\ Entry.kind = "ext" => kind = "dos"
<1>1. /\ Top.i \in Nat /\ Top.i >= 1 /\ Top.at \in Nat /\ Top.entries \in Entries(AllKinds)
      /\ Top.i <= Len(Top.entries) /\ (Extended => frames[2].at \in Nat)
  BY TopIs DEF InTable
<1>2. Top.i \in 1..Len(Top.entries) /\ DOMAIN Top.entries = 1..Len(Top.entries)
  BY <1>1 DEF Entries
<1>4. Entry.start \in Nat /\ Entry.len \in Nat /\ Entry.kind \in AllKinds
  BY <1>1, <1>2, EntryTypes DEF Entry
<1>5. Start \in Nat /\ (~Extended => Start = Entry.start)
  <2>1. CASE ~Extended
    BY <1>4, <2>1 DEF Start
  <2>2. CASE Extended
    <3>1. frames[2].at \in Nat /\ Top.at \in Nat /\ Entry.start \in Nat
      BY <1>1, <1>4, <2>2
    <3>2. Start = IF Entry.kind = "ext" THEN frames[2].at + Entry.start ELSE Top.at + Entry.start
      BY <2>2, Zenon DEF Start
    <3> QED BY <2>2, <3>1, <3>2
  <2> QED BY <2>1, <2>2
<1>6. Flag \in PartFlags /\ Flag # "unalloc"
  BY DEF Flag, PartFlags
<1>7. Part(Start, Entry.len, Flag) \in Parts /\ Part(Start, Entry.len, Flag).flag = Flag
  BY <1>4, <1>5, <1>6 DEF Part, Parts
<1>8. Entry.kind = "ext" => kind = "dos"
  <2>1. CASE Extended
    BY <2>1, TopIs
  <2>2. CASE ~Extended /\ Try.place # "dos"
    <3>1. Table(Try) \in TablesOf(EntryKinds) /\ Top.entries = Table(Try).entries
      BY <2>2, TableTypes, TopIs
    <3>2. Top.entries \in Entries(EntryKinds)
      BY <3>1 DEF TablesOf
    <3>3. Entry.kind \in EntryKinds
      BY <1>2, <3>2, EntryTypes DEF Entry
    <3> QED BY <3>3 DEF EntryKinds
  <2>3. CASE Try.place = "dos"
    BY <2>3 DEF Places
  <2> QED BY <2>1, <2>2, <2>3
<1> QED BY <1>2, <1>4, <1>5, <1>6, <1>7, <1>8

\* An allocated part of an extended table is a logical one.
LEMMA LogicalIs ==
  ASSUME Nested(frames), Extended, Top.i \in DOMAIN Top.entries,
         EntryIsPart("dos", Entry), Entry.start # 0
  PROVE  <<Top.at + Entry.start, Entry.len>> \in LogicalParts
<1>1. Top.entries = image.ext[Top.at] /\ Top.at \in Tables
  BY TopIs, ReachedIsTable
<1>2. <<Top.at + Entry.start, Entry.len>> \in Logical(Top.at)
  BY <1>1 DEF Logical, Entry
<1> QED BY <1>1, <1>2 DEF LogicalParts

LEMMA TopPartsFirst ==
  ASSUME Table(Try).entries \in Entries(AllKinds)
  PROVE  TopParts(1) = {}
<1>1. \A h \in DOMAIN Table(Try).entries : ~(h < 1)
  BY DEF Entries
<1> QED BY <1>1 DEF TopParts

LEMMA TopPartsAll ==
  ASSUME Table(Try).entries \in Entries(AllKinds), NEW i \in Nat, i > Len(Table(Try).entries)
  PROVE  TopParts(i) = InTheTable(kind)
<1>1. \A h \in DOMAIN Table(Try).entries : h < i
  BY DEF Entries
<1> QED BY <1>1 DEF TopParts, InTheTable, Try

LEMMA TopPartsNext ==
  ASSUME Table(Try).entries \in Entries(AllKinds), NEW i \in DOMAIN Table(Try).entries
  PROVE  TopParts(i + 1) = TopParts(i) \union
           (IF EntryIsPart(kind, Table(Try).entries[i])
            THEN {<<Table(Try).entries[i].start, Table(Try).entries[i].len>>} ELSE {})
<1> DEFINE entries == Table(Try).entries
<1>1. /\ i \in Nat /\ \A h \in DOMAIN entries : h < i + 1 <=> h < i \/ h = i
      /\ ~(i < i)
  <2>1. DOMAIN entries \subseteq Nat
    BY DEF Entries
  <2> HIDE DEF entries
  <2>2. i \in Nat /\ \A h \in DOMAIN entries : h \in Nat
    BY <2>1 DEF entries
  <2>3. \A h \in Nat : h < i + 1 <=> h < i \/ h = i
    BY <2>2
  <2> QED BY <2>2, <2>3
<1>2. \A n : TopParts(n) = {<<entries[j].start, entries[j].len>> :
               j \in {h \in DOMAIN entries : h < n /\ EntryIsPart(kind, entries[h])}}
  BY DEF TopParts
<1> HIDE DEF entries, EntryIsPart
<1> QED BY <1>1, <1>2 DEF entries

-----------------------------------------------------------------------------
(* Every step keeps the invariant of the lists *)

LEMMA LoadTypes ==
  ASSUME IInv, VInv, pc \in LoadingPcs \union {"kind"}, turn \in 1..5
  PROVE  /\ disk \in DOMAIN Disks /\ kind \in KindSet /\ kind \notin Before /\ prev # kind
         /\ attempt[kind] \in 1..Len(Attempts(kind)) /\ GoodList(list)
         /\ Try = TryOf(kind) /\ Try.bs \in Nat \ {0} /\ Try.place \in Places(kind)
         /\ Blocks(Try.bs) \in Nat
<1>1. kind \in KindSet /\ kind \notin Before
  BY KindIsNew
<1>2. pc # "returned"
  BY DEF LoadingPcs
<1>3. prev # kind
  BY <1>1, <1>2, NullIsNoType DEF IInv, Competition
<1>4. disk \in DOMAIN Disks /\ attempt[kind] \in 1..Len(Attempts(kind)) /\ GoodList(list)
  BY <1>1 DEF VInv, ListsInv, list
<1> QED BY <1>1, <1>3, <1>4, TryTypes DEF Try

\* A step of the loading of one type.
LEMMA LoadStep ==
  ASSUME IInv, VInv, pc \in LoadingPcs \union {"kind"}, turn \in 1..5, pc' \in LoadingPcs,
         UNCHANGED <<disk, turn, prev, found>>,
         NEW l, GoodList(l), DOMAIN parts' = KindSet, parts'[kind] = l,
         \A k \in KindSet \ {kind} : parts'[k] = parts[k],
         attempt' \in [KindSet -> Nat], attempt'[kind] \in 1..Len(Attempts(kind)),
         \A k \in KindSet \ {kind} : attempt'[k] = attempt[k],
         at' \in Nat \ {0}, prevEnd' \in Nat
  PROVE  ListsInv' /\ FreshInv' /\ PrevInv' /\ list' = l
<1>1. kind' = kind /\ list' = l /\ Before' = Before
  BY DEF kind, list, Before
<1>2. kind \in KindSet /\ prev # kind
  BY LoadTypes
<1>3. \A k : Attempts(k)' = Attempts(k)
  BY SameDisk
<1>4. \A k \in KindSet : attempt'[k] \in 1..Len(Attempts(k)) /\ GoodList(parts'[k])
  BY DEF VInv, ListsInv
<1>5. ListsInv'
  BY <1>3, <1>4 DEF VInv, ListsInv
<1>6. FreshInv'
  <2>1. pc' \notin {"kind", "returned"} /\ pc # "returned"
    BY DEF LoadingPcs
  <2> QED BY <1>1, <2>1 DEF VInv, FreshInv
<1>7. PrevInv'
  <2> SUFFICES ASSUME prev # NULL PROVE Right(prev)' /\ Filled(prev)'
    BY DEF PrevInv
  <2>1. prev \in KindSet /\ Right(prev) /\ Filled(prev)
    BY DEF VInv, ListsInv, PrevInv
  <2>2. attempt'[prev] = attempt[prev] /\ parts'[prev] = parts[prev]
    BY <1>2, <2>1
  <2>3. Right(prev)' = Right(prev) /\ Filled(prev)' = Filled(prev)
    BY <2>2, SameParts
  <2> QED BY <2>1, <2>3
<1> QED BY <1>1, <1>5, <1>6, <1>7

\* One that leaves the attempt alone.
LEMMA ListStep ==
  ASSUME IInv, VInv, pc \in LoadingPcs, pc' \in LoadingPcs,
         UNCHANGED <<disk, turn, attempt, prev, found>>,
         NEW l, GoodList(l), parts' = [parts EXCEPT ![kind] = l] \/ (parts' = parts /\ l = list),
         at' \in Nat \ {0}, prevEnd' \in Nat
  PROVE  ListsInv' /\ FreshInv' /\ PrevInv' /\ list' = l
<1>1. turn \in 1..5
  BY DEF IInv
<1>2. kind \in KindSet /\ DOMAIN parts = KindSet
  BY <1>1, LoadTypes DEF VInv, ListsInv
<1>3. DOMAIN parts' = KindSet /\ parts'[kind] = l /\ \A k \in KindSet \ {kind} : parts'[k] = parts[k]
  BY <1>2 DEF list
<1>4. attempt' \in [KindSet -> Nat] /\ attempt'[kind] \in 1..Len(Attempts(kind))
  BY <1>2 DEF VInv, ListsInv
<1>5. \A k \in KindSet \ {kind} : attempt'[k] = attempt[k]
  OBVIOUS
<1> QED BY <1>1, <1>3, <1>4, <1>5, LoadStep

LEMMA BeginKindKeepsVInv == ASSUME IInv, VInv, BeginKind PROVE VInv'
<1>1. /\ turn \in 1..5 /\ pc = "kind" /\ pc' = "try" /\ pc' \in LoadingPcs
      /\ UNCHANGED <<disk, turn, prev, found, parts, at, prevEnd>>
      /\ attempt' = [attempt EXCEPT ![kind] = 1]
  BY TypesInOrder DEF IInv, BeginKind, LoadingPcs
<1>2. kind \in KindSet /\ kind \notin Before /\ GoodList(list) /\ disk \in DOMAIN Disks
  BY <1>1, LoadTypes
<1>3. 1 \in 1..Len(Attempts(kind))
  BY <1>2, AttemptsTypes
<1>4. /\ attempt \in [KindSet -> Nat] /\ DOMAIN parts = KindSet /\ at \in Nat \ {0} /\ prevEnd \in Nat
      /\ list = << >>
  BY <1>1, <1>2 DEF VInv, ListsInv, FreshInv, list
<1>5. /\ attempt' \in [KindSet -> Nat] /\ attempt'[kind] = 1
      /\ \A k \in KindSet \ {kind} : attempt'[k] = attempt[k]
  BY <1>1, <1>2, <1>4
<1>6. parts'[kind] = list /\ \A k \in KindSet \ {kind} : parts'[k] = parts[k]
  BY <1>1 DEF list
<1>7. ListsInv' /\ FreshInv' /\ PrevInv' /\ list' = list
  BY <1>1, <1>2, <1>3, <1>4, <1>5, <1>6, LoadStep
<1>8. LoadInv'
  BY <1>1, <1>4, <1>7 DEF LoadInv, HasNoFiller
<1> QED BY <1>7, <1>8 DEF VInv

\* After a failure nothing is left in the list, but for Mac.
LEMMA LoadFailsKeepsVInv ==
  ASSUME IInv, VInv, pc \in {"try", "entry", "finish"}, LoadFails PROVE VInv'
<1>1. turn \in 1..5 /\ pc \in LoadingPcs /\ pc # "returned"
  BY DEF IInv, LoadingPcs
<1>2. /\ kind \in KindSet /\ kind \notin Before /\ prev # kind /\ GoodList(list)
      /\ attempt[kind] \in 1..Len(Attempts(kind)) /\ disk \in DOMAIN Disks
  BY <1>1, LoadTypes
<1>3. /\ attempt \in [KindSet -> Nat] /\ DOMAIN parts = KindSet /\ HasNoFiller(list)
      /\ at \in Nat \ {0} /\ prevEnd \in Nat
  BY DEF VInv, ListsInv, LoadInv
<1>4. GoodList(<< >>) /\ HasNoFiller(<< >>)
  BY DEF GoodList, IsInOrder, IsNumbered, HasNoFiller
<1>5. UNCHANGED <<disk, at, prevEnd, prev, found>>
  BY DEF LoadFails
<1>6. CASE attempt[kind] < Len(Attempts(kind)) /\ TryAgain
  <2> DEFINE l == IF LeftOver THEN list ELSE << >>
  <2>1. /\ turn' = turn /\ pc' = "try" /\ pc' \in LoadingPcs
        /\ attempt' = [attempt EXCEPT ![kind] = @ + 1]
        /\ parts' = IF LeftOver THEN parts ELSE [parts EXCEPT ![kind] = << >>]
    BY <1>6 DEF TryAgain, LoadingPcs
  <2>2. /\ attempt' \in [KindSet -> Nat] /\ attempt'[kind] = attempt[kind] + 1
        /\ \A k \in KindSet \ {kind} : attempt'[k] = attempt[k]
    BY <1>2, <1>3, <2>1
  <2>3. attempt'[kind] \in 1..Len(Attempts(kind))
    BY <1>2, <1>6, <2>2
  <2>4. /\ DOMAIN parts' = KindSet /\ parts'[kind] = l
        /\ \A k \in KindSet \ {kind} : parts'[k] = parts[k]
    BY <1>2, <1>3, <2>1 DEF list
  <2>5. GoodList(l) /\ HasNoFiller(l)
    BY <1>2, <1>3, <1>4
  <2>6. kind # "mac" => l = << >>
    BY DEF LeftOver
  <2> HIDE DEF l
  <2>7. ListsInv' /\ FreshInv' /\ PrevInv' /\ list' = l
    BY <1>1, <1>3, <1>5, <2>1, <2>2, <2>3, <2>4, <2>5, LoadStep
  <2>8. kind' = kind
    BY <2>1 DEF kind
  <2>9. LoadInv'
    BY <2>1, <2>5, <2>6, <2>7, <2>8 DEF LoadInv
  <2> QED BY <2>7, <2>9 DEF VInv
<1>7. CASE GiveUp
  <2>1. /\ turn' = turn + 1 /\ pc' = "kind" /\ attempt' = attempt
        /\ parts' = [parts EXCEPT ![kind] = << >>]
    BY <1>7 DEF GiveUp
  <2>2. Before' = Before \union {kind}
    BY <1>1, <2>1, BeforeGrows
  <2>3. /\ DOMAIN parts' = KindSet /\ parts'[kind] = << >>
        /\ \A k \in KindSet \ {kind} : parts'[k] = parts[k]
    BY <1>2, <1>3, <2>1
  <2>4. ListsInv'
    <3>1. \A k : Attempts(k)' = Attempts(k)
      BY <1>5, SameDisk
    <3> QED BY <1>4, <1>5, <2>1, <2>3, <3>1 DEF VInv, ListsInv
  <2>5. LoadInv'
    BY <2>1 DEF LoadInv
  <2>6. FreshInv'
    BY <1>1, <2>1, <2>2, <2>3 DEF VInv, FreshInv
  <2>7. PrevInv'
    <3> SUFFICES ASSUME prev # NULL PROVE Right(prev)' /\ Filled(prev)'
      BY <1>5 DEF PrevInv
    <3>1. prev \in KindSet /\ Right(prev) /\ Filled(prev)
      BY DEF VInv, ListsInv, PrevInv
    <3>2. attempt'[prev] = attempt[prev] /\ parts'[prev] = parts[prev]
      BY <1>2, <2>1, <2>3, <3>1
    <3>3. Right(prev)' = Right(prev) /\ Filled(prev)' = Filled(prev)
      BY <1>5, <3>2, SameParts
    <3> QED BY <1>5, <3>1, <3>3
  <2> QED BY <2>4, <2>5, <2>6, <2>7 DEF VInv
<1> QED BY <1>6, <1>7 DEF LoadFails

LEMMA EntryStep ==
  ASSUME IInv, VInv, pc = "entry", Reads, NEW l, GoodList(l), HasNoFiller(l),
         parts' = [parts EXCEPT ![kind] = l] \/ (parts' = parts /\ l = list),
         NEW fs, frames' = fs, Nested(fs), ListedTo(fs[1].i, ListedIn(l))
  PROVE  VInv'
<1>1. /\ UNCHANGED <<disk, turn, attempt, at, prevEnd, prev, found, pc>>
      /\ pc \in LoadingPcs /\ pc' \in LoadingPcs
  BY DEF Reads, LoadingPcs
<1>2. at' \in Nat \ {0} /\ prevEnd' \in Nat
  BY <1>1 DEF VInv, ListsInv
<1>3. ListsInv' /\ FreshInv' /\ PrevInv' /\ list' = l
  BY <1>1, <1>2, ListStep
<1>4. /\ Table(Try)' = Table(Try) /\ \A gs : Nested(gs)' = Nested(gs)
      /\ \A i, L : ListedTo(i, L)' = ListedTo(i, L)
  BY <1>1, SameTry
<1>5. Table(Try)' # NULL
  BY <1>4 DEF VInv, LoadInv
<1>6. Nested(frames)'
  BY <1>4
<1>7. ListedIn(list)' = ListedIn(l)
  BY <1>3 DEF ListedIn
<1>8. ListedTo(frames[1].i, ListedIn(list))'
  BY <1>4, <1>7
<1>9. HasNoFiller(list)'
  BY <1>3 DEF HasNoFiller
<1>10. pc' = "entry"
  BY <1>1
<1>11. LoadInv'
  BY <1>5, <1>6, <1>8, <1>9, <1>10 DEF LoadInv
<1> QED BY <1>3, <1>11 DEF VInv

\* What holds while the entries are read.
LEMMA EntryInv ==
  ASSUME IInv, VInv, pc = "entry"
  PROVE  /\ disk \in DOMAIN Disks /\ GoodList(list) /\ HasNoFiller(list)
         /\ Try.bs \in Nat \ {0} /\ Try.place \in Places(kind)
         /\ Table(Try) # NULL /\ Table(Try).entries \in Entries(AllKinds)
         /\ Nested(frames) /\ ListedTo(frames[1].i, ListedIn(list))
<1>1. turn \in 1..5 /\ pc \in LoadingPcs
  BY DEF IInv, LoadingPcs
<1>2. /\ disk \in DOMAIN Disks /\ GoodList(list)
      /\ Try.bs \in Nat \ {0} /\ Try.place \in Places(kind)
  BY <1>1, LoadTypes
<1>3. /\ HasNoFiller(list) /\ Table(Try) # NULL /\ Nested(frames)
      /\ ListedTo(frames[1].i, ListedIn(list))
  BY DEF VInv, LoadInv
<1>4. Table(Try) \in TablesOf(AllKinds)
  BY <1>2, <1>3, TableTypes
<1> QED BY <1>2, <1>3, <1>4 DEF TablesOf

\* More logical parts may be listed of a DOS table, and nothing is lost.
LEMMA ListedMore ==
  ASSUME NEW i, NEW L, ListedTo(i, L), NEW X,
         X # {} => kind = "dos" /\ X \subseteq LogicalParts
  PROVE  ListedTo(i, L \union X)
BY DEF ListedTo

\* The primary table is read past an entry, which is listed if it is a part.
LEMMA ListedOn ==
  ASSUME Table(Try).entries \in Entries(AllKinds), NEW i \in DOMAIN Table(Try).entries,
         NEW L, ListedTo(i, L), NEW X,
         X = IF EntryIsPart(kind, Table(Try).entries[i])
             THEN {<<Table(Try).entries[i].start, Table(Try).entries[i].len>>} ELSE {}
  PROVE  ListedTo(i + 1, L \union X)
<1>1. TopParts(i + 1) = TopParts(i) \union X
  BY TopPartsNext
<1> QED BY <1>1 DEF ListedTo

LEMMA ReadTableKeepsVInv == ASSUME IInv, VInv, ReadTable PROVE VInv'
<1>1. /\ pc = "try" /\ pc \in LoadingPcs /\ pc' = "entry" /\ pc' \in LoadingPcs /\ Table(Try) # NULL
      /\ UNCHANGED <<disk, turn, attempt, at, prevEnd, parts, prev, found>>
      /\ frames' = <<Frame(0, Metas(Try, Table(Try)), Table(Try).entries)>>
      /\ turn \in 1..5
  BY DEF ReadTable, LoadingPcs, IInv
<1>2. /\ disk \in DOMAIN Disks /\ GoodList(list)
      /\ Try.bs \in Nat \ {0} /\ Try.place \in Places(kind)
  BY <1>1, LoadTypes
<1>3. /\ Table(Try).entries \in Entries(AllKinds) /\ Metas(Try, Table(Try)) \in Seq(MetaParts)
  BY <1>1, <1>2, TableTypes, MetasTypes DEF TablesOf
<1> DEFINE g == Frame(0, Metas(Try, Table(Try)), Table(Try).entries)
<1>4. g \in Frames /\ g.entries = Table(Try).entries /\ g.i = 1
  BY <1>3 DEF Frame, Frames
<1>5. frames' = <<g>>
  BY <1>1
<1> HIDE DEF g
<1>6. <<g>> \in Seq(Frames) /\ Len(<<g>>) = 1 /\ <<g>>[1] = g
  BY <1>4
<1>7. Nested(<<g>>)
  BY <1>4, <1>6 DEF Nested
<1>8. HasNoFiller(list) /\ at' \in Nat \ {0} /\ prevEnd' \in Nat /\ (kind # "mac" => list = << >>)
  BY <1>1 DEF VInv, LoadInv, ListsInv
<1>9. ListedTo(1, ListedIn(list))
  <2>1. TopParts(1) = {}
    BY <1>3, TopPartsFirst
  <2>2. kind # "mac" => ListedIn(list) = {}
    BY <1>8 DEF ListedIn
  <2> QED BY <2>1, <2>2 DEF ListedTo
<1>10. ListsInv' /\ FreshInv' /\ PrevInv' /\ list' = list
  BY <1>1, <1>2, <1>8, ListStep
<1>11. /\ Table(Try)' = Table(Try) /\ \A gs : Nested(gs)' = Nested(gs)
       /\ \A i, L : ListedTo(i, L)' = ListedTo(i, L)
  BY <1>1, SameTry
<1>12. Nested(frames)'
  BY <1>5, <1>7, <1>11
<1>13. frames'[1].i = 1
  BY <1>4, <1>5, <1>6
<1>14. ListedIn(list)' = ListedIn(list)
  BY <1>10 DEF ListedIn
<1>15. ListedTo(frames[1].i, ListedIn(list))'
  BY <1>9, <1>11, <1>13, <1>14
<1>16. HasNoFiller(list)'
  BY <1>8, <1>10 DEF HasNoFiller
<1>17. LoadInv'
  BY <1>1, <1>11, <1>12, <1>15, <1>16 DEF LoadInv
<1> QED BY <1>10, <1>17 DEF VInv

LEMMA ListMetaKeepsVInv == ASSUME IInv, VInv, ListMeta PROVE VInv'
<1> DEFINE p == Head(Top.metas)   g == [Top EXCEPT !.metas = Tail(@)]
<1>1. /\ pc = "entry" /\ Top.metas # << >> /\ Reads
      /\ parts' = [parts EXCEPT ![kind] = PartAdd(@, p)]
      /\ frames' = Front(frames) \o <<g>>
  BY DEF ListMeta, AddToList
<1>2. GoodList(list) /\ HasNoFiller(list) /\ Nested(frames) /\ ListedTo(frames[1].i, ListedIn(list))
  BY <1>1, EntryInv
<1>3. Top \in Frames /\ Top.metas \in Seq(MetaParts) /\ (~Extended => Top = frames[1])
  BY <1>2, TopIs
<1>4. p \in MetaParts /\ Tail(Top.metas) \in Seq(MetaParts)
  BY <1>1, <1>3
<1>5. g \in Frames /\ g.at = Top.at /\ g.entries = Top.entries /\ g.i = Top.i
  BY <1>3, <1>4 DEF Frames
<1>6. p \in Parts /\ p.flag = "meta" /\ ~IsPart(p)
  BY <1>4 DEF MetaParts, IsMeta, IsPart
<1> HIDE DEF p, g
<1> DEFINE l == PartAdd(list, p)   fs == Front(frames) \o <<g>>
<1>7. GoodList(l) /\ HasNoFiller(l) /\ ListedIn(l) = ListedIn(list)
  BY <1>2, <1>6, PartAddGives, AddLists, AddIsNoFiller
<1>8. Nested(fs) /\ fs[1] = IF Extended THEN frames[1] ELSE g
  BY <1>2, <1>5, TopMoves
<1>9. fs[1].i = frames[1].i
  BY <1>3, <1>5, <1>8
<1>10. parts' = [parts EXCEPT ![kind] = l] /\ frames' = fs
  BY <1>1 DEF list
<1> HIDE DEF l, fs
<1> QED BY <1>1, <1>2, <1>7, <1>8, <1>9, <1>10, EntryStep

\* While an entry is looked at.
LEMMA AtEntry ==
  ASSUME IInv, VInv, InTable
  PROVE  /\ Top.i \in DOMAIN Top.entries
         /\ Entry.start \in Nat /\ Entry.len \in Nat /\ Entry.kind \in AllKinds
         /\ Start \in Nat /\ (~Extended => Start = Entry.start)
         /\ Part(Start, Entry.len, Flag) \in Parts
         /\ Part(Start, Entry.len, Flag).flag = Flag /\ Flag # "unalloc"
         /\ Entry.kind = "ext" => kind = "dos"
         /\ ~Extended => /\ frames[1] = Top /\ Top.entries = Table(Try).entries
                         /\ Entry = Table(Try).entries[frames[1].i]
                         /\ frames[1].i \in DOMAIN Table(Try).entries
<1>1. pc = "entry"
  BY DEF InTable
<1>2. /\ Top.i \in DOMAIN Top.entries
      /\ Entry.start \in Nat /\ Entry.len \in Nat /\ Entry.kind \in AllKinds
      /\ Start \in Nat /\ (~Extended => Start = Entry.start)
      /\ Part(Start, Entry.len, Flag) \in Parts
      /\ Part(Start, Entry.len, Flag).flag = Flag /\ Flag # "unalloc"
      /\ Entry.kind = "ext" => kind = "dos"
  BY <1>1, EntryInv, EntryIs
<1>3. ~Extended => frames[1] = Top /\ Top.entries = Table(Try).entries
  BY <1>1, EntryInv, TopIs
<1>4. Entry = Top.entries[Top.i]
  BY DEF Entry
<1> QED BY <1>2, <1>3, <1>4, Zenon

\* What is listed of an entry is what the tables say of it.
LEMMA ListedOfEntry ==
  ASSUME IInv, VInv, InTable, NEW X,
         ~Extended => X = IF EntryIsPart(kind, Entry) THEN {<<Entry.start, Entry.len>>} ELSE {},
         Extended => X \subseteq LogicalParts
  PROVE  Nested(Onward) /\ ListedTo(Onward[1].i, ListedIn(list) \union X)
<1>1. /\ Nested(frames) /\ ListedTo(frames[1].i, ListedIn(list))
      /\ Table(Try).entries \in Entries(AllKinds)
  BY EntryInv DEF InTable
<1>2. /\ Nested(Onward)
      /\ Extended => Onward[1] = frames[1]
      /\ ~Extended => Onward[1].i = Top.i + 1
  BY <1>1, OnwardIs
<1>3. CASE Extended
  <2>1. kind = "dos"
    BY <1>1, <1>3, TopIs
  <2> QED BY <1>1, <1>2, <1>3, <2>1, ListedMore
<1>4. CASE ~Extended
  <2>1. /\ frames[1] = Top /\ Entry = Table(Try).entries[Top.i]
        /\ Top.i \in DOMAIN Table(Try).entries
    BY <1>4, AtEntry
  <2>2. ListedTo(Top.i + 1, ListedIn(list) \union X)
    BY <1>1, <1>4, <2>1, ListedOn
  <2> QED BY <1>2, <1>4, <2>2
<1> QED BY <1>3, <1>4

LEMMA SkipEntryKeepsVInv == ASSUME IInv, VInv, SkipEntry PROVE VInv'
<1>1. InTable /\ IsEmpty /\ frames' = Onward /\ Reads /\ parts' = parts /\ pc = "entry"
  BY DEF SkipEntry, InTable
<1>2. ~Extended => ~EntryIsPart(kind, Entry)
  BY <1>1 DEF IsEmpty, EntryIsPart
<1>3. Nested(Onward) /\ ListedTo(Onward[1].i, ListedIn(list) \union {})
  BY <1>1, <1>2, ListedOfEntry
<1>4. GoodList(list) /\ HasNoFiller(list)
  BY <1>1, EntryInv
<1>5. ListedIn(list) \union {} = ListedIn(list)
  OBVIOUS
<1> QED BY <1>1, <1>3, <1>4, <1>5, EntryStep

LEMMA ListPartKeepsVInv == ASSUME IInv, VInv, ListPart PROVE VInv'
<1> DEFINE p == Part(Start, Entry.len, Flag)   l == PartAdd(list, p)
           X == IF IsPart(p) THEN {<<p.start, p.len>>} ELSE {}
<1>1. /\ InTable /\ ~IsEmpty /\ Entry.kind # "ext" /\ frames' = Onward /\ Reads /\ pc = "entry"
      /\ parts' = [parts EXCEPT ![kind] = l]
  BY DEF ListPart, InUse, InTable, AddToList, list
<1>2. /\ p \in Parts /\ p.flag = Flag /\ Flag # "unalloc" /\ Entry.kind \in AllKinds
      /\ Top.i \in DOMAIN Top.entries /\ Entry.start \in Nat /\ Start \in Nat
      /\ (~Extended => Start = Entry.start)
  BY <1>1, AtEntry
<1>3. p.start = Start /\ p.len = Entry.len /\ (IsPart(p) <=> Flag \in {"alloc", "safety"})
  BY <1>2 DEF Part, IsPart
<1>4. Nested(frames) /\ GoodList(list) /\ HasNoFiller(list)
  BY <1>1, EntryInv
<1>5. Flag \in {"alloc", "safety"} <=> Entry.kind \in {"part", "safety"} \/ (Entry.kind = "whole" /\ Start # 0)
  BY <1>1, <1>2 DEF Flag, AllKinds, EntryKinds
<1>6. ~Extended => X = IF EntryIsPart(kind, Entry) THEN {<<Entry.start, Entry.len>>} ELSE {}
  <2>1. ~Extended => (EntryIsPart(kind, Entry) <=> Flag \in {"alloc", "safety"})
    BY <1>1, <1>2, <1>5 DEF EntryIsPart, IsEmpty
  <2> QED BY <1>2, <1>3, <2>1
<1>7. Extended => X \subseteq LogicalParts
  <2> SUFFICES ASSUME Extended, Flag \in {"alloc", "safety"} PROVE <<Start, Entry.len>> \in LogicalParts
    BY <1>3
  <2>1. kind = "dos" /\ Top.at \in Nat
    BY <1>4, TopIs
  <2>2. Start = Top.at + Entry.start
    BY <1>1 DEF Start
  <2>3. Entry.start # 0 /\ Entry.len # 0
    BY <1>1, <2>1 DEF IsEmpty
  <2>4. EntryIsPart("dos", Entry)
    BY <1>5, <2>3 DEF EntryIsPart
  <2> QED BY <1>2, <1>4, <2>2, <2>3, <2>4, LogicalIs
<1>8. GoodList(l) /\ HasNoFiller(l) /\ ListedIn(l) = ListedIn(list) \union X
  BY <1>2, <1>4, PartAddGives, AddLists, AddIsNoFiller
<1> HIDE DEF p, l, X
<1>9. Nested(Onward) /\ ListedTo(Onward[1].i, ListedIn(list) \union X)
  BY <1>1, <1>6, <1>7, ListedOfEntry
<1> QED BY <1>1, <1>8, <1>9, EntryStep

\* The loading of extended tables ends, or the primary table is read on.
LEMMA LeftIs ==
  ASSUME Nested(frames), NEW L, ListedTo(Onward[1].i, L), LeaveExtended
  PROVE  \E fs : frames' = fs /\ Nested(fs) /\ ListedTo(fs[1].i, L)
<1>1. /\ Nested(Onward) /\ (Extended => Onward[1] = frames[1])
  BY OnwardIs
<1>2. CASE Extended
  <2>1. frames' = <<frames[1]>> /\ Nested(<<frames[1]>>) /\ <<frames[1]>>[1] = frames[1]
    BY <1>2, BaseIs DEF LeaveExtended
  <2> QED BY <1>1, <1>2, <2>1
<1>3. CASE ~Extended
  <2>1. frames' = Onward
    BY <1>3 DEF LeaveExtended
  <2> QED BY <1>1, <2>1
<1> QED BY <1>2, <1>3

\* A table that an extended partition leads to is reached from the primary one.
LEMMA EntryLeads ==
  ASSUME IInv, VInv, InTable, ~IsEmpty, Entry.kind = "ext", Start \in DOMAIN image.ext
  PROVE  IsReached(IF Len(Onward) > 1 THEN Onward[2].at ELSE Start, Start)
<1>1. /\ Nested(frames) /\ disk \in DOMAIN Disks /\ Table(Try) # NULL
      /\ Try.bs \in Nat \ {0} /\ Try.place \in Places(kind)
  BY EntryInv DEF InTable
<1>2. /\ kind = "dos" /\ Top.i \in DOMAIN Top.entries
      /\ (~Extended => Start = Entry.start /\ Top.entries = Table(Try).entries)
  BY AtEntry
<1>3. Entry.len # 0 /\ (Extended => Entry.start # 0)
  BY <1>2 DEF IsEmpty
<1>4. Entry.start \in ExtOf(Top.entries)
  BY <1>2, <1>3, Zenon DEF ExtOf, Entry
<1>5. Len(Onward) = Len(frames) /\ (Extended => Onward[2].at = frames[2].at)
  BY <1>1, OnwardIs
<1>6. CASE Extended
  <2>1. IsReached(frames[2].at, Top.at) /\ Top.entries = image.ext[Top.at]
    BY <1>1, <1>6, TopIs
  <2>2. Start = frames[2].at + Entry.start
    BY <1>6 DEF Start
  <2>3. IsReached(frames[2].at, Start)
    BY <1>3, <1>4, <1>6, <2>1, <2>2, NextReached
  <2> QED BY <1>5, <1>6, <2>3 DEF Extended
<1>7. CASE ~Extended
  <2>1. Table(Try) = image.mbr
    BY <1>1, <1>2, TableTypes DEF Places
  <2>2. Start \in ExtOf(image.mbr.entries)
    BY <1>2, <1>4, <1>7, <2>1
  <2>3. IsReached(Start, Start)
    BY <2>2, FirstReached
  <2> QED BY <1>5, <1>7, <2>3 DEF Extended
<1> QED BY <1>6, <1>7

LEMMA ListExtendedKeepsVInv == ASSUME IInv, VInv, ListExtended PROVE VInv'
<1> DEFINE p == Part(Start, Entry.len, Flag)   l == PartAdd(list, p)
           g == Frame(Start, <<Part(Start, 1, "meta")>>, image.ext[Start])
           leads == Readable(Try.bs, Start) /\ Start \in DOMAIN image.ext
<1>1. /\ InTable /\ ~IsEmpty /\ Entry.kind = "ext" /\ Reads /\ pc = "entry"
      /\ parts' = [parts EXCEPT ![kind] = l]
  BY DEF ListExtended, InUse, InTable, AddToList, list
<1>2. frames' = Onward \/ (leads /\ frames' = Append(Onward, g)) \/ LeaveExtended
  BY DEF ListExtended
<1>3. p \in Parts /\ p.flag = "meta" /\ Start \in Nat /\ kind = "dos"
  BY <1>1, AtEntry DEF Flag
<1>4. ~EntryIsPart(kind, Entry)
  BY <1>1 DEF EntryIsPart
<1>5. Nested(Onward) /\ ListedTo(Onward[1].i, ListedIn(list) \union {})
  BY <1>1, <1>4, ListedOfEntry
<1>6. /\ GoodList(list) /\ HasNoFiller(list) /\ Nested(frames) /\ disk \in DOMAIN Disks
      /\ ListedIn(list) \union {} = ListedIn(list)
  BY <1>1, EntryInv
<1>7. GoodList(l) /\ HasNoFiller(l) /\ ListedIn(l) = ListedIn(list)
  BY <1>3, <1>6, PartAddGives, AddLists, AddIsNoFiller DEF IsPart
<1>8. \E fs : frames' = fs /\ Nested(fs) /\ ListedTo(fs[1].i, ListedIn(l))
  <2>1. CASE frames' = Onward
    BY <1>5, <1>6, <1>7, <2>1
  <2>2. CASE leads /\ frames' = Append(Onward, g)
    <3>1. Part(Start, 1, "meta") \in MetaParts
      BY <1>3 DEF Part, Parts, PartFlags, MetaParts, IsMeta
    <3>2. <<Part(Start, 1, "meta")>> \in Seq(MetaParts)
      BY <3>1
    <3>3. IsReached(IF Len(Onward) > 1 THEN Onward[2].at ELSE Start, Start)
      BY <1>1, <2>2, EntryLeads
    <3> DEFINE fs == Append(Onward, g)
    <3>4. fs = Append(Onward, Frame(Start, <<Part(Start, 1, "meta")>>, image.ext[Start]))
      OBVIOUS
    <3> HIDE DEF fs, g, p, l, leads
    <3>6. Nested(Onward) /\ kind = "dos" /\ disk \in DOMAIN Disks
      BY <1>3, <1>5, <1>6
    <3>7. Nested(fs) /\ fs[1] = Onward[1]
      BY <3>2, <3>3, <3>4, <3>6, EnteredIs
    <3>5. frames' = fs
      BY <2>2 DEF fs
    <3> QED BY <1>5, <1>6, <1>7, <3>5, <3>7
  <2>3. CASE LeaveExtended
    BY <1>5, <1>6, <1>7, <2>3, LeftIs
  <2> QED BY <1>2, <2>1, <2>2, <2>3
<1> HIDE DEF p, l, g, leads
<1> QED BY <1>1, <1>7, <1>8, EntryStep

LEMMA ExtendedLoopKeepsVInv == ASSUME IInv, VInv, ExtendedLoop PROVE VInv'
<1>1. /\ InTable /\ Entry.kind = "ext" /\ Reads /\ pc = "entry" /\ parts' = parts /\ LeaveExtended
  BY DEF ExtendedLoop, InUse, InTable
<1>2. ~EntryIsPart(kind, Entry)
  BY <1>1 DEF EntryIsPart
<1>3. ListedTo(Onward[1].i, ListedIn(list) \union {})
  BY <1>1, <1>2, ListedOfEntry
<1>4. /\ GoodList(list) /\ HasNoFiller(list) /\ Nested(frames)
      /\ ListedIn(list) \union {} = ListedIn(list)
  BY <1>1, EntryInv
<1>5. \E fs : frames' = fs /\ Nested(fs) /\ ListedTo(fs[1].i, ListedIn(list))
  BY <1>1, <1>3, <1>4, LeftIs
<1> QED BY <1>1, <1>4, <1>5, EntryStep

\* The primary table ends when all that it lists is listed.
LEMMA TableEndsKeepsVInv == ASSUME IInv, VInv, TableEnds PROVE VInv'
<1>1. /\ pc = "entry" /\ pc \in LoadingPcs /\ Top.i > Len(Top.entries)
      /\ frames' = Front(frames) /\ pc' = IF Extended THEN "entry" ELSE "finish"
      /\ UNCHANGED <<disk, turn, attempt, at, prevEnd, parts, open, prev, found>>
  BY DEF TableEnds, LoadingPcs
<1>2. /\ disk \in DOMAIN Disks /\ GoodList(list) /\ HasNoFiller(list)
      /\ Table(Try) # NULL /\ Table(Try).entries \in Entries(AllKinds)
      /\ Nested(frames) /\ ListedTo(frames[1].i, ListedIn(list))
  BY <1>1, EntryInv
<1>3. CASE Extended
  <2>1. Nested(Front(frames)) /\ Front(frames)[1] = frames[1]
    BY <1>2, <1>3, FrontIs
  <2>2. Reads
    BY <1>1, <1>3 DEF Reads
  <2> QED BY <1>1, <1>2, <2>1, <2>2, EntryStep
<1>4. CASE ~Extended
  <2>1. pc' = "finish" /\ pc' \in LoadingPcs /\ at' \in Nat \ {0} /\ prevEnd' \in Nat
    BY <1>1, <1>4 DEF LoadingPcs, VInv, ListsInv
  <2>2. ListsInv' /\ FreshInv' /\ PrevInv' /\ list' = list
    BY <1>1, <1>2, <2>1, ListStep
  <2>3. Top = frames[1] /\ frames[1].entries = Table(Try).entries /\ frames[1].i \in Nat
    BY <1>2, <1>4, TopIs
  <2>4. TopParts(frames[1].i) = InTheTable(kind)
    BY <1>1, <1>2, <2>3, TopPartsAll
  <2>5. ListedIn(list) = Listed(kind)
    BY DEF ListedIn, Listed, list
  <2>6. Right(kind)
    <3>1. /\ InTheTable(kind) \subseteq Listed(kind)
          /\ kind # "mac" => Listed(kind) \subseteq InTheTable(kind)
                              \union (IF kind = "dos" THEN LogicalParts ELSE {})
      BY <1>2, <2>4, <2>5 DEF ListedTo
    <3>2. CASE kind = "dos"
      BY <3>1, <3>2 DEF Right
    <3>3. CASE kind = "mac"
      BY <3>1, <3>3 DEF Right
    <3>4. CASE kind \notin {"dos", "mac"}
      <4>1. Listed(kind) = InTheTable(kind)
        BY <3>1, <3>4
      <4> QED BY <3>4, <4>1, Zenon DEF Right
    <3> QED BY <3>2, <3>3, <3>4
  <2>7. kind' = kind /\ Table(Try)' = Table(Try)
    BY <1>1, SameTry
  <2>8. Right(kind)' = Right(kind)
    BY <1>1, <2>7, SameParts
  <2>9. HasNoFiller(list)'
    BY <1>2, <2>2 DEF HasNoFiller
  <2>10. LoadInv'
    BY <1>2, <2>1, <2>6, <2>7, <2>8, <2>9 DEF LoadInv
  <2> QED BY <2>2, <2>10 DEF VInv
<1> QED BY <1>3, <1>4

\* What is listed of unused space and of tables changes nothing for the parts.
LEMMA RightStays ==
  ASSUME UNCHANGED <<disk, turn, attempt>>, NEW l, list' = l, ListedIn(l) = ListedIn(list), Right(kind)
  PROVE  kind' = kind /\ Try' = Try /\ Table(Try)' = Table(Try) /\ Right(kind)'
<1>1. kind' = kind /\ Try' = Try /\ Table(Try)' = Table(Try)
  BY SameTry
<1>2. ASSUME NEW k, k = kind PROVE Right(k)' = Right(k)
  <2>1. TryOf(k)' = TryOf(k) /\ LogicalParts' = LogicalParts
    BY SameDisk DEF TryOf
  <2>2. Table(TryOf(k))' = Table(TryOf(k))
    BY <2>1, SameDisk
  <2>3. InTheTable(k)' = InTheTable(k)
    BY <2>2 DEF InTheTable
  <2>4. parts'[k] = l /\ parts[k] = list
    BY <1>1, <1>2 DEF list
  <2>5. Listed(k)' = ListedIn(l) /\ Listed(k) = ListedIn(list)
    BY <2>4 DEF Listed, ListedIn
  <2>6. Listed(k)' = Listed(k)
    BY <2>5
  <2> QED BY <2>1, <2>3, <2>6 DEF Right
<1>3. Right(kind)' = Right(kind)
  BY <1>1, <1>2
<1> QED BY <1>1, <1>3

\* Before anything is looked at, nothing is covered.
LEMMA NothingPassed ==
  ASSUME NEW l, GoodList(l), HasNoFiller(l)
  PROVE  Passed(l, 1, 0)
<1>1. Len(l) \in Nat
  BY DEF GoodList
<1>2. CoversTo(l, 1, 0) /\ BeginWithin(l, 1, 0) /\ NoFillers(l, 1)
  BY <1>1 DEF CoversTo, BeginWithin, NoFillers, HasNoFiller
<1>3. FillersFit(l, 1, 0) /\ TabledFit(l, 1, 0)
  BY DEF FillersFit, TabledFit
<1> QED BY <1>1, <1>2, <1>3 DEF Passed

LEMMA FinishKeepsVInv == ASSUME IInv, VInv, Finish PROVE VInv'
<1> DEFINE p == Part(1, Len(Table(Try).entries), "meta")
           l == IF kind = "mac" THEN PartAdd(list, p) ELSE list
<1>1. /\ pc = "finish" /\ pc \in LoadingPcs /\ pc' = "unused" /\ pc' \in LoadingPcs
      /\ UNCHANGED <<disk, turn, attempt, prev, found>> /\ at' = 1 /\ prevEnd' = 0
      /\ IF kind = "mac" THEN parts' = [parts EXCEPT ![kind] = PartAdd(@, p)] ELSE parts' = parts
      /\ turn \in 1..5
  BY DEF Finish, AddToList, LoadingPcs, IInv
<1>2. /\ GoodList(list) /\ HasNoFiller(list) /\ Table(Try) # NULL /\ Right(kind)
      /\ disk \in DOMAIN Disks /\ Try.bs \in Nat \ {0}
  BY <1>1, LoadTypes DEF VInv, LoadInv
<1>3. Table(Try).entries \in Entries(AllKinds)
  BY <1>2, TableTypes DEF TablesOf
<1>4. p \in Parts /\ p.flag = "meta"
  <2>1. Len(Table(Try).entries) \in Nat
    BY <1>3 DEF Entries
  <2> QED BY <2>1 DEF Part, Parts, PartFlags
<1> HIDE DEF p
<1>5. GoodList(l) /\ HasNoFiller(l) /\ ListedIn(l) = ListedIn(list)
  <2>1. CASE kind = "mac"
    <3>1. l = PartAdd(list, p) /\ ~IsPart(p)
      BY <1>4, <2>1 DEF IsPart
    <3> HIDE DEF l
    <3>2. GoodList(l) /\ HasNoFiller(l)
      BY <1>2, <1>4, <3>1, PartAddGives, AddIsNoFiller
    <3>3. ListedIn(l) = ListedIn(list)
      BY <1>2, <1>4, <3>1, AddLists
    <3> QED BY <3>2, <3>3
  <2>2. CASE kind # "mac"
    BY <1>2, <2>2
  <2> QED BY <2>1, <2>2
<1>6. parts' = [parts EXCEPT ![kind] = l] \/ (parts' = parts /\ l = list)
  BY <1>1 DEF list
<1> HIDE DEF l
<1>7. ListsInv' /\ FreshInv' /\ PrevInv' /\ list' = l
  BY <1>1, <1>5, <1>6, ListStep
<1>8. kind' = kind /\ Try' = Try /\ Table(Try)' = Table(Try) /\ Right(kind)'
  BY <1>1, <1>2, <1>5, <1>7, RightStays
<1>9. Passed(l, 1, 0)
  BY <1>5, NothingPassed
<1>10. Passed(list, at, prevEnd)'
  BY <1>1, <1>7, <1>9 DEF Passed, CoversTo, BeginWithin, NoFillers, FillersFit, TabledFit
<1>11. LoadInv'
  BY <1>1, <1>2, <1>8, <1>10 DEF LoadInv
<1> QED BY <1>7, <1>11 DEF VInv

\* A step of tsk_vs_part_unused.
LEMMA UnusedStep ==
  ASSUME IInv, VInv, pc = "unused", UNCHANGED <<disk, turn, attempt, prev, found>>,
         NEW l, GoodList(l), ListedIn(l) = ListedIn(list),
         parts' = [parts EXCEPT ![kind] = l] \/ (parts' = parts /\ l = list),
         at' \in Nat \ {0}, prevEnd' \in Nat,
         (pc' = "unused" /\ Passed(l, at', prevEnd')) \/ (pc' = "loaded" /\ Fills(l, Blocks(Try.bs)))
  PROVE  VInv'
<1>1. pc \in LoadingPcs /\ pc' \in LoadingPcs /\ Table(Try) # NULL /\ Right(kind)
  BY DEF LoadingPcs, VInv, LoadInv
<1>2. ListsInv' /\ FreshInv' /\ PrevInv' /\ list' = l
  BY <1>1, ListStep
<1>3. kind' = kind /\ Try' = Try /\ Table(Try)' = Table(Try) /\ Right(kind)'
  BY <1>1, <1>2, RightStays
<1>4. \A a, e : Passed(list, a, e)' = Passed(l, a, e)
  BY <1>2 DEF Passed, CoversTo, BeginWithin, NoFillers, FillersFit, TabledFit
<1>5. pc' = "unused" => Passed(list, at, prevEnd)'
  BY <1>4
<1>6. pc' = "loaded" => Filled(kind)'
  <2>1. Blocks(Try.bs)' = Blocks(Try.bs)
    BY <1>3, SameDisk
  <2>2. TryOf(kind)' = Try' /\ parts'[kind'] = l
    BY <1>2 DEF Try, list
  <2>3. Filled(kind)' = Fills(l, Blocks(Try.bs))
    BY <2>1, <2>2 DEF Filled, Try
  <2> QED BY <2>3
<1>7. LoadInv'
  BY <1>1, <1>3, <1>5, <1>6 DEF LoadInv
<1> QED BY <1>2, <1>7 DEF VInv

LEMMA UnusedInv ==
  ASSUME IInv, VInv, pc = "unused"
  PROVE  /\ GoodList(list) /\ Passed(list, at, prevEnd) /\ Blocks(Try.bs) \in Nat
         /\ at \in Nat /\ at >= 1 /\ prevEnd \in Nat /\ Len(list) \in Nat
         /\ \A k \in 1..Len(list) : list[k].start \in Nat /\ EndOf(list[k]) \in Nat
<1>1. turn \in 1..5 /\ pc \in LoadingPcs
  BY DEF IInv, LoadingPcs
<1>2. GoodList(list) /\ Passed(list, at, prevEnd) /\ Blocks(Try.bs) \in Nat
  BY <1>1, LoadTypes DEF VInv, LoadInv
<1> QED BY <1>2, PassedTypes

LEMMA PassPartKeepsVInv == ASSUME IInv, VInv, PassPart PROVE VInv'
<1>1. /\ pc = "unused" /\ pc' = "unused" /\ at <= Len(list)
      /\ IsMeta(list[at]) \/ list[at].start <= prevEnd
      /\ prevEnd' = EndAfter(list[at]) /\ at' = at + 1
      /\ UNCHANGED <<disk, turn, attempt, prev, found>> /\ parts' = parts
  BY DEF PassPart
<1>2. /\ GoodList(list) /\ Passed(list, at, prevEnd)
      /\ at \in Nat /\ at >= 1 /\ prevEnd \in Nat /\ EndOf(list[at]) \in Nat
  BY <1>1, UnusedInv
<1>3. Passed(list, at + 1, EndAfter(list[at]))
  <2>1. CASE IsMeta(list[at])
    BY <1>1, <1>2, <2>1, PassMeta DEF EndAfter
  <2>2. CASE ~IsMeta(list[at])
    BY <1>1, <1>2, <2>2, PassReal DEF EndAfter
  <2> QED BY <2>1, <2>2
<1>4. at' \in Nat \ {0} /\ prevEnd' \in Nat
  BY <1>1, <1>2 DEF EndAfter
<1>5. Passed(list, at', prevEnd')
  BY <1>1, <1>3
<1> QED BY <1>1, <1>2, <1>4, <1>5, UnusedStep

\* A filler is listed.
LEMMA FillerListed ==
  ASSUME NEW l, GoodList(l), NEW e \in Nat, NEW f \in Nat, e < f
  PROVE  GoodList(PartAdd(l, Filler(e, f))) /\ ListedIn(PartAdd(l, Filler(e, f))) = ListedIn(l)
<1> DEFINE p == Filler(e, f)
<1>1. p \in Parts /\ ~IsPart(p)
  BY DEF Filler, Part, Parts, PartFlags, IsPart
<1> HIDE DEF p
<1>2. GoodList(PartAdd(l, p)) /\ ListedIn(PartAdd(l, p)) = ListedIn(l)
  BY <1>1, PartAddGives, AddLists
<1> QED BY <1>2 DEF p

LEMMA FillBeforeKeepsVInv == ASSUME IInv, VInv, FillBefore PROVE VInv'
<1> DEFINE l == PartAdd(list, Filler(prevEnd, list[at].start))
<1>1. /\ pc = "unused" /\ pc' = "unused" /\ at <= Len(list)
      /\ ~IsMeta(list[at]) /\ list[at].start > prevEnd
      /\ parts' = [parts EXCEPT ![kind] = l]
      /\ prevEnd' = EndOf(list[at]) /\ at' = at + 2
      /\ UNCHANGED <<disk, turn, attempt, prev, found>>
  BY DEF FillBefore, AddToList, Filler, EndAfter, list
<1>2. /\ GoodList(list) /\ Passed(list, at, prevEnd)
      /\ at \in Nat /\ at >= 1 /\ prevEnd \in Nat
      /\ list[at].start \in Nat /\ EndOf(list[at]) \in Nat
  BY <1>1, UnusedInv
<1>3. Passed(l, at + 2, EndOf(list[at]))
  BY <1>1, <1>2, FillGap
<1>4. GoodList(l) /\ ListedIn(l) = ListedIn(list)
  BY <1>1, <1>2, FillerListed
<1>5. at' \in Nat \ {0} /\ prevEnd' \in Nat
  BY <1>1, <1>2
<1> HIDE DEF l
<1>6. Passed(l, at', prevEnd')
  BY <1>1, <1>3
<1> QED BY <1>1, <1>4, <1>5, <1>6, UnusedStep

LEMMA FillEndKeepsVInv == ASSUME IInv, VInv, FillEnd PROVE VInv'
<1> DEFINE n == Blocks(Try.bs)
           l == IF prevEnd < n THEN PartAdd(list, Filler(prevEnd, n)) ELSE list
<1>1. /\ pc = "unused" /\ pc' = "loaded" /\ at > Len(list)
      /\ IF prevEnd < n THEN parts' = [parts EXCEPT ![kind] = PartAdd(list, Filler(prevEnd, n))]
         ELSE parts' = parts
      /\ UNCHANGED <<disk, turn, attempt, at, prevEnd, prev, found>>
  BY DEF FillEnd, AddToList, Filler, list, loading
<1>2. /\ GoodList(list) /\ Passed(list, at, prevEnd) /\ n \in Nat
      /\ at \in Nat /\ at >= 1 /\ prevEnd \in Nat
  BY <1>1, UnusedInv
<1> HIDE DEF n
<1>3. Fills(l, n)
  <2>1. CASE prevEnd < n
    BY <1>1, <1>2, <2>1, FillTail
  <2>2. CASE ~(prevEnd < n)
    BY <1>1, <1>2, <2>2, PassedFills
  <2> QED BY <2>1, <2>2
<1>4. GoodList(l) /\ ListedIn(l) = ListedIn(list)
  BY <1>2, FillerListed
<1>5. parts' = [parts EXCEPT ![kind] = l] \/ (parts' = parts /\ l = list)
  BY <1>1
<1>6. at' \in Nat \ {0} /\ prevEnd' \in Nat
  BY <1>1, <1>2
<1> HIDE DEF l
<1> QED BY <1>1, <1>3, <1>4, <1>5, <1>6, UnusedStep DEF n

\* Structures are freed in the competition, but not that of the type that stands.
LEMMA ClosesKeepsVInv ==
  ASSUME IInv, VInv, pc = "loaded", NEW ks, Closes(ks), UNCHANGED <<disk, loading>>,
         found' = found \union {kind},
         NEW q, prev' = q, q # NULL => q \in KindSet \ ks /\ Right(q) /\ Filled(q),
         (pc' = "kind" /\ turn' = turn + 1) \/ pc' = "returned"
  PROVE  VInv'
<1>1. /\ turn \in 1..5 /\ pc \in LoadingPcs
      /\ UNCHANGED <<attempt, at, prevEnd>>
      /\ parts' = [k \in KindSet |-> IF k \in ks THEN << >> ELSE parts[k]]
  BY DEF IInv, LoadingPcs, Closes, loading
<1>2. kind \in KindSet /\ pc # "returned" /\ pc # "kind"
  BY <1>1, LoadTypes
<1>3. GoodList(<< >>)
  BY DEF GoodList, IsInOrder, IsNumbered
<1>4. ListsInv'
  <2>1. \A k : Attempts(k)' = Attempts(k)
    BY SameDisk
  <2>2. \A k \in KindSet : GoodList(parts'[k])
    BY <1>1, <1>3 DEF VInv, ListsInv
  <2>3. DOMAIN parts' = KindSet /\ found' \subseteq KindSet /\ prev' \in KindSet \union {NULL}
    BY <1>1, <1>2 DEF VInv, ListsInv
  <2> QED BY <1>1, <2>1, <2>2, <2>3 DEF VInv, ListsInv
<1>5. LoadInv'
  BY DEF LoadInv
<1>6. FreshInv'
  <2> SUFFICES ASSUME pc' = "kind", NEW k \in KindSet, k \notin Before' PROVE parts'[k] = << >>
    BY DEF FreshInv
  <2>1. Before' = Before \union {kind}
    BY <1>1, BeforeGrows
  <2>2. parts[k] = << >>
    BY <1>2, <2>1 DEF VInv, FreshInv
  <2> QED BY <1>1, <2>2
<1>7. PrevInv'
  <2> SUFFICES ASSUME q # NULL PROVE Right(q)' /\ Filled(q)'
    BY DEF PrevInv
  <2>1. attempt'[q] = attempt[q] /\ parts'[q] = parts[q]
    BY <1>1
  <2>2. Right(q)' = Right(q) /\ Filled(q)' = Filled(q)
    BY <2>1, SameParts
  <2> QED BY <2>2
<1> QED BY <1>4, <1>5, <1>6, <1>7 DEF VInv

LEMMA TakesOverKeepsVInv == ASSUME IInv, VInv, TakesOver PROVE VInv'
<1> DEFINE ks == IF Replaces THEN {"dos"} ELSE {}
<1>1. /\ pc = "loaded" /\ Closes(ks) /\ UNCHANGED <<disk, loading>>
      /\ found' = found \union {kind} /\ prev' = kind /\ pc' = "kind" /\ turn' = turn + 1
  BY DEF TakesOver, Settle
<1>2. kind \notin ks
  BY DEF Replaces
<1>3. kind \in KindSet /\ Right(kind) /\ Filled(kind)
  BY <1>1, Loaded DEF VInv, LoadInv
<1> HIDE DEF ks
<1> QED BY <1>1, <1>2, <1>3, ClosesKeepsVInv

LEMMA GivesWayKeepsVInv == ASSUME IInv, VInv, GivesWay PROVE VInv'
<1>1. /\ pc = "loaded" /\ prev = "dos" /\ Closes({"gpt"}) /\ UNCHANGED <<disk, loading>>
      /\ found' = found \union {kind} /\ prev' = prev /\ pc' = "kind" /\ turn' = turn + 1
  BY DEF GivesWay, Yields, Settle
<1>2. prev # NULL => prev \in KindSet \ {"gpt"} /\ Right(prev) /\ Filled(prev)
  BY <1>1, TypesInOrder DEF VInv, PrevInv
<1> QED BY <1>1, <1>2, ClosesKeepsVInv

LEMMA ConflictKeepsVInv == ASSUME IInv, VInv, Conflict PROVE VInv'
<1>1. /\ pc = "loaded" /\ Closes(ClosedInConflict) /\ UNCHANGED <<disk, loading>>
      /\ found' = found \union {kind} /\ prev' = NULL /\ pc' = "returned"
  BY DEF Conflict
<1> QED BY <1>1, ClosesKeepsVInv

\* A step that leaves the lists alone, and the place in the loading too.
LEMMA SameKeepsVInv ==
  ASSUME VInv, UNCHANGED <<disk, turn, loading, parts, prev, found>>,
         pc' = pc \/ pc' = "returned"
  PROVE  VInv'
<1>1. UNCHANGED <<attempt, frames, at, prevEnd>>
  BY DEF loading
<1>2. kind' = kind /\ list' = list /\ Before' = Before
  BY DEF kind, list, Before
<1>3. ListsInv'
  <2>1. \A k : Attempts(k)' = Attempts(k)
    BY SameDisk
  <2> QED BY <1>1, <2>1 DEF VInv, ListsInv
<1>4. \A k : Right(k)' = Right(k) /\ Filled(k)' = Filled(k)
  BY <1>1, SameParts
<1>5. LoadInv'
  <2>1. CASE pc' = "returned"
    BY <2>1 DEF LoadInv
  <2>2. CASE pc' = pc
    <3>1. /\ Table(Try)' = Table(Try) /\ \A gs : Nested(gs)' = Nested(gs)
          /\ \A i, L : ListedTo(i, L)' = ListedTo(i, L)
      BY <1>1, SameTry
    <3>2. /\ HasNoFiller(list)' = HasNoFiller(list) /\ ListedIn(list)' = ListedIn(list)
          /\ Passed(list, at, prevEnd)' = Passed(list, at, prevEnd)
      BY <1>1, <1>2 DEF HasNoFiller, ListedIn, Passed, CoversTo, BeginWithin, NoFillers, FillersFit, TabledFit
    <3>3. Nested(frames)' = Nested(frames)
      BY <1>1, <3>1
    <3>4. ListedTo(frames[1].i, ListedIn(list))' = ListedTo(frames[1].i, ListedIn(list))
      BY <1>1, <3>1, <3>2
    <3>5. Right(kind)' = Right(kind) /\ Filled(kind)' = Filled(kind)
      BY <1>2, <1>4
    <3> QED BY <1>2, <2>2, <3>1, <3>2, <3>3, <3>4, <3>5 DEF VInv, LoadInv
  <2> QED BY <2>1, <2>2
<1>6. FreshInv'
  BY <1>2 DEF VInv, FreshInv
<1>7. PrevInv'
  BY <1>4 DEF VInv, PrevInv
<1> QED BY <1>3, <1>5, <1>6, <1>7 DEF VInv

LEMMA LoadKeepsVInv == ASSUME IInv, VInv, Load PROVE VInv'
<1>1. CASE NoTable \/ EntryFails \/ FinishFails
  BY <1>1, LoadFailsKeepsVInv DEF NoTable, EntryFails, InTable, FinishFails
<1> QED BY <1>1, BeginKindKeepsVInv, ReadTableKeepsVInv, ListMetaKeepsVInv, SkipEntryKeepsVInv,
           ListPartKeepsVInv, ListExtendedKeepsVInv, ExtendedLoopKeepsVInv, TableEndsKeepsVInv,
           FinishKeepsVInv, PassPartKeepsVInv, FillBeforeKeepsVInv, FillEndKeepsVInv DEF Load

LEMMA NextKeepsVInv == ASSUME IInv, VInv, [Next]_vars PROVE VInv'
<1>1. CASE Return \/ UNCHANGED vars
  BY <1>1, SameKeepsVInv DEF Return, vars
<1> QED BY <1>1, LoadKeepsVInv, TakesOverKeepsVInv, GivesWayKeepsVInv, ConflictKeepsVInv DEF Next

LEMMA InitGivesVInv == ASSUME Init PROVE VInv
<1>1. GoodList(<< >>)
  BY DEF GoodList, IsInOrder, IsNumbered
<1>2. /\ disk \in DOMAIN Disks /\ attempt = [k \in KindSet |-> 1] /\ parts = [k \in KindSet |-> << >>]
      /\ at = 1 /\ prevEnd = 0 /\ prev = NULL /\ found = {} /\ pc = "kind"
  BY DEF Init
<1>3. \A k \in KindSet : attempt[k] \in 1..Len(Attempts(k))
  BY <1>2, AttemptsTypes
<1>4. ListsInv
  BY <1>1, <1>2, <1>3 DEF ListsInv
<1>5. LoadInv /\ FreshInv /\ PrevInv
  BY <1>2 DEF LoadInv, FreshInv, PrevInv
<1> QED BY <1>4, <1>5 DEF VInv

LEMMA AlwaysVInv == VolumesSpec => [](IInv /\ VInv)
<1>1. VolumesInit => IInv /\ VInv
  BY InitGivesIInv, InitGivesVInv DEF VolumesInit
<1>2. IInv /\ VInv /\ [VolumesNext]_<<vars, objects>> => (IInv /\ VInv)'
  <2> SUFFICES ASSUME IInv, VInv, [VolumesNext]_<<vars, objects>> PROVE IInv' /\ VInv'
    OBVIOUS
  <2>1. [Next]_vars
    BY DEF VolumesNext, Detect, OpenReturns, Use, Let
  <2> QED BY <2>1, NextKeepsIInv, NextKeepsVInv
<1> QED BY <1>1, <1>2, PTL DEF VolumesSpec

LEMMA InvIsTypeOK == ASSUME IInv, VInv PROVE TypeOK
<1>1. \A k \in KindSet : attempt[k] \in 1..Len(Attempts(k)) /\ parts[k] \in Seq(Parts)
  BY DEF VInv, ListsInv, GoodList
<1>2. open \subseteq KindSet
  <2>1. CASE pc = "returned"
    BY <2>1, TypesInOrder DEF IInv, OneIsLeftOpen, VInv, ListsInv
  <2>2. CASE pc # "returned"
    <3>1. Left \subseteq KindSet
      BY TypesInOrder DEF Left, VInv, ListsInv
    <3>2. pc = "kind" \/ kind \in KindSet
      BY <2>2, KindIsNew DEF IInv
    <3> QED BY <2>2, <3>1, <3>2 DEF IInv, Competition
  <2> QED BY <2>1, <2>2
<1>3. turn \in 1..Len(Kinds) + 1
  BY TypesInOrder DEF IInv
<1>4. pc \in {"kind", "try", "entry", "finish", "unused", "loaded", "returned"}
  BY DEF IInv, LoadingPcs
<1> QED BY <1>1, <1>2, <1>3, <1>4 DEF TypeOK, VInv, ListsInv

\* On every disk, with every set of block sizes: when a type was found, its list
\* is in order and numbered, and tsk_vs_part_unused made it cover the disk.
THEOREM ListFills == VolumesSpec => []ListFillsTheDisk
<1>1. VInv => ListFillsTheDisk
  <2> SUFFICES ASSUME VInv, prev # NULL
               PROVE  /\ IsInOrder(parts[prev]) /\ IsNumbered(parts[prev])
                      /\ Fills(parts[prev], Blocks(TryOf(prev).bs))
    BY Zenon DEF ListFillsTheDisk, Returned, Fills
  <2>1. prev \in KindSet /\ Filled(prev)
    BY DEF VInv, ListsInv, PrevInv
  <2>2. GoodList(parts[prev])
    BY <2>1 DEF VInv, ListsInv
  <2> QED BY <2>1, <2>2 DEF GoodList, Filled
<1> QED BY <1>1, AlwaysVInv, PTL

\* On every disk, with tables of any content: when a type was found, its list has
\* the parts of the table that was accepted last, and no others: but for the
\* logical parts of extended tables that can be reached from a DOS table, and
\* what the first attempt left of a Mac table.
THEOREM PartsAreRight == VolumesSpec => []PartsAreTheTables
<1>1. VInv => PartsAreTheTables
  BY Zenon DEF VInv, PrevInv, PartsAreTheTables, Returned, Right, LogicalParts
<1> QED BY <1>1, AlwaysVInv, PTL

-----------------------------------------------------------------------------

\* The definitions of Handles are the same through its proofs.
LEMMA SameObjects ==
  /\ H!Methods = HP!Methods /\ H!Running = HP!Running /\ H!Pinned = HP!Pinned /\ H!Kept = HP!Kept
  /\ \A S : H!Reach(S) = HP!Reach(S)
<1>1. H!Methods = HP!Methods /\ H!Running = HP!Running /\ H!Pinned = HP!Pinned /\ H!Kept = HP!Kept
  BY DEF H!Methods, HP!Methods, H!Method, HP!Method, H!InPool, HP!InPool,
         H!Running, HP!Running, H!Pinned, HP!Pinned, H!Kept, HP!Kept
<1>2. \A S : H!Reach(S) = HP!Reach(S)
  BY DEF H!Reach, HP!Reach, H!WithRefs, HP!WithRefs, H!Refs, HP!Refs,
         H!FileSystemKeeps, HP!FileSystemKeeps, H!Objects, HP!Objects
<1> QED BY <1>1, <1>2

LEMMA SameSteps ==
  /\ \A c : H!Begin(c) = HP!Begin(c)
  /\ \A succeeds : H!End(succeeds) = HP!End(succeeds)
  /\ H!Let = HP!Let /\ DOMAIN H!Methods = DOMAIN HP!Methods
<1>1. \A c : H!Begin(c) = HP!Begin(c)
  BY SameObjects DEF H!Begin, HP!Begin, H!Image, HP!Image
<1>2. \A succeeds : H!End(succeeds) = HP!End(succeeds)
  BY SameObjects DEF H!End, HP!End
<1>3. H!Let = HP!Let
  <2>1. H!Unreachable = HP!Unreachable
    BY SameObjects DEF H!Unreachable, HP!Unreachable
  <2>2. \A o : H!Dispose(o) = HP!Dispose(o)
    BY SameObjects DEF H!Dispose, HP!Dispose, H!Disposes, HP!Disposes
  <2>3. \A o : H!Drop(o) = HP!Drop(o) /\ H!Collect(o) = HP!Collect(o)
    BY DEF H!Drop, HP!Drop, H!Collect, HP!Collect
  <2> QED BY <2>1, <2>2, <2>3 DEF H!Let, HP!Let
<1> QED BY <1>1, <1>2, <1>3, SameObjects

\* A program on the disk opens, disposes and drops objects as any program of
\* Handles does; tsk_vs_open only decides whether its first call makes one.
LEMMA ProgramsOnDisks == VolumesSpec => HP!Spec
<1>1. VolumesInit => HP!Init
  BY DEF VolumesInit, H!Init, HP!Init
<1>2. [VolumesNext]_<<vars, objects>> => [HP!Next]_HP!vars
  <2> SUFFICES ASSUME [VolumesNext]_<<vars, objects>> PROVE [HP!Next]_HP!vars
    OBVIOUS
  <2>1. CASE Detect
    BY <2>1 DEF Detect, objects, HP!vars
  <2>2. CASE OpenReturns
    BY <2>2, SameSteps DEF OpenReturns, HP!Next
  <2>3. CASE Use
    BY <2>3, SameSteps DEF Use, HP!Next
  <2>4. CASE Let
    BY <2>4, SameSteps DEF Let, HP!Next
  <2>5. CASE UNCHANGED <<vars, objects>>
    BY <2>5 DEF objects, HP!vars
  <2> QED BY <2>1, <2>2, <2>3, <2>4, <2>5 DEF VolumesNext
<1> QED BY <1>1, <1>2, PTL DEF VolumesSpec, HP!Spec

LEMMA SameAssumptions == HP!ProgramsAreObjects /\ HP!NullIsNoObject /\ HP!NullIsNoMethod
BY ObjectsAssumption DEF H!ProgramsAreObjects, HP!ProgramsAreObjects, H!NullIsNoObject,
   HP!NullIsNoObject, H!NullIsNoMethod, HP!NullIsNoMethod, H!Objects, HP!Objects,
   H!Methods, HP!Methods, H!Method, HP!Method

\* The state of the search and that of the program keep their types.
THEOREM TypeCorrect == VolumesSpec => []VolumesTypeOK
<1>1. IInv /\ VInv => TypeOK
  BY InvIsTypeOK
<1>2. HP!Spec => []HP!TypeOK
  BY SameAssumptions, HP!TypeCorrect
<1>3. HP!TypeOK => H!TypeOK
  BY SameObjects DEF H!TypeOK, HP!TypeOK, H!Objects, HP!Objects
<1>4. TypeOK /\ H!TypeOK => VolumesTypeOK
  BY DEF VolumesTypeOK
<1> QED BY <1>1, <1>2, <1>3, <1>4, AlwaysVInv, ProgramsOnDisks, PTL

\* Whatever is disposed, dropped and finalized, in any order and also during
\* calls, a native function of the wrapper that runs on an object which is held
\* works with open structures only, unless the program disposed them or did not
\* hold the pool they belong to.
THEOREM LiveMemory == VolumesSpec => []UsesLiveMemory
<1>1. HP!Spec => []HP!UsesLiveMemory
  BY SameAssumptions, HP!LiveMemory
<1>2. HP!UsesLiveMemory => UsesLiveMemory
  BY SameObjects DEF UsesLiveMemory, H!UsesLiveMemory, HP!UsesLiveMemory,
                     H!LeftToTheProgram, HP!LeftToTheProgram
<1> QED BY <1>1, <1>2, ProgramsOnDisks, PTL

\* A program that disposes all that can be disposed leaves nothing open, whatever
\* was found on the disk: see Handles.
THEOREM DisposalReleases == VolumesSpec => []DisposeReleasesAll
<1>1. HP!Spec => []HP!DisposeReleasesAll
  BY SameAssumptions, HP!DisposalReleases
<1>2. HP!DisposeReleasesAll => DisposeReleasesAll
  BY DEF DisposeReleasesAll, H!DisposeReleasesAll, HP!DisposeReleasesAll
<1> QED BY <1>1, <1>2, ProgramsOnDisks, PTL
=============================================================================
