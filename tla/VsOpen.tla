------------------------------- MODULE VsOpen -------------------------------
(***************************************************************************)
(* tsk_vs_open with autodetection (sleuthkit/tsk/vs): each type of         *)
(* partition table is looked for, at the block sizes and places where it   *)
(* may be, and loaded into a structure of its own; then the types that     *)
(* were found compete.                                                     *)
(*                                                                         *)
(* A disk is given by what the loaders see of it:                          *)
(*   size    : its length, in the smallest blocks there are                *)
(*   sector  : the sector size of the image, a block size                  *)
(*   bad     : the smallest blocks that cannot be read                     *)
(*   fat     : the boot sector is that of a FAT or NTFS file system        *)
(*   mbr     : the table in sector 0, where it has the magic of DOS        *)
(*   ext     : sector -> the entries of the extended DOS table there       *)
(*   labels  : <<label, block size>> -> the other tables: the place and    *)
(*             length of the entries, and the length of a GPT's header     *)
(* and an entry by its start, its length, its kind, and ok: whether it can *)
(* be read and bears the magic of an entry.                                *)
(***************************************************************************)
EXTENDS VsParts, SequencesExt

CONSTANTS
  Disks,        \* the disks there are, by name
  BlockSizes,   \* the block sizes that are tried, a sequence: 512, 1024 .. 8192
  MacSizes,     \* the two block sizes of a Mac disk: 512, 4096
  NULL          \* no type, or no table

Kinds == <<"dos", "bsd", "gpt", "sun", "mac">>

ASSUME VsOpenAssumption ==
  /\ BlockSizes \in Seq(Nat \ {0}) /\ MacSizes \in [1..2 -> Nat \ {0}]
  /\ NULL \notin ToSet(Kinds)

\* Only DOS tables have extended partitions.
EntryKinds == {"part", "safety", "whole", "free"}
Entries(kinds) == Seq([start : Nat, len : Nat, kind : kinds, ok : BOOLEAN])
TablesOf(kinds) == [start : Nat, len : Nat, head : Nat, entries : Entries(kinds)]
ASSUME DisksAssumption ==
  \A d \in DOMAIN Disks :
    LET m == Disks[d] IN
    /\ m.size \in Nat /\ m.sector \in Nat \ {0}
    /\ m.mbr \in TablesOf(EntryKinds \union {"ext"}) \union {NULL}
    /\ \A s \in DOMAIN m.ext : s \in Nat /\ m.ext[s] \in Entries(EntryKinds \union {"ext"})
    /\ \A l \in DOMAIN m.labels : m.labels[l] \in TablesOf(EntryKinds)

VARIABLES
  disk,      \* the disk looked at, by its name
  turn,      \* the place in Kinds of the type that is looked for now
  attempt,   \* type -> the block size and place that it was last looked for at
  parts,     \* type -> the list of its structure
  open,      \* the types whose structure is allocated
  frames,    \* the tables that are being read, the innermost last
  at,        \* the part that is looked at for unused space before it
  prevEnd,   \* the end of the part before it
  prev,      \* prev_vs: the type found so far, or NULL
  found,     \* the types whose structure was loaded
  pc         \* "kind", "try", "entry", "finish", "unused", "loaded", "returned"

loading == <<attempt, frames, at, prevEnd>>
vars == <<disk, turn, loading, parts, open, prev, found, pc>>

KindSet == ToSet(Kinds)
image == Disks[disk]
kind == Kinds[turn]
list == parts[kind]

-----------------------------------------------------------------------------
(* What the loaders look for *)

\* The block sizes and places that a type is looked for at.
TrySizes(place) == [i \in 1..Len(BlockSizes) |-> [bs |-> BlockSizes[i], place |-> place]]
TrySector(place) == <<[bs |-> image.sector, place |-> place]>>
Attempts(k) ==
  CASE k = "gpt" -> TrySector("gpt") \o TrySizes("gpt") \o TrySector("backup") \o TrySizes("backup")
    [] k = "mac" -> TrySector("mac") \o
         (IF image.sector = MacSizes[1] THEN <<[bs |-> MacSizes[2], place |-> "mac"]>>
          ELSE IF image.sector = MacSizes[2] THEN <<[bs |-> MacSizes[1], place |-> "mac"]>>
          ELSE << >>)
    [] OTHER -> TrySector(k)

TryOf(k) == Attempts(k)[attempt[k]]
Try == TryOf(kind)
Blocks(bs) == image.size \div bs
MaxAddr == Blocks(Try.bs)
Readable(bs, a) ==
  /\ a >= 0 /\ (a + 1) * bs <= image.size
  /\ (a * bs..(a + 1) * bs - 1) \intersect image.bad = {}

Label(name, bs) == IF <<name, bs>> \in DOMAIN image.labels THEN image.labels[<<name, bs>>] ELSE NULL
HasMbr(bs) == Readable(bs, 0) /\ image.mbr # NULL
AtSector(name, bs, a) == IF Readable(bs, a) THEN Label(name, bs) ELSE NULL

\* The table at try t, or NULL: a Sun label is looked for in sector 1 when
\* sector 0 has none, the first GPT behind a DOS table that protects it.
Table(t) ==
  CASE t.place = "dos" -> IF HasMbr(t.bs) /\ ~image.fat THEN image.mbr ELSE NULL
    [] t.place = "bsd" -> AtSector("bsd", t.bs, 1)
    [] t.place = "gpt" -> IF HasMbr(t.bs) /\ image.mbr.entries[1].kind = "safety"
                          THEN AtSector("gpt", t.bs, 1) ELSE NULL
    [] t.place = "backup" -> AtSector("backup", t.bs, Blocks(t.bs) - 1)
    [] t.place = "sun" -> IF ~Readable(t.bs, 0) THEN NULL
                          ELSE IF Label("sun0", t.bs) # NULL THEN Label("sun0", t.bs)
                          ELSE AtSector("sun1", t.bs, 1)
    [] OTHER -> IF Readable(t.bs, 1) /\ Label("mac", t.bs) # NULL
                   /\ Label("mac", t.bs).entries[1].ok
                THEN Label("mac", t.bs) ELSE NULL

\* The parts of meta data that are listed before the entries are read.
Metas(t, table) ==
  CASE t.place = "dos" -> <<Part(0, 1, "meta")>>
    [] t.place = "bsd" -> <<Part(1, 1, "meta")>>
    [] t.place = "gpt" -> <<Part(0, 1, "meta"), Part(1, table.head, "meta"),
                            Part(table.start, table.len, "meta")>>
    [] t.place = "backup" -> <<Part(Blocks(t.bs) - 1, table.head, "meta"),
                               Part(table.start, table.len, "meta")>>
    [] OTHER -> << >>

-----------------------------------------------------------------------------
(* A type is looked for *)

BeginKind ==
  /\ pc = "kind" /\ turn <= Len(Kinds)
  /\ open' = open \union {kind}
  /\ attempt' = [attempt EXCEPT ![kind] = 1]
  /\ pc' = "try"
  /\ UNCHANGED <<disk, turn, parts, frames, at, prevEnd, prev, found>>

\* Mutant: the parts of the attempt before stay when a GPT is looked for again.
PartsKept == kind = "mac" \/ kind = "gpt"

\* A Mac table's parts stay in the list when the other block size is tried.
LeftOver == kind = "mac"

GiveUp ==
  /\ open' = open \ {kind}
  /\ parts' = [parts EXCEPT ![kind] = << >>]
  /\ turn' = turn + 1 /\ pc' = "kind"
  /\ UNCHANGED attempt

TryAgain ==
  /\ attempt' = [attempt EXCEPT ![kind] = @ + 1]
  /\ parts' = IF LeftOver THEN parts ELSE [parts EXCEPT ![kind] = << >>]
  /\ pc' = "try"
  /\ UNCHANGED <<open, turn>>

\* Mutant: one attempt too many.
LoadFailsLate ==
  /\ IF attempt[kind] <= Len(Attempts(kind)) THEN TryAgain ELSE GiveUp
  /\ frames' = << >>
  /\ UNCHANGED <<disk, at, prevEnd, prev, found>>

LoadFails ==
  /\ IF attempt[kind] < Len(Attempts(kind)) THEN TryAgain ELSE GiveUp
  /\ frames' = << >>
  /\ UNCHANGED <<disk, at, prevEnd, prev, found>>

-----------------------------------------------------------------------------
(* Its table is read *)

Frame(sector, metas, entries) == [at |-> sector, metas |-> metas, entries |-> entries, i |-> 1]

NoTable == pc = "try" /\ Table(Try) = NULL /\ LoadFails

ReadTable ==
  /\ pc = "try" /\ Table(Try) # NULL
  /\ frames' = <<Frame(0, Metas(Try, Table(Try)), Table(Try).entries)>>
  /\ pc' = "entry"
  /\ UNCHANGED <<disk, turn, attempt, at, prevEnd, parts, open, prev, found>>

Top == Last(frames)
Entry == Top.entries[Top.i]
InTable == pc = "entry" /\ Top.metas = << >> /\ Top.i <= Len(Top.entries)
Extended == Len(frames) > 1
Onward == Front(frames) \o <<[Top EXCEPT !.i = @ + 1]>>
Reads == UNCHANGED <<disk, turn, attempt, at, prevEnd, open, prev, found, pc>>

AddToList(p) == parts' = [parts EXCEPT ![kind] = PartAdd(@, p)]

ListMeta ==
  /\ pc = "entry" /\ Top.metas # << >>
  /\ AddToList(Head(Top.metas))
  /\ frames' = Front(frames) \o <<[Top EXCEPT !.metas = Tail(@)]>>
  /\ Reads

IsEmpty ==
  IF kind = "gpt" THEN Entry.start = 0 ELSE Entry.len = 0 \/ (Extended /\ Entry.start = 0)

\* The first two entries of a table have to begin in the image.
IsOutside == ~Extended /\ Top.i <= 2 /\ Entry.start > MaxAddr

EntryFails ==
  /\ InTable
  /\ ~Entry.ok \/ (~IsEmpty /\ IsOutside)
  /\ LoadFails

InUse == InTable /\ Entry.ok /\ ~IsEmpty /\ ~IsOutside

SkipEntry ==
  /\ InTable /\ Entry.ok /\ IsEmpty
  /\ frames' = Onward
  /\ Reads /\ UNCHANGED parts

\* In extended tables, extended partitions are counted from the first of
\* them, other ones from the table that they are in.
Start ==
  IF ~Extended THEN Entry.start
  ELSE IF Entry.kind = "ext" THEN frames[2].at + Entry.start
  ELSE Top.at + Entry.start

Flag ==
  CASE Entry.kind = "ext" -> "meta"
    [] Entry.kind = "whole" /\ Start = 0 -> "meta"
    [] Entry.kind \in {"free", "safety"} -> Entry.kind
    [] OTHER -> "alloc"

ListPart ==
  /\ InUse /\ Entry.kind # "ext"
  /\ AddToList(Part(Start, Entry.len, Flag))
  /\ frames' = Onward
  /\ Reads

\* A table that begins where some part does is not entered: it may be a loop.
IsLoop == Extended /\ \E i \in 1..Len(list) : list[i].start = Start

\* The loading of extended tables ends, with what it has listed.
LeaveExtended == frames' = IF Extended THEN <<frames[1]>> ELSE Onward

ListExtended ==
  /\ InUse /\ Entry.kind = "ext" /\ ~IsLoop
  /\ AddToList(Part(Start, Entry.len, Flag))
  /\ IF Extended /\ Start > MaxAddr THEN frames' = Onward
     ELSE IF Readable(Try.bs, Start) /\ Start \in DOMAIN image.ext
       THEN frames' = Append(Onward, Frame(Start, <<Part(Start, 1, "meta")>>, image.ext[Start]))
     ELSE LeaveExtended
  /\ Reads

ExtendedLoop ==
  /\ InUse /\ Entry.kind = "ext" /\ IsLoop
  /\ LeaveExtended
  /\ Reads /\ UNCHANGED parts

TableEnds ==
  /\ pc = "entry" /\ Top.metas = << >> /\ Top.i > Len(Top.entries)
  /\ frames' = Front(frames)
  /\ pc' = IF Extended THEN "entry" ELSE "finish"
  /\ UNCHANGED <<disk, turn, attempt, at, prevEnd, parts, open, prev, found>>

\* A DOS table without entries is none, nor is a Mac table without parts.
HasEntries ==
  CASE kind = "dos" -> \E i \in DOMAIN image.mbr.entries : image.mbr.entries[i].len # 0
    [] kind = "mac" -> list # << >>
    [] OTHER -> TRUE

FinishFails == pc = "finish" /\ ~HasEntries /\ LoadFails

Finish ==
  /\ pc = "finish" /\ HasEntries
  /\ IF kind = "mac" THEN AddToList(Part(1, Len(Table(Try).entries), "meta")) ELSE UNCHANGED parts
  /\ at' = 1 /\ prevEnd' = 0
  /\ pc' = "unused"
  /\ UNCHANGED <<disk, turn, attempt, frames, open, prev, found>>

-----------------------------------------------------------------------------
(* tsk_vs_part_unused *)

\* Mutant: what a table or an extended partition covers counts as used.
EndAfterAny(p) == EndOf(p)

EndAfter(p) == IF IsMeta(p) THEN prevEnd ELSE EndOf(p)

PassPart ==
  /\ pc = "unused" /\ at <= Len(list)
  /\ IsMeta(list[at]) \/ list[at].start <= prevEnd
  /\ prevEnd' = EndAfter(list[at])
  /\ at' = at + 1
  /\ UNCHANGED <<disk, turn, attempt, frames, parts, open, prev, found, pc>>

FillBefore ==
  /\ pc = "unused" /\ at <= Len(list)
  /\ ~IsMeta(list[at]) /\ list[at].start > prevEnd
  /\ AddToList(Part(prevEnd, list[at].start - prevEnd, "unalloc"))
  /\ prevEnd' = EndAfter(list[at])
  /\ at' = at + 2
  /\ UNCHANGED <<disk, turn, attempt, frames, open, prev, found, pc>>

FillEnd ==
  /\ pc = "unused" /\ at > Len(list)
  /\ IF prevEnd < Blocks(Try.bs)
     THEN AddToList(Part(prevEnd, Blocks(Try.bs) - prevEnd, "unalloc")) ELSE UNCHANGED parts
  /\ pc' = "loaded"
  /\ UNCHANGED <<disk, turn, loading, open, prev, found>>

-----------------------------------------------------------------------------
(* The types that were found compete *)

Closes(ks) ==
  /\ open' = open \ ks
  /\ parts' = [k \in KindSet |-> IF k \in ks THEN << >> ELSE parts[k]]

\* A DOS table, with its extended ones, that only protects a GPT.
Protects == \E i \in DOMAIN parts["dos"] :
              parts["dos"][i].flag = "safety" /\ parts["dos"][i].start <= 63

IsBackup == kind = "gpt" /\ Try.place = "backup"
Yields == prev = "dos" /\ IsBackup
Replaces == prev = "dos" /\ kind = "gpt" /\ ~IsBackup /\ Protects

Settle(next, ks) ==
  /\ prev' = next
  /\ Closes(ks)
  /\ found' = found \union {kind}
  /\ turn' = turn + 1 /\ pc' = "kind"
  /\ UNCHANGED <<disk, loading>>

\* A BSD label takes the place of a DOS table, which nothing closes any more.
TakesOver ==
  /\ pc = "loaded"
  /\ prev = NULL \/ kind = "bsd" \/ Replaces
  /\ Settle(kind, IF Replaces THEN {"dos"} ELSE {})

GivesWay == pc = "loaded" /\ Yields /\ Settle(prev, {"gpt"})

\* Mutant: the structure that was found before stays open.
ClosedInConflictOnlyNew == {kind}

ClosedInConflict == {prev, kind}

Conflict ==
  /\ pc = "loaded" /\ prev # NULL
  /\ kind # "bsd" /\ ~Replaces /\ ~Yields
  /\ prev' = NULL
  /\ Closes(ClosedInConflict)
  /\ found' = found \union {kind}
  /\ pc' = "returned"
  /\ UNCHANGED <<disk, turn, loading>>

Return ==
  /\ pc = "kind" /\ turn > Len(Kinds)
  /\ pc' = "returned"
  /\ UNCHANGED <<disk, turn, loading, parts, open, prev, found>>

-----------------------------------------------------------------------------

Init ==
  /\ disk \in DOMAIN Disks
  /\ turn = 1 /\ pc = "kind"
  /\ attempt = [k \in KindSet |-> 1]
  /\ parts = [k \in KindSet |-> << >>]
  /\ open = {} /\ frames = << >> /\ at = 1 /\ prevEnd = 0
  /\ prev = NULL /\ found = {}

Load ==
  \/ BeginKind \/ NoTable \/ ReadTable \/ ListMeta
  \/ EntryFails \/ SkipEntry \/ ListPart \/ ListExtended \/ ExtendedLoop \/ TableEnds
  \/ FinishFails \/ Finish
  \/ PassPart \/ FillBefore \/ FillEnd

Next == Load \/ TakesOver \/ GivesWay \/ Conflict \/ Return

Spec == Init /\ [][Next]_vars

-----------------------------------------------------------------------------
(* What a type's table says *)

IsPart(p) == p.flag \in {"alloc", "safety"}
Listed(k) == {<<parts[k][i].start, parts[k][i].len>> : i \in {j \in DOMAIN parts[k] : IsPart(parts[k][j])}}

\* The parts that the table itself lists, and those in the extended tables.
EntryIsPart(k, e) ==
  /\ e.kind \in {"part", "safety"} \/ (e.kind = "whole" /\ e.start # 0)
  /\ IF k = "gpt" THEN e.start # 0 ELSE e.len # 0
InTheTable(k) ==
  LET entries == Table(TryOf(k)).entries
  IN {<<entries[i].start, entries[i].len>> : i \in {j \in DOMAIN entries : EntryIsPart(k, entries[j])}}
Logical(sector) ==
  LET entries == image.ext[sector]
  IN {<<sector + entries[i].start, entries[i].len>> :
        i \in {j \in DOMAIN entries : EntryIsPart("dos", entries[j]) /\ entries[j].start # 0}}

\* The extended partitions of a table.
ExtOf(entries) ==
  {entries[i].start : i \in {j \in DOMAIN entries : entries[j].kind = "ext" /\ entries[j].len # 0}}

\* S holds (b, s) for each extended table s that is reached from the primary
\* one, with b the first on the way.
HoldsTables(S) ==
  /\ \A b \in ExtOf(image.mbr.entries) \intersect DOMAIN image.ext : <<b, b>> \in S
  /\ \A t \in S : \A x \in ExtOf(image.ext[t[2]]) \ {0} :
       t[1] + x \in DOMAIN image.ext => <<t[1], t[1] + x>> \in S

\* The extended tables that can be reached from the primary one.
Tables ==
  {s \in DOMAIN image.ext :
     \A S \in SUBSET (ExtOf(image.mbr.entries) \X DOMAIN image.ext) :
       HoldsTables(S) => \E t \in S : t[2] = s}

-----------------------------------------------------------------------------
(* Properties *)

TypeOK ==
  /\ disk \in DOMAIN Disks
  /\ turn \in 1..Len(Kinds) + 1
  /\ \A k \in KindSet : attempt[k] \in 1..Len(Attempts(k)) /\ parts[k] \in Seq(Parts)
  /\ open \subseteq KindSet /\ found \subseteq KindSet
  /\ at \in Nat \ {0} /\ prevEnd \in Nat
  /\ prev \in KindSet \union {NULL}
  /\ pc \in {"kind", "try", "entry", "finish", "unused", "loaded", "returned"}

Returned == pc = "returned" /\ prev # NULL

Sectors(p) == p.start..EndOf(p) - 1

\* Each part with one of the flags ends before the next of them begins.
Apart(l, flags) ==
  \A i, j \in DOMAIN l :
    i < j /\ l[i].flag \in flags /\ l[j].flag \in flags => EndOf(l[i]) <= l[j].start

\* The list is in the order of the starts and numbered from 0, and covers the
\* whole disk with parts that are allocated or not; if those of the table do not
\* overlap, the unused ones between them do not either.  (Otherwise a used
\* sector may be listed as unused too, since only the part before is looked at.)
ListFillsTheDisk ==
  Returned =>
    LET l == parts[prev]
        real == {i \in DOMAIN l : ~IsMeta(l[i])} IN
    /\ IsInOrder(l) /\ IsNumbered(l)
    /\ 0..Blocks(TryOf(prev).bs) - 1 \subseteq UNION {Sectors(l[i]) : i \in real}
    /\ Apart(l, {"alloc", "safety", "free"}) => Apart(l, PartFlags \ {"meta"})

\* The allocated parts are those of one table, the one that was accepted last,
\* whatever was read before it at other block sizes and places.  Not so for
\* Mac: what the first attempt listed before it failed stays.
PartsAreTheTables ==
  Returned =>
    CASE prev = "dos" ->
           /\ InTheTable("dos") \subseteq Listed("dos")
           /\ Listed("dos") \subseteq InTheTable("dos") \union UNION {Logical(s) : s \in Tables}
      [] prev = "mac" -> InTheTable("mac") \subseteq Listed("mac")
      [] OTHER -> Listed(prev) = InTheTable(prev)

\* When the search is over, the structure that is returned is allocated, and no
\* other is: not even in conflicts.  Only the one of a DOS table that a BSD
\* label supersedes is left, and nobody can free it.
OneIsLeftOpen ==
  pc = "returned" =>
    open = (IF prev = NULL THEN {} ELSE {prev}) \union (IF {"dos", "bsd"} \subseteq found THEN {"dos"} ELSE {})
=============================================================================
