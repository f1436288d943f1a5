------------------------------ MODULE DirWalk ------------------------------
(***************************************************************************)
(* tsk_fs_dir_walk and the search for orphans (sleuthkit/tsk/fs/           *)
(* fs_dir.cpp), as FileSystem.WalkDirectories and OpenDirectory call them. *)
(*                                                                         *)
(* A walk of the whole tree collects the deleted files that it meets a     *)
(* name of and leaves them in list_inum_named of the file system.  Loading *)
(* the virtual orphan directory needs that list: it walks the tree for it  *)
(* if no walk has, then all metadata structures, and each orphaned         *)
(* directory in turn.  So walks and searches nest: a thread has a stack of *)
(* them.  Threads meet in the list and in orphan_dir, each under a lock.   *)
(***************************************************************************)
EXTENDS DirTree, FiniteSetsExt, TskList

CONSTANTS
  Threads,    \* threads of the program
  Images,     \* the file systems there are, by name
  WalkFlags,  \* the flags that walks are called with
  MaxCalls,   \* calls a thread makes at most (a bound of the model)
  NULL        \* no thread, or no directory

Addresses == 0..MaxKey \ {OrphanDir}
NameSet == [addr : 0..MaxKey, alloc : BOOLEAN, dirLike : BOOLEAN, dot : BOOLEAN, score : 0..3]
IsOf(f, values) == DOMAIN f \subseteq Addresses /\ f \in [DOMAIN f -> values]

ASSUME ImagesAssumption ==
  /\ {Root, OrphanDir} \subseteq 0..MaxKey
  /\ \A k \in DOMAIN Images :
       LET im == Images[k] IN
       /\ im \in [names : {im.names}, meta : {im.meta}, bad : SUBSET Addresses, damaged : BOOLEAN]
       /\ IsOf(im.names, Seq(NameSet)) /\ IsOf(im.meta, [dir : BOOLEAN, alloc : BOOLEAN])
ASSUME CallsAssumption ==
  /\ NULL \notin Threads /\ NULL \notin Seq(0..MaxKey)
  /\ WalkFlags \subseteq SUBSET {"ALLOC", "UNALLOC", "RECURSE", "NOORPHAN"}
  /\ MaxCalls \in Nat

VARIABLES
  disk,             \* the file system looked at, by its name
  list_inum_named,  \* its list of named deleted files
  orphan_dir,       \* its orphan directory: the addresses in it, or NULL
  orphan_dir_lock,  \* the thread that holds the lock, or NULL
  stack,            \* each thread's walks and searches, the current one last
  back,             \* what the last of them that ended returned
  call,             \* the flags of the walk each thread is in or made last
  given,            \* the addresses of the names its callback was called for
  refused,          \* the threads whose callback failed in that call
  calls             \* the calls made so far

shared == <<list_inum_named, orphan_dir, orphan_dir_lock>>
caller == <<call, given, refused, calls>>
vars == <<disk, shared, stack, back, caller>>

image == Images[disk]

Top(t) == Last(stack[t])
At(t, kind, pc) == stack[t] # << >> /\ Top(t).kind = kind /\ Top(t).pc = pc

\* The thread's current job goes on as j, calls job k, or returns r.
GoesOn(t, j) == stack' = [stack EXCEPT ![t] = Append(Front(@), j)] /\ UNCHANGED back
Starts(t, j, k) == stack' = [stack EXCEPT ![t] = Front(@) \o <<j, k>>] /\ UNCHANGED back
Returns(t, r) == stack' = [stack EXCEPT ![t] = Front(@)] /\ back' = [back EXCEPT ![t] = r]

\* No flags of a walk: the call opens the orphan directory.
NoWalk == {"OPEN"}

\* A walk on its way to open directory addr, and a search.
Walk(addr, flags, action) ==
  [kind |-> "walk", pc |-> "check", addr |-> addr, flags |-> flags, action |-> action,
   save |-> FALSE, list |-> Empty, seen |-> << >>, frames |-> << >>, ret |-> "CONT"]
SearchAfter(a) == [kind |-> "search", pc |-> "lock", names |-> << >>, subdirs |-> Empty, next |-> a]

-----------------------------------------------------------------------------
(* Calls of the wrapper *)

NewCall(t, flags) ==
  /\ stack[t] = << >> /\ calls[t] < MaxCalls
  /\ call' = [call EXCEPT ![t] = flags]
  /\ given' = [given EXCEPT ![t] = {}]
  /\ refused' = refused \ {t}
  /\ calls' = [calls EXCEPT ![t] = @ + 1]
  /\ UNCHANGED <<disk, shared, back>>

WalkDirectories(t, flags) ==
  /\ NewCall(t, flags)
  /\ stack' = [stack EXCEPT ![t] = <<Walk(Root, flags, "user")>>]
OpenOrphanDir(t) ==
  /\ NewCall(t, NoWalk)
  /\ stack' = [stack EXCEPT ![t] = <<SearchAfter(-1)>>]

-----------------------------------------------------------------------------
(* tsk_fs_dir_walk_recursive: a frame for each directory on the way *)

Frame(d) == [dir |-> d, i |-> 1, bak |-> FALSE]
Onward(f) == [f EXCEPT !.i = @ + 1, !.bak = FALSE]
NextName(w) == [w EXCEPT !.frames = Append(Front(@), Onward(Last(@))), !.pc = "entry"]

\* Back in the directory above: an error below is forgotten, the address is
\* taken off seen, and what is left behind is not looked at again.
BackAbove(w, ret) ==
  IF w.frames = << >> THEN [w EXCEPT !.ret = ret, !.pc = "returned"]
  ELSE NextName([w EXCEPT !.seen = Front(@),
                          !.save = IF w.addr = OrphanDir THEN Last(w.frames).bak ELSE @])
Leave(w, ret) ==
  BackAbove([w EXCEPT !.frames = Front(@), !.addr = Last(w.frames).dir], ret)

\* Directory w.addr is opened.
Opened(w) == [w EXCEPT !.frames = Append(@, Frame(w.addr)), !.pc = "entry"]
Into(w) ==
  IF w.addr \in DOMAIN image.names \ image.bad THEN Opened(w) ELSE BackAbove(w, "ERROR")

\* The orphan directory is: its names are a copy of orphan_dir.
OrphanDirOpened(t) ==
  /\ At(t, "walk", "opening")
  /\ GoesOn(t, IF back[t] = "ERROR" THEN BackAbove(Top(t), "ERROR") ELSE Opened(Top(t)))
  /\ UNCHANGED <<disk, shared, caller>>

\* Mutant: the names of the last score are left out.
PrioritizeButLast(names) == SelectSeq(names, LAMBDA e : e.score < 3)

\* prioritizeDirNames: what users keep first, swap files last.
PrioritizeDirNames(names) ==
  LET IsBefore(i, j) ==
        names[i].score < names[j].score \/ (names[i].score = names[j].score /\ i < j)
      Rank(j) == Cardinality({i \in DOMAIN names : IsBefore(i, j)}) + 1
  IN [k \in DOMAIN names |-> names[CHOOSE j \in DOMAIN names : Rank(j) = k]]

Listed == [k \in DOMAIN Images |->
  [Images[k].names EXCEPT ![Root] = PrioritizeDirNames(@)]]
Names(d) ==
  IF d = OrphanDir THEN [i \in DOMAIN orphan_dir |-> OrphanName(orphan_dir[i])]
  ELSE Listed[disk][d]

InDir(t) == At(t, "walk", "entry")
Dir(t) == Last(Top(t).frames)
AtName(t) == InDir(t) /\ Dir(t).i <= Len(Names(Dir(t).dir))
Name(t) == Names(Dir(t).dir)[Dir(t).i]

\* load_orphan_dir_walk_cb, with the data of the search that walks.
OrphanAnswer(t) ==
  IF Name(t).dot \/ ~HasMeta(image, Name(t)) THEN "CONT"
  ELSE IF MetaOf(image, Name(t).addr).alloc \/ Find(stack[t][Len(stack[t]) - 1].subdirs, Name(t).addr)
    THEN "STOP"
  ELSE "CONT"

\* What the callback answers: the user's whatever it likes.
Answers(t) ==
  IF ~Wanted(Name(t), Top(t).flags) THEN {"CONT"}
  ELSE CASE Top(t).action = "user"   -> {"CONT", "STOP", "ERROR"}
         [] Top(t).action = "orphan" -> {OrphanAnswer(t)}
         [] OTHER                    -> {"CONT"}

CallsBack(t, answer) ==
  /\ answer \in Answers(t)
  /\ given' = IF Top(t).action = "user" /\ Wanted(Name(t), Top(t).flags)
              THEN [given EXCEPT ![t] = @ \union {Name(t).addr}] ELSE given
  /\ refused' = IF answer = "ERROR" THEN refused \union {t} ELSE refused
  /\ UNCHANGED <<call, calls>>

\* STOP goes up through all directories of the walk.
CallbackStops(t) ==
  /\ AtName(t) /\ CallsBack(t, "STOP")
  /\ GoesOn(t, [Top(t) EXCEPT !.frames = << >>, !.ret = "STOP", !.pc = "returned",
                              !.list = IF Top(t).save THEN Empty ELSE @, !.save = FALSE])
  /\ UNCHANGED <<disk, shared>>

\* ERROR ends the directory.
CallbackFails(t) ==
  /\ AtName(t) /\ CallsBack(t, "ERROR")
  /\ GoesOn(t, Leave(Top(t), "ERROR"))
  /\ UNCHANGED <<disk, shared>>

\* save_inum_named: the first list to arrive stays.
SaveInumNamed(list) ==
  list_inum_named' = IF list_inum_named = Empty THEN list ELSE list_inum_named

Collects(w, e) == w.save /\ HasMeta(image, e) /\ ~MetaOf(image, e.addr).alloc
Collected(w, e) == IF Collects(w, e) THEN [w EXCEPT !.list = Add(@, e.addr)] ELSE w

\* The tree is done when the orphan directory is the last of the names.
IsSavedEarly(w, e, last) == w.save /\ e.addr = OrphanDir /\ last

\* Nothing is collected inside the orphan directory: bak keeps save.
Saving(f, save) == [f EXCEPT !.bak = save]
Descend(w, e) ==
  LET below == [w EXCEPT !.seen = Append(@, e.addr), !.addr = e.addr] IN
  IF e.addr # OrphanDir THEN <<Into(below)>>
  ELSE <<[below EXCEPT !.save = FALSE, !.pc = "opening",
                       !.frames = Append(Front(@), Saving(Last(@), w.save))], SearchAfter(-1)>>

\* At the depth limit the directory fails with the address still on seen.
TooFarDown(w) == Len(w.frames) - 1 >= MaxDepth

IsLoop(w, e) == e.addr \in ToSet(w.seen)

After(w, e) ==
  IF ~GoesInto(image, e, w.flags) \/ IsLoop(w, e) THEN <<NextName(w)>>
  ELSE IF TooFarDown(w) THEN <<Leave([w EXCEPT !.seen = Append(@, e.addr)], "ERROR")>>
  ELSE Descend(w, e)

\* The orphan callback leaves what it was called for with the search.
Remembering(t, jobs, e) ==
  IF Top(t).action = "orphan" /\ Wanted(e, Top(t).flags) /\ ~e.dot /\ HasMeta(image, e)
  THEN Front(jobs) \o <<[Last(jobs) EXCEPT !.subdirs = Add(@, e.addr)]>>
  ELSE jobs

VisitName(t) ==
  LET e == Name(t)
      collected == Collected(Top(t), e)
      early == IsSavedEarly(collected, e, Dir(t).i = Len(Names(Dir(t).dir)))
      w == IF early THEN [collected EXCEPT !.list = Empty, !.save = FALSE] ELSE collected IN
  /\ AtName(t) /\ CallsBack(t, "CONT")
  /\ IF early THEN SaveInumNamed(collected.list) ELSE UNCHANGED list_inum_named
  /\ stack' = [stack EXCEPT ![t] = Remembering(t, Front(@), e) \o After(w, e)]
  /\ UNCHANGED <<disk, orphan_dir, orphan_dir_lock, back>>

DirEnds(t) ==
  /\ InDir(t) /\ ~AtName(t)
  /\ GoesOn(t, Leave(Top(t), "CONT"))
  /\ UNCHANGED <<disk, shared, caller>>

-----------------------------------------------------------------------------
(* tsk_fs_dir_walk_internal *)

CheckNamed(t) ==
  /\ At(t, "walk", "check")
  /\ GoesOn(t, Into([Top(t) EXCEPT
       !.save = list_inum_named = Empty /\ Top(t).addr = Root /\ "RECURSE" \in Top(t).flags]))
  /\ UNCHANGED <<disk, shared, caller>>

Keeps(w) == w.save /\ w.ret = "CONT"

EndWalk(t) ==
  /\ At(t, "walk", "returned") /\ Top(t).frames = << >>
  /\ IF Keeps(Top(t)) THEN SaveInumNamed(Top(t).list) ELSE UNCHANGED list_inum_named
  /\ Returns(t, Top(t).ret)
  /\ UNCHANGED <<disk, orphan_dir, orphan_dir_lock, caller>>

-----------------------------------------------------------------------------
(* tsk_fs_dir_find_orphans *)

\* With the lock: a copy of what an earlier search has made, if one has.
TakeOrphanLock(t) ==
  /\ At(t, "search", "lock") /\ orphan_dir_lock = NULL
  /\ IF orphan_dir # NULL
     THEN Returns(t, "CONT") /\ UNCHANGED orphan_dir_lock
     ELSE GoesOn(t, [Top(t) EXCEPT !.pc = "load"]) /\ orphan_dir_lock' = t
  /\ UNCHANGED <<disk, list_inum_named, orphan_dir, caller>>

\* tsk_fs_dir_load_inum_named
LoadInumNamed(t) ==
  /\ At(t, "search", "load")
  /\ IF list_inum_named # Empty THEN GoesOn(t, [Top(t) EXCEPT !.pc = "metas"])
     ELSE Starts(t, [Top(t) EXCEPT !.pc = "walking"], Walk(Root, Search, "named"))
  /\ UNCHANGED <<disk, shared, caller>>

\* Mutant: a search that fails keeps the lock.
SearchFailsLocked(t) == Returns(t, "ERROR") /\ UNCHANGED <<disk, shared, caller>>

SearchFails(t) ==
  /\ Returns(t, "ERROR") /\ orphan_dir_lock' = NULL
  /\ UNCHANGED <<disk, list_inum_named, orphan_dir, caller>>

\* The walk for the named files, or through an orphaned directory, is over.
Walked(t) ==
  /\ At(t, "search", "walking")
  /\ IF back[t] = "ERROR" THEN SearchFails(t)
     ELSE /\ GoesOn(t, [Top(t) EXCEPT !.pc = "metas"])
          /\ UNCHANGED <<disk, shared, caller>>

\* tsk_fs_meta_walk over the deleted files, in the order of their addresses.
Ahead(t) == {a \in Deleted(image) : a > Top(t).next}

MetaWalkFails(t) ==
  At(t, "search", "metas") /\ image.damaged /\ SearchFails(t)

IsKnown(j, a) == Find(list_inum_named, a) \/ Find(j.subdirs, a)

\* find_orphan_meta_walk_cb
FindOrphan(t) ==
  LET j == Top(t)
      a == Min(Ahead(t))
      listed == [j EXCEPT !.names = Append(@, a), !.next = a] IN
  /\ At(t, "search", "metas") /\ ~image.damaged /\ Ahead(t) # {}
  /\ IF IsKnown(j, a) THEN GoesOn(t, [j EXCEPT !.next = a])
     ELSE IF image.meta[a].dir
       THEN Starts(t, [listed EXCEPT !.pc = "walking"], Walk(a, Search, "orphan"))
     ELSE GoesOn(t, listed)
  /\ UNCHANGED <<disk, shared, caller>>

\* The last name takes the place of name i, and is not looked at there.
DropName(names, i) == Front([names EXCEPT ![i] = Last(names)])

\* Names that an orphaned directory holds too go, but never the last name.
DeDuped(names, subdirs) ==
  LET kept[i \in 0..Len(names)] ==
        IF i = 0 THEN names
        ELSE IF i < Len(kept[i - 1]) /\ Find(subdirs, kept[i - 1][i]) THEN DropName(kept[i - 1], i)
        ELSE kept[i - 1]
  IN kept[Len(names)]

SearchEnds(t) ==
  /\ At(t, "search", "metas") /\ ~image.damaged /\ Ahead(t) = {}
  /\ orphan_dir' = DeDuped(Top(t).names, Top(t).subdirs)
  /\ orphan_dir_lock' = NULL
  /\ Returns(t, "CONT")
  /\ UNCHANGED <<disk, list_inum_named, caller>>

-----------------------------------------------------------------------------

Init ==
  /\ disk \in DOMAIN Images
  /\ list_inum_named = Empty /\ orphan_dir = NULL /\ orphan_dir_lock = NULL
  /\ stack = [t \in Threads |-> << >>]
  /\ back = [t \in Threads |-> "CONT"]
  /\ call = [t \in Threads |-> NoWalk]
  /\ given = [t \in Threads |-> {}]
  /\ refused = {}
  /\ calls = [t \in Threads |-> 0]

Step(t) ==
  \/ CheckNamed(t) \/ OrphanDirOpened(t) \/ CallbackStops(t) \/ CallbackFails(t)
  \/ VisitName(t) \/ DirEnds(t) \/ EndWalk(t)
  \/ TakeOrphanLock(t) \/ LoadInumNamed(t) \/ Walked(t) \/ MetaWalkFails(t)
  \/ FindOrphan(t) \/ SearchEnds(t)

Next ==
  \E t \in Threads :
    (\E flags \in WalkFlags : WalkDirectories(t, flags)) \/ OpenOrphanDir(t) \/ Step(t)

\* Threads in native code do not all stand still.
Spec == Init /\ [][Next]_vars /\ WF_vars(\E t \in Threads : Step(t))

-----------------------------------------------------------------------------
(* Properties *)

TypeOK ==
  /\ disk \in DOMAIN Images
  /\ list_inum_named \in Seq(Buckets)
  /\ orphan_dir = NULL \/ orphan_dir \in Seq(Deleted(image))
  /\ orphan_dir_lock \in Threads \union {NULL}
  /\ refused \subseteq Threads
  /\ \A t \in Threads :
       /\ \A i, j \in DOMAIN stack[t] :
            stack[t][i].kind = "search" /\ stack[t][j].kind = "search" => i = j
       /\ Len(stack[t]) <= 3
       /\ back[t] \in {"CONT", "STOP", "ERROR"}
       /\ calls[t] \in 0..MaxCalls

\* The search for orphans keeps what OrphanFiles promises: however walks and
\* searches of several threads overlap, the list of named files becomes known
\* once and in full, the orphan directory is made once and from it, and no
\* orphan has a name or is lost.
Orphans == INSTANCE OrphanFiles WITH named <- Elements(list_inum_named), orphans <- orphan_dir
OrphansSpec == Orphans!Spec

\* A walk whose callback always goes on has called it for every name of the
\* kinds asked for in every directory that can be reached: loops and the
\* directories that fail cost no others, and the orphan directory is among
\* them unless it is left out or the search for it failed.
Seen ==
  LET orphans == IF orphan_dir = NULL THEN << >> ELSE Names(OrphanDir) IN
  [image EXCEPT !.names =
    [d \in DOMAIN image.names \union {OrphanDir} |-> IF d = OrphanDir THEN orphans ELSE image.names[d]]]
SearchMayFail ==
  image.damaged \/ \E a \in Deleted(image) : image.meta[a].dir /\ a \notin DOMAIN image.names \ image.bad
Shown(im, flags) == {e.addr : e \in {n \in Below(im, Root, flags) : Wanted(n, flags)}}
WalkSeesAll ==
  \A t \in Threads :
    /\ stack[t] = << >> /\ call[t] \in WalkFlags /\ back[t] = "CONT" /\ t \notin refused
    /\ ~TooDeep(Seen, Root, call[t])
    => \/ given[t] = Shown(Seen, call[t])
       \/ SearchMayFail /\ given[t] = Shown(image, call[t])

\* Every call returns: no walk runs in circles, and no thread waits for the
\* lock of the orphan directory for ever, not even for itself.
CallsReturn == []<>(\A t \in Threads : stack[t] = << >>)

\* TSK_WALK_ERROR from a callback ends the walk with an error.
ErrorEndsTheWalk ==
  \A t \in Threads : stack[t] = << >> /\ t \in refused => back[t] = "ERROR"
=============================================================================
