-------------------------- MODULE DirWalkInvariants --------------------------
(***************************************************************************)
(* The inductive invariants of DirWalk.                                    *)
(*                                                                         *)
(*   TypeInv   what a list, a walk and a search are made of, and what may  *)
(*             be above what on the stack of a thread                      *)
(*   SoundInv  what walks have collected and which names they still have   *)
(*             to meet, and which deleted files a search has dealt with    *)
(*   FailInv   a search or one of its walks fails only on an image that    *)
(*             makes it fail                                               *)
(*   ShowsInv  what the walk of a user has called its callback for, up to  *)
(*             the name it is at                                           *)
(*                                                                         *)
(* Between them are the moves of walks and searches that DirWalkProofs     *)
(* sorts the steps into.                                                   *)
(***************************************************************************)
EXTENDS DirWalk

-----------------------------------------------------------------------------
(* Lists, walks and searches *)

\* A list as tsk_list_add keeps it: keys fall, and no bucket goes below 0.
Lists ==
  {l \in Seq(Buckets) :
     /\ \A i \in 1..Len(l) : l[i].len <= l[i].key + 1
     /\ \A i, j \in 1..Len(l) : i < j => l[j].key < l[i].key}

\* The three ways in which the stack of a thread changes.
Replaced(s, r, j) ==
  /\ Len(r) = Len(s) /\ r[Len(s)] = j
  /\ \A i \in 1..Len(s) - 1 : r[i] = s[i]
Pushed(s, r, j, k) ==
  /\ Len(r) = Len(s) + 1 /\ r[Len(s)] = j /\ r[Len(s) + 1] = k
  /\ \A i \in 1..Len(s) - 1 : r[i] = s[i]
Popped(s, r) ==
  /\ Len(r) = Len(s) - 1
  /\ \A i \in 1..Len(s) - 1 : r[i] = s[i]

AnyFlags == SUBSET {"ALLOC", "UNALLOC", "RECURSE", "NOORPHAN"}
Returned == {"CONT", "STOP", "ERROR"}
FrameSet == [dir : 0..MaxKey, i : Nat \ {0}, bak : BOOLEAN]
Walks ==
  [kind : {"walk"}, pc : {"check", "opening", "entry", "returned"}, addr : 0..MaxKey,
   flags : AnyFlags, action : {"user", "named", "orphan"}, save : BOOLEAN, list : Lists,
   seen : Seq(0..MaxKey), frames : Seq(FrameSet), ret : Returned]
Searches ==
  [kind : {"search"}, pc : {"lock", "load", "walking", "metas"}, names : Seq(0..MaxKey),
   subdirs : Lists, next : Int]

\* Walks of users, and those that a search makes, which leave orphans out.
UserWalks == {w \in Walks : w.action = "user"}
NestedWalks == {w \in Walks : w.action # "user" /\ w.flags = Search /\ w.pc # "opening"}
Jobs == UserWalks \union NestedWalks \union Searches

SameCall(w, v) == v.flags = w.flags /\ v.action = w.action

\* The frames of a walk are those of another, but for the place in the last.
SameFrames(w, v, n) ==
  \A k \in 1..n : v.frames[k].dir = w.frames[k].dir /\ v.frames[k].i = w.frames[k].i
                  /\ v.frames[k].bak = w.frames[k].bak

-----------------------------------------------------------------------------
(* The moves of a walk *)

\* It goes on with the next name of the directory.
Skips(w, v) ==
  /\ SameCall(w, v) /\ v.pc = "entry" /\ v.seen = w.seen /\ v.save = w.save /\ v.list = w.list
  /\ Len(v.frames) = Len(w.frames) /\ SameFrames(w, v, Len(w.frames) - 1)
  /\ v.frames[Len(w.frames)].dir = w.frames[Len(w.frames)].dir
  /\ v.frames[Len(w.frames)].i = w.frames[Len(w.frames)].i + 1
  /\ v.frames[Len(w.frames)].bak = FALSE

\* It goes down into directory d.
Enters(w, v, d) ==
  /\ SameCall(w, v) /\ v.pc = "entry" /\ v.save = w.save /\ v.list = w.list
  /\ Len(v.frames) = Len(w.frames) + 1 /\ SameFrames(w, v, Len(w.frames))
  /\ v.frames[Len(w.frames) + 1] = Frame(d)
  /\ v.seen = Append(w.seen, d)

\* It has a search for orphans made.
Opens(w, v) ==
  /\ SameCall(w, v) /\ v.pc = "opening" /\ v.save = FALSE /\ v.list = w.list /\ v.addr = OrphanDir
  /\ Len(v.frames) = Len(w.frames) /\ SameFrames(w, v, Len(w.frames) - 1)
  /\ v.frames[Len(w.frames)].dir = w.frames[Len(w.frames)].dir
  /\ v.frames[Len(w.frames)].i = w.frames[Len(w.frames)].i
  /\ v.frames[Len(w.frames)].bak = w.save
  /\ v.seen = Append(w.seen, OrphanDir)

\* It leaves the directory; seen is what is seen then.
Leaves(w, v, ret, seen) ==
  LET n == Len(w.frames) - 1 IN
  /\ SameCall(w, v) /\ v.list = w.list
  /\ Len(v.frames) = n /\ SameFrames(w, v, n - 1)
  /\ n = 0 => v.pc = "returned" /\ v.ret = ret /\ v.save = w.save
  /\ n > 0 => /\ v.pc = "entry" /\ v.seen = seen
              /\ v.frames[n].dir = w.frames[n].dir /\ v.frames[n].i = w.frames[n].i + 1
              /\ v.frames[n].bak = FALSE
              /\ v.save = IF w.frames[n + 1].dir = OrphanDir THEN w.frames[n].bak ELSE w.save

Loadable(im) == DOMAIN im.names \ im.bad

\* What happens after the callback, by the name e that it was called for.
AfterSkips(w, e) ==
  \/ ~GoesInto(image, e, w.flags) \/ IsLoop(w, e)
  \/ ~TooFarDown(w) /\ e.addr # OrphanDir /\ e.addr \notin Loadable(image)
Down(w, e) == GoesInto(image, e, w.flags) /\ ~IsLoop(w, e) /\ ~TooFarDown(w)

-----------------------------------------------------------------------------
(* The type invariant: stacks, the directories of a walk, the lock of a search *)

IsSearch(j) == j.kind = "search"
IsUser(j) == j.kind = "walk" /\ j.action = "user"
IsNested(j) == j.kind = "walk" /\ j.action # "user"

\* A walk of a user may be below a search for the orphan directory that it
\* opens, and a search below a walk that it makes.
StackOK(s) ==
  /\ s \in Seq(Jobs)
  /\ \A i \in 1..Len(s) :
       /\ IsUser(s[i]) => i = 1
       /\ IsSearch(s[i]) => i = 1 \/ (i = 2 /\ IsUser(s[1]))
       /\ IsNested(s[i]) => i > 1 /\ i = Len(s) /\ IsSearch(s[i - 1])
       /\ i < Len(s) => \/ IsUser(s[i]) /\ s[i].pc = "opening" /\ IsSearch(s[i + 1])
                        \/ IsSearch(s[i]) /\ s[i].pc = "walking" /\ IsNested(s[i + 1])

\* Where the directories of a walk are on seen: each above the next.
Pending(w) == IF w.pc = "opening" THEN 1 ELSE 0
OnSeen(w) ==
  \A i \in 2..Len(w.frames) :
    \E j \in 1..Len(w.seen) :
      w.seen[j] = w.frames[i].dir /\ j + (Len(w.frames) - i) + Pending(w) <= Len(w.seen)

WalkOK(im, od, w) ==
  /\ w.pc \in {"check", "returned"} <=> w.frames = << >>
  /\ w.pc = "check" => w.addr # OrphanDir
  /\ w.pc = "opening" => w.addr = OrphanDir /\ Len(w.seen) > 0 /\ w.seen[Len(w.seen)] = OrphanDir
  /\ OnSeen(w)
  /\ \A i \in 1..Len(w.frames) :
       \/ w.frames[i].dir \in Loadable(im)
       \/ w.frames[i].dir = OrphanDir /\ od # NULL

SearchOK(im, od, lock, t, j) ==
  /\ j.names \in Seq(Deleted(im))
  /\ j.pc # "lock" => lock = t /\ od = NULL

JobOK(im, od, lock, t, j) ==
  /\ j.kind = "walk" => WalkOK(im, od, j)
  /\ j.kind = "search" => SearchOK(im, od, lock, t, j)

\* A walk that waits for a search that did not fail finds the directory.
FindsOrphans(s, b, od) ==
  s # << >> /\ IsUser(Last(s)) /\ Last(s).pc = "opening" /\ b # "ERROR" => od # NULL

ThreadOK(im, od, lock, t, s, b) ==
  /\ StackOK(s)
  /\ \A i \in 1..Len(s) : JobOK(im, od, lock, t, s[i])
  /\ FindsOrphans(s, b, od)

SharedOK(im, l, od, lock) ==
  /\ l \in Lists
  /\ od = NULL \/ od \in Seq(Deleted(im))
  /\ lock \in Threads \union {NULL}

CallerOK ==
  /\ refused \subseteq Threads
  /\ call \in [Threads -> WalkFlags \union {NoWalk}]
  /\ given \in [Threads -> SUBSET (0..MaxKey)]
  /\ calls \in [Threads -> 0..MaxCalls]

TypeInv ==
  /\ disk \in DOMAIN Images
  /\ SharedOK(image, list_inum_named, orphan_dir, orphan_dir_lock)
  /\ CallerOK
  /\ stack \in [Threads -> Seq(Jobs)] /\ back \in [Threads -> Returned]
  /\ \A t \in Threads : ThreadOK(image, orphan_dir, orphan_dir_lock, t, stack[t], back[t])

-----------------------------------------------------------------------------
(* Steps, by what they do to the job on top of a stack *)

SameKind(j, k) ==
  (IsUser(j) /\ IsUser(k)) \/ (IsNested(j) /\ IsNested(k)) \/ (IsSearch(j) /\ IsSearch(k))

\* It goes on in the directory above when the search for orphans failed.
Resumes(w, v) ==
  LET n == Len(w.frames) IN
  /\ SameCall(w, v) /\ v.list = w.list /\ v.pc = "entry" /\ v.seen = Front(w.seen)
  /\ Len(v.frames) = n /\ SameFrames(w, v, n - 1)
  /\ v.frames[n].dir = w.frames[n].dir /\ v.frames[n].i = w.frames[n].i + 1
  /\ v.frames[n].bak = FALSE /\ v.save = w.frames[n].bak

\* It goes through the orphan directory when the search made one.
Looks(w, v) ==
  /\ SameCall(w, v) /\ v.list = w.list /\ v.save = w.save /\ v.pc = "entry" /\ v.seen = w.seen
  /\ Len(v.frames) = Len(w.frames) + 1 /\ SameFrames(w, v, Len(w.frames))
  /\ v.frames[Len(w.frames) + 1] = Frame(OrphanDir)

\* STOP leaves all directories, and the list is given up.
Stopped(w) == [w EXCEPT !.frames = << >>, !.ret = "STOP", !.pc = "returned",
                        !.list = IF w.save THEN Empty ELSE @, !.save = FALSE]

\* A walk but for what it has collected.
Amended(w, v) ==
  /\ v.kind = w.kind /\ v.pc = w.pc /\ v.addr = w.addr /\ SameCall(w, v) /\ v.seen = w.seen
  /\ v.frames = w.frames /\ v.ret = w.ret

\* The list is given to the file system and the walk has an empty one.
SavedEarly(w) == [w EXCEPT !.list = Empty, !.save = FALSE]

\* What the orphan callback leaves with the search below.
Remembers(w, e) == w.action = "orphan" /\ Wanted(e, w.flags) /\ ~e.dot /\ HasMeta(image, e)
Told(j, k, a) ==
  /\ k \in Searches /\ k.pc = j.pc /\ k.names = j.names /\ k.next = j.next
  /\ Elements(k.subdirs) = Elements(j.subdirs) \union {a}

\* The walk after the callback for e, the last name of its directory or not.
IsEarly(w, e, last) == IsSavedEarly(Collected(w, e), e, last)
Visited(w, e, last) == IF IsEarly(w, e, last) THEN SavedEarly(Collected(w, e)) ELSE Collected(w, e)
IsLastName(t) == Dir(t).i = Len(Names(Dir(t).dir))

\* No two names in the orphan directory are of one file; file a has one there.
Distinct(s) == \A i, j \in 1..Len(s) : s[i] = s[j] => i = j
Has(s, a) == \E i \in 1..Len(s) : s[i] = a

\* A search makes a walk.
WalkGives(a, flags, action) ==
  /\ Walk(a, flags, action) \in Walks /\ Walk(a, flags, action).flags = flags
  /\ Walk(a, flags, action).kind = "walk" /\ Walk(a, flags, action).action = action
  /\ Walk(a, flags, action).addr = a /\ Walk(a, flags, action).frames = << >>
  /\ Walk(a, flags, action).pc = "check" /\ Walk(a, flags, action).save = FALSE
  /\ Walk(a, flags, action).list = Empty /\ Walk(a, flags, action).seen = << >>
  /\ \A im, od : a # OrphanDir => WalkOK(im, od, Walk(a, flags, action))

\* A file that a search lists as an orphan is next in it.
Listing(j, a) == [j EXCEPT !.names = Append(@, a), !.next = a]
Passing(j, a) == [j EXCEPT !.next = a]

-----------------------------------------------------------------------------
(* What walks have collected, and what searches know *)

CanWalk == ~TooDeep(image, Root, Search) /\ RootIsOnTop(image)

\* All deleted files that have a name are known, or there are none.
Settled == list_inum_named # Empty \/ NamedBy(image) = {}

\* A walk collects in directories below the root only, and what it collects
\* has a name there.
SavesAbove(w, k) == w.save \/ \E m \in k..Len(w.frames) : w.frames[m].bak
Sound(w) ==
  /\ Elements(w.list) \subseteq NamedBy(image)
  /\ w.pc \in {"check", "opening"} => ~w.save
  /\ w.pc = "check" => w.seen = << >>
  /\ \A k \in 1..Len(w.frames) :
       SavesAbove(w, k) => w.frames[k].dir \in Reached(image, Root, Search)

\* The way down, as a walk has seen it.
OnWay(w) ==
  /\ w.frames[1].dir = Root
  /\ Len(w.seen) = Len(w.frames) - 1 + Pending(w)
  /\ \A i, j \in 1..Len(w.seen) : w.seen[i] = w.seen[j] => i = j
  /\ \A k \in 1..Len(w.frames) - 1 :
       /\ w.frames[k + 1].dir = w.seen[k]
       /\ w.seen[k] \in Steps(image, w.frames[k].dir, Search)

\* Name e has been dealt with: its file is collected, and its directory is
\* one of those in R, which are done or on the way.
Done(e, l, R) ==
  /\ HasMeta(image, e) /\ e.addr \in Deleted(image) => e.addr \in Elements(l)
  /\ GoesInto(image, e, Search) => e.addr \in R
Past(w, k) == IF k = Len(w.frames) /\ w.pc = "entry" THEN w.frames[k].i - 1 ELSE w.frames[k].i
Way(w) == {w.frames[k].dir : k \in 1..Len(w.frames)}
Covers(w, V) ==
  LET R == V \union Way(w) IN
  /\ \A d \in V : \A e \in NamesIn(image, d) : Done(e, w.list, R)
  /\ \A k \in 1..Len(w.frames) : \A p \in 1..Len(Names(w.frames[k].dir)) :
       p <= Past(w, k) => Done(Names(w.frames[k].dir)[p], w.list, R)
Account(w) == "RECURSE" \in w.flags /\ OnWay(w) /\ \E V \in SUBSET (0..MaxKey) : Covers(w, V)

Saves(w) ==
  \/ w.pc = "entry" /\ w.save
  \/ w.pc = "opening" /\ w.frames[Len(w.frames)].bak
Trusted(t, w) == w.action = "user" => t \notin refused
Accounts(t, w) ==
  /\ Saves(w) => Account(w)
  /\ w.pc = "returned" /\ w.save /\ w.ret = "CONT" => NamedBy(image) \subseteq Elements(w.list)
  /\ w.action = "named" => w.addr = Root \/ w.pc # "check"
  /\ w.action = "named" /\ w.pc = "entry" => w.save
  /\ w.action = "named" /\ w.pc = "returned" => (w.save /\ w.ret = "CONT") \/ w.ret = "ERROR"
  /\ w.action # "orphan"
WalkSound(t, w) == Sound(w) /\ (CanWalk /\ ~Settled /\ Trusted(t, w) => Accounts(t, w))

\* The files in the directories that orphan a leads to.
InsideOf(a) == {n \in Below(image, a, Search) : ~n.dot /\ HasMeta(image, n)}
Inside(a) == {e.addr : e \in InsideOf(a)}
NamesFit == \A a \in Deleted(image) : \A e \in InsideOf(a) : MetaOf(image, e.addr).dir => e.dirLike
Cyclic == \E a \in Deleted(image) : a \in Inside(a)

HasDir(j, o) == (\E i \in 1..Len(j.names) : j.names[i] = o) /\ o \in Deleted(image) /\ image.meta[o].dir

Knows(j) ==
  /\ \A i, k \in 1..Len(j.names) : j.names[i] = j.names[k] => i = k
  /\ \A i \in 1..Len(j.names) : j.names[i] <= j.next
  /\ \A a \in Deleted(image) : a <= j.next =>
       \/ a \in Elements(list_inum_named)
       \/ \E i \in 1..Len(j.names) : j.names[i] = a
       \/ a \in Elements(j.subdirs)
  /\ \A a \in Elements(j.subdirs) : \E o \in Deleted(image) : HasDir(j, o) /\ a \in Inside(o)
  /\ CanWalk => \A i \in 1..Len(j.names) : j.names[i] \notin Elements(list_inum_named)
  /\ CanWalk /\ ~Settled => j.names = << >> /\ j.pc # "metas"
SearchSound(s, b, i) ==
  /\ Knows(s[i])
  /\ CanWalk /\ ~Settled /\ s[i].pc = "walking" =>
       \/ i < Len(s) /\ s[i + 1].action = "named"
       \/ i = Len(s) /\ b = "ERROR"
  /\ i < Len(s) /\ s[i + 1].action = "orphan" =>
       LET w == s[i + 1] IN
       /\ HasDir(s[i], s[i].next)
       /\ w.pc = "check" => w.addr = s[i].next
       /\ \A k \in 1..Len(w.frames) : w.frames[k].dir \in Reached(image, s[i].next, Search)

ThreadSound(t, s, b) ==
  \A i \in 1..Len(s) :
    /\ s[i].kind = "walk" => WalkSound(t, s[i])
    /\ s[i].kind = "search" => SearchSound(s, b, i)
SoundInv ==
  /\ Elements(list_inum_named) \subseteq NamedBy(image)
  /\ CanWalk /\ orphan_dir # NULL => Settled
  /\ \A t \in Threads : ThreadSound(t, stack[t], back[t])

-----------------------------------------------------------------------------
(* How steps keep what they know *)

\* The walk is at name e of a directory of the tree, and has collected it.
Meets(w, e) ==
  LET n == Len(w.frames) IN
  /\ w.pc = "entry" /\ n > 0
  /\ e \in NamesIn(image, w.frames[n].dir) /\ e.addr \in 0..MaxKey
  /\ e = Names(w.frames[n].dir)[w.frames[n].i]
  /\ HasMeta(image, e) /\ e.addr \in Deleted(image) => e.addr \in Elements(w.list)

\* The list of named files changes only from no list, and holds names only.
Learns ==
  \/ list_inum_named' = list_inum_named
  \/ list_inum_named = Empty /\ Elements(list_inum_named') \subseteq NamedBy(image)

\* What a search needs of a walk that it makes through orphan a.
Roams(s, w) ==
  w.action = "orphan" =>
    LET a == s[Len(s) - 1].next IN
    /\ w.pc = "check" => w.addr = a
    /\ \A k \in 1..Len(w.frames) : w.frames[k].dir \in Reached(image, a, Search)

\* The named files are yet to be learned, and a walk of the tree meets all of
\* them.
Blind == CanWalk /\ ~Settled

\* From name e it goes on with the next, down, to a search, or up with an error.
GoneOn(u, v, e) ==
  \/ AfterSkips(u, e) /\ Skips(u, v)
  \/ Down(u, e) /\ e.addr \in Loadable(image) \ {OrphanDir} /\ Enters(u, v, e.addr)
  \/ Down(u, e) /\ e.addr = OrphanDir /\ Opens(u, v)
  \/ GoesInto(image, e, u.flags) /\ ~IsLoop(u, e) /\ TooFarDown(u) /\ Leaves(u, v, "ERROR", u.seen)

\* What a walk goes on as, and what it calls, hold in the next state as well.
TopMoves ==
  \A t, s, b, r, v :
    /\ StackOK(s) /\ s # << >> /\ ThreadSound(t, s, b) /\ v \in Walks
    /\ Replaced(s, r, v) /\ v.action = Last(s).action /\ Last(s).kind = "walk"
    /\ WalkSound(t, v) /\ Roams(s, v)
    => ThreadSound(t, r, b)

\* A search is called.
Adds(r, q, k) ==
  /\ Len(r) \in Nat \ {0} /\ Len(q) = Len(r) + 1
  /\ (\A i \in 1..Len(r) : q[i] = r[i]) /\ q[Len(r) + 1] = k

\* It has not found anything.
IsNewSearch(k) ==
  /\ k.kind = "search" /\ k.pc = "lock" /\ Len(k.names) = 0 /\ k.names = << >>
  /\ Elements(k.subdirs) = {} /\ k.next = -1

NewSearchKnows == \A k : disk \in DOMAIN Images /\ IsNewSearch(k) => Knows(k)
CallMoves ==
  \A t, r, b, q, k :
    /\ disk \in DOMAIN Images /\ ThreadSound(t, r, b) /\ Adds(r, q, k)
    /\ r[Len(r)].kind = "walk" /\ IsNewSearch(k)
    => ThreadSound(t, q, b)

\* A list that becomes known is complete, if no callback has failed.
Completes ==
  list_inum_named' # list_inum_named =>
    /\ list_inum_named = Empty /\ Elements(list_inum_named') \subseteq NamedBy(image)
    /\ refused = {} /\ CanWalk => NamedBy(image) \subseteq Elements(list_inum_named')

\* What is on top ends, and c is returned to what is under it.
EndMoves ==
  \A t, s, r, b, c :
    /\ StackOK(s) /\ s # << >> /\ ThreadSound(t, s, b) /\ Popped(s, r)
    /\ IsNested(Last(s)) /\ CanWalk /\ ~Settled => c = "ERROR"
    => ThreadSound(t, r, c)

\* What a step is to OrphanFiles.
Refines == Orphans!Next \/ UNCHANGED <<Elements(list_inum_named), orphan_dir>>

-----------------------------------------------------------------------------
(* What the walk of a user has called its callback for *)

\* More names lead to more directories and files.
MoreIn(im, jm, flags) ==
  /\ \A d : NamesIn(im, d) \subseteq NamesIn(jm, d)
  /\ \A e : GoesInto(im, e, flags) = GoesInto(jm, e, flags)

\* Without b the walk has not been in the orphan directory.
View(b) == IF b THEN Seen ELSE image

\* Name e has been met: the callback was called if it is of the kinds asked
\* for, and its directory is one of those in R.
Met(e, flags, g, R) ==
  (Wanted(e, flags) => e.addr \in g) /\ (GoesInto(image, e, flags) => e.addr \in R)

\* The directories found so far: those in V, which are done, and those on the
\* way down.
Found(w, V) == V \union {Root} \union ToSet(w.seen)
OnPath(w, b) ==
  /\ w.frames[1].dir = Root
  /\ Len(w.seen) = Len(w.frames) - 1 + Pending(w)
  /\ \A i, j \in 1..Len(w.seen) : w.seen[i] = w.seen[j] => i = j
  /\ \A k \in 1..Len(w.frames) - 1 : w.frames[k + 1].dir = w.seen[k]
  /\ \A k \in 1..Len(w.seen) :
       /\ w.seen[k] \in Steps(View(b), w.frames[k].dir, w.flags)
       /\ w.seen[k] \in Reached(View(b), Root, w.flags)

\* The walk is in the orphan directory or has been.
InOrphans(w, V) == OrphanDir \in V \/ \E k \in 1..Len(w.frames) : w.frames[k].dir = OrphanDir
Tracks(w, b, V, g) ==
  /\ OnPath(w, b)
  /\ g \subseteq Shown(View(b), w.flags)
  /\ b => orphan_dir # NULL /\ InOrphans(w, V)
  /\ ~b => \A k \in 1..Len(w.frames) : w.frames[k].dir # OrphanDir
  /\ ~b /\ OrphanDir \in V => SearchMayFail
  /\ \A d \in V : \A e \in NamesIn(View(b), d) : Met(e, w.flags, g, Found(w, V))
  /\ \A k \in 1..Len(w.frames) : \A p \in 1..Len(Names(w.frames[k].dir)) :
       p <= Past(w, k) => Met(Names(w.frames[k].dir)[p], w.flags, g, Found(w, V))
Ledger(w, g) == \E b \in BOOLEAN, V \in SUBSET (0..MaxKey) : Tracks(w, b, V, g)

\* The walk is at name e of its directory.
Faces(w, b, e) ==
  LET n == Len(w.frames) IN
  /\ w.pc = "entry" /\ n > 0 /\ e.addr \in 0..MaxKey
  /\ e \in NamesIn(View(b), w.frames[n].dir)
  /\ e = Names(w.frames[n].dir)[w.frames[n].i]

\* Its callback is called for e, if it is to be.
Hears(g, e, flags) == IF Wanted(e, flags) THEN g \union {e.addr} ELSE g

\* All that a walk with these flags is to be told of, if it has been told of g.
AllShown(flags, g) ==
  \/ orphan_dir # NULL /\ g = Shown(Seen, flags)
  \/ g = Shown(image, flags) /\ (SearchMayFail \/ OrphanDir \notin Reached(image, Root, flags))

\* The orphan directory is made once.
Made == orphan_dir' = orphan_dir \/ orphan_dir = NULL

SeenIs ==
  disk \in DOMAIN Images =>
    /\ \A d : d # OrphanDir => NamesIn(Seen, d) = NamesIn(image, d)
    /\ orphan_dir = NULL => NamesIn(Seen, OrphanDir) = {}
    /\ \A e, flags : GoesInto(Seen, e, flags) = GoesInto(image, e, flags)

\* The callback has not failed, and the tree is not too deep.
Heard(t, flags) == t \notin refused /\ ~TooDeep(Seen, Root, flags)

\* Walk w of a user with these flags, when the callback was called for g.
Sees(t, w, flags, g) ==
  /\ w.flags = flags
  /\ w.pc = "check" => w.addr = Root /\ w.seen = << >> /\ g = {}
  /\ w.pc \in {"entry", "opening"} /\ Heard(t, flags) => Ledger(w, g)
  /\ w.pc = "returned" /\ w.ret = "CONT" /\ Heard(t, flags) => AllShown(flags, g)

\* And its thread, which has stack s and was returned b.
Shows(t, s, b, flags, g) ==
  flags \in WalkFlags =>
    /\ s = << >> /\ b = "CONT" /\ Heard(t, flags) => AllShown(flags, g)
    /\ s # << >> => IsUser(s[1]) /\ Sees(t, s[1], flags, g)

ShowsInv == \A t \in Threads : Shows(t, stack[t], back[t], call[t], given[t])

-----------------------------------------------------------------------------
(* When a search for orphans fails *)

CanFail == SearchMayFail \/ Root \notin Loadable(image)

\* A walk that a search makes begins at the root or at an orphaned directory,
\* and fails only if it cannot load that.
Fails(w) ==
  /\ w.pc = "check" => w.addr = Root \/ (w.addr \in Deleted(image) /\ image.meta[w.addr].dir)
  /\ w.pc = "returned" /\ w.ret = "ERROR" => CanFail

\* What waits for such a walk or for a search.
Waits(j) == (IsSearch(j) /\ j.pc = "walking") \/ (IsUser(j) /\ j.pc = "opening")
FailsOK(s, b) ==
  /\ \A i \in 1..Len(s) : IsNested(s[i]) => Fails(s[i])
  /\ s # << >> /\ Waits(Last(s)) /\ b = "ERROR" => CanFail

FailInv == \A t \in Threads : FailsOK(stack[t], back[t])

-----------------------------------------------------------------------------
(* How steps keep what was called for *)

\* A walk has called its callback for a name, and goes on or has a search made.
Visits(t, s, u, v) ==
  /\ StackOK(s) /\ s # << >> /\ Len(s) = Len(stack[t]) /\ Last(s) = Top(t)
  /\ \A i \in 1..Len(s) : s[i] = stack[t][i] \/ (i = Len(s) - 1 /\ IsSearch(s[i]))
  /\ Amended(Top(t), u) /\ GoneOn(u, v, Name(t)) /\ v.action = Top(t).action
  /\ \/ v.pc = "entry" /\ stack' = [stack EXCEPT ![t] = Front(s) \o <<v>>]
     \/ v.pc = "opening" /\ stack' = [stack EXCEPT ![t] = Front(s) \o <<v, SearchAfter(-1)>>]

\* A search takes its thread from a walk of a user to it and back.
SearchMovesOn(t) ==
  /\ \E p : At(t, "search", p)
  /\ disk' = disk /\ Made /\ UNCHANGED caller
  /\ (\E j : GoesOn(t, j)) \/ (\E j, k : Starts(t, j, k)) \/ (\E c : Returns(t, c))
=============================================================================
