---------------------------- MODULE OrphanFiles ----------------------------
(***************************************************************************)
(* What the search for orphans promises (sleuthkit/tsk/fs/fs_dir.cpp): the *)
(* deleted files that have a name become known once, all at a time, and    *)
(* the virtual directory of those that have none is made once, from them.  *)
(* Neither changes afterwards, however many threads walk and search.       *)
(***************************************************************************)
EXTENDS DirTree

CONSTANT NULL

VARIABLES
  image,      \* the file system
  refused,    \* the threads whose callback failed in their current walk
  named,      \* the deleted files known to have a name
  orphans     \* the names of the orphan directory, or NULL

\* A walk meets all names below the root.
Walkable == ~TooDeep(image, Root, Search) /\ RootIsOnTop(image)

\* Everything in the directories that are reached from orphan a.
InsideOf(a) == {n \in Below(image, a, Search) : ~n.dot /\ HasMeta(image, n)}
Inside(a) == {e.addr : e \in InsideOf(a)}
Cyclic == \E a \in Deleted(image) : a \in Inside(a)

\* No name of an orphaned directory is that of a file.
NamesFit == \A a \in Deleted(image) : \A e \in InsideOf(a) : MetaOf(image, e.addr).dir => e.dirLike

LearnNames ==
  /\ named = {} /\ named' \in SUBSET NamedBy(image)
  /\ refused = {} /\ Walkable => named' = NamedBy(image)
  /\ UNCHANGED orphans

\* No orphan has a name, and none is lost: it is in the directory or inside
\* an orphan that is.
FindOrphans ==
  /\ orphans = NULL
  /\ orphans' # NULL
  /\ ToSet(orphans') \subseteq Deleted(image)
  /\ Walkable => ToSet(orphans') \intersect named = {}
  /\ \A i, j \in DOMAIN orphans' : orphans'[i] = orphans'[j] => i = j
  /\ NamesFit /\ ~Cyclic =>
       \A a \in Deleted(image) \ named :
         \E o \in ToSet(orphans') : a = o \/ a \in Inside(o)
  /\ UNCHANGED named

Init == named = {} /\ orphans = NULL

Next == image' = image /\ (LearnNames \/ FindOrphans)

Spec == Init /\ [][Next]_<<named, orphans>>
=============================================================================
