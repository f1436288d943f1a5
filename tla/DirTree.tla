------------------------------ MODULE DirTree ------------------------------
(***************************************************************************)
(* What a walk meets in a file system (TSK_FS_NAME and TSK_FS_META of      *)
(* sleuthkit/tsk/fs/tsk_fs.h): directories hold names, a name leads to a   *)
(* metadata structure, and either of them may be deleted.  An image is     *)
(*   names    : directory -> the names that its loading finds in it        *)
(*   meta     : address -> the metadata structure, where it can be loaded  *)
(*   bad      : the directories that cannot be loaded                      *)
(*   damaged  : the walk over the metadata structures fails                *)
(***************************************************************************)
EXTENDS Integers, Sequences, FiniteSets, SequencesExt

CONSTANTS
  Root,       \* root_inum
  OrphanDir,  \* TSK_FS_ORPHANDIR_INUM
  MaxDepth    \* MAX_DEPTH of a walk

ASSUME DirTreeAssumption ==
  Root \in Nat /\ OrphanDir \in Nat /\ Root # OrphanDir /\ MaxDepth \in Nat \ {0}

\* The structure of the virtual directory is made up, the others are read.
HasMeta(im, e) ==
  /\ e.addr # 0 \/ e.alloc
  /\ e.addr \in DOMAIN im.meta \union {OrphanDir}
MetaOf(im, a) == IF a = OrphanDir THEN [alloc |-> TRUE, dir |-> TRUE] ELSE im.meta[a]

\* Recursion needs a name and a structure of a directory, both deleted or
\* the name not.
GoesInto(im, e, flags) ==
  /\ "RECURSE" \in flags
  /\ e.dirLike /\ ~e.dot
  /\ HasMeta(im, e) /\ MetaOf(im, e.addr).dir
  /\ e.alloc \/ ~MetaOf(im, e.addr).alloc
  /\ e.addr # OrphanDir \/ "NOORPHAN" \notin flags

\* The names a callback is called for.
Wanted(e, flags) ==
  LET kinds == flags \intersect {"ALLOC", "UNALLOC"} IN
  kinds = {} \/ (IF e.alloc THEN "ALLOC" ELSE "UNALLOC") \in kinds

\* The name of an orphan in the virtual directory.
OrphanName(a) == [addr |-> a, alloc |-> FALSE, dirLike |-> TRUE, dot |-> FALSE, score |-> 1]

-----------------------------------------------------------------------------
(* Reference definitions *)

NamesIn(im, d) == IF d \in DOMAIN im.names \ im.bad THEN ToSet(im.names[d]) ELSE {}

\* Where the names in a directory lead, and those of all directories.
Steps(im, d, flags) == {e.addr : e \in {n \in NamesIn(im, d) : GoesInto(im, n, flags)}}
Places(im, from, flags) == {from} \union UNION {Steps(im, d, flags) : d \in DOMAIN im.names}

\* The directories reached from one: those in every set that holds it and,
\* with a directory, where its names lead.
Reached(im, from, flags) ==
  LET places == Places(im, from, flags)
      IsClosed(S) == from \in S /\ \A d \in S : Steps(im, d, flags) \subseteq S
      closed == {S \in SUBSET places : IsClosed(S)}
  IN {p \in places : \A S \in closed : p \in S}
Below(im, from, flags) == UNION {NamesIn(im, d) : d \in Reached(im, from, flags)}

\* Some way down that meets no directory twice is longer than a walk goes.
IsWay(im, from, flags, w) ==
  /\ \A i \in DOMAIN w : w[i] \in Steps(im, IF i = 1 THEN from ELSE w[i - 1], flags)
  /\ \A i, j \in DOMAIN w : w[i] = w[j] => i = j
TooDeep(im, from, flags) ==
  \E w \in [1..MaxDepth + 1 -> Places(im, from, flags)] : IsWay(im, from, flags, w)

\* The deleted files that have a name, and those that have none.
Deleted(im) == {a \in DOMAIN im.meta : ~im.meta[a].alloc}

\* Mutant: the search goes into the directory that it is made for.
SearchEverywhere == {"UNALLOC", "RECURSE"}

\* The flags of the walks that look for orphans.
Search == {"UNALLOC", "RECURSE", "NOORPHAN"}

\* The root directory is not below itself, and only it holds the virtual one.
RootIsOnTop(im) ==
  \A d \in Reached(im, Root, Search) :
    /\ Root \notin Steps(im, d, Search)
    /\ d # Root => OrphanDir \notin {e.addr : e \in NamesIn(im, d)}

NamedBy(im) ==
  {e.addr : e \in {n \in Below(im, Root, Search) : HasMeta(im, n)}} \intersect Deleted(im)
=============================================================================
