----------------------------- MODULE MCDirWalk -----------------------------
(* Small file systems for DirWalk: directories 1 (the root) to 3, other    *)
(* files up to 6, and the orphan directory 7.                              *)
EXTENDS DirWalk

N(a, alloc) == [addr |-> a, alloc |-> alloc, dirLike |-> TRUE, dot |-> FALSE, score |-> 1]
Dot(a) == [N(a, TRUE) EXCEPT !.dot = TRUE]
Virtual(score) == [N(OrphanDir, TRUE) EXCEPT !.score = score]

Metas(dirs, dead) ==
  [a \in 1..6 |-> [dir |-> a \in dirs, alloc |-> a \notin dead]]
Tree(names, dirs, dead) ==
  [names |-> names, meta |-> Metas(dirs, dead), bad |-> {}, damaged |-> FALSE]

\* A named deleted file, one in a directory, a deleted directory with a file.
Plain == Tree(1 :> <<Virtual(2), N(2, TRUE), N(4, FALSE)>> @@
              2 :> <<Dot(1), N(5, FALSE)>> @@ 3 :> <<Dot(1), N(6, FALSE)>>,
              1..3, {3, 4, 5, 6})
\* Orphans that come before the directory that holds them.
Children == Tree(1 :> <<[N(2, TRUE) EXCEPT !.score = 3], Virtual(1)>> @@ 2 :> << >> @@
                 5 :> <<N(3, FALSE), N(4, FALSE)>>, {1, 2, 5}, {3, 4, 5, 6})
\* Directories in a circle, with a swap file behind the orphan directory.
Circle == Tree(1 :> <<N(2, TRUE), Virtual(2), [N(6, TRUE) EXCEPT !.score = 3]>> @@
               2 :> <<N(3, TRUE), N(4, FALSE)>> @@ 3 :> <<N(2, TRUE), N(1, TRUE)>>,
               1..3, {4, 5})
\* A directory that cannot be loaded, a reused one, a structure that is gone.
Damage == [Tree(1 :> <<N(2, TRUE), N(3, FALSE), N(5, FALSE), Virtual(1)>> @@
                2 :> <<N(6, FALSE)>> @@ 3 :> <<N(6, FALSE)>>, 1..3, {4, 6})
             EXCEPT !.bad = {2}, !.meta = [a \in 1..6 \ {5} |-> @[a]]]
\* The metadata structures cannot be walked.
Unwalkable == [Tree(1 :> <<N(4, FALSE), Virtual(1)>>, {1}, {4, 5}) EXCEPT !.damaged = TRUE]
\* A chain of directories, longer than a walk goes.
Deep == Tree(1 :> <<N(2, TRUE), N(6, FALSE), Virtual(1)>> @@ 2 :> <<N(3, TRUE)>> @@
             3 :> <<N(4, TRUE)>> @@ 4 :> <<N(5, TRUE)>>, 1..5, {6})

\* An orphaned directory that cannot be loaded: it ends every search.
LostDir == [Tree(1 :> <<Virtual(1)>>, {1, 2}, {2, 3}) EXCEPT !.bad = {2}]
\* Orphaned directories in a circle: each is taken for a child of the other.
LostCircle == Tree(1 :> <<Virtual(1)>> @@ 2 :> <<N(3, FALSE)>> @@ 3 :> <<N(2, FALSE)>>,
                   1..3, {2, 3, 4})

\* The root directory again, in a directory with a deleted file behind it.
RootLoop == Tree(1 :> <<[N(2, TRUE) EXCEPT !.score = 0], Virtual(2)>> @@
                 2 :> <<N(1, TRUE), N(4, FALSE)>>, {1, 2}, {4, 5})
\* An orphaned directory with a name for another one that is that of a file.
Misnamed == Tree(1 :> <<Virtual(1)>> @@ 2 :> <<N(4, FALSE)>> @@
                 3 :> <<[N(2, FALSE) EXCEPT !.dirLike = FALSE]>>, 1..3, {2, 3, 4})

MCImages ==
  "plain" :> Plain @@ "children" :> Children @@ "circle" :> Circle @@
  "damage" :> Damage @@ "unwalkable" :> Unwalkable @@ "deep" :> Deep @@ "lostdir" :> LostDir @@
  "lostcircle" :> LostCircle @@ "rootloop" :> RootLoop @@ "misnamed" :> Misnamed

MCWalkFlags == {{"RECURSE"}, {"UNALLOC", "RECURSE", "NOORPHAN"}}
=============================================================================
