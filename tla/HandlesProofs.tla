---------------------------- MODULE HandlesProofs ----------------------------
(* Whatever a program does, no call of the wrapper works with a structure    *)
(* that the collector has closed, and what it disposes of does not wait for  *)
(* the collector.                                                            *)
EXTENDS Handles, TLAPS

\* What the collector has closed and the program has not.
Collected == closed \ disposed

\* It is neither reachable from what is still used nor passed to a native call.
\* What a call makes is new, and an image of a pool is not older than the pool.
IInv ==
  /\ TypeOK
  /\ Collected \intersect Reach(held \union Kept) = {}
  /\ Collected \intersect Pinned = {}
  /\ call # NULL => Running.makes \notin made
  /\ "img1" \in made => "pool" \in made

\* What a program disposed is closed, but for what a running call is using,
\* and is held no more; a pool is disposed with its image.  Images of a pool are
\* never given to the program.
ReleaseInv ==
  /\ disposed \subseteq closed \union Pinned
  /\ disposed \intersect held = {}
  /\ held \intersect {"img1", "img2"} = {}
  /\ "pool" \in disposed /\ "img1" \in made => "img1" \in disposed

-----------------------------------------------------------------------------
(* Reachability *)

LEMMA ReachGrows ==
  ASSUME NEW S, NEW T, S \subseteq T PROVE Reach(S) \subseteq Reach(T)
BY DEF Reach, WithRefs

LEMMA ReachHoldsRoots ==
  ASSUME NEW S PROVE S \subseteq Reach(S)
BY DEF Reach, WithRefs

LEMMA ReachOfUnion ==
  ASSUME NEW S, NEW T PROVE Reach(S \union T) = Reach(S) \union Reach(T)
<1>1. ASSUME NEW A, NEW B PROVE WithRefs(A \union B) = WithRefs(A) \union WithRefs(B)
  BY DEF WithRefs
<1> QED BY <1>1 DEF Reach

\* What each kind of object leads to.
LEMMA ReachOfEach ==
  /\ Reach({}) = {}
  /\ Reach({"image"}) = {"image"}
  /\ Reach({"vs"}) = {"vs", "image"}
  /\ Reach({"volume"}) = {"volume", "vs", "image"}
  /\ Reach({"fs"}) = {"fs", "image"}
  /\ Reach({"file"}) = {"file", "fs", "image"}
  /\ Reach({"dir"}) = {"dir", "fs", "image"}
  /\ Reach({"entry"}) = {"entry", "dir", "fs", "image"}
  /\ Reach({"pool"}) = {"pool", "img1"}
  /\ Reach({"pfs1"}) = {"pfs1"}
  /\ Reach({"pfs2"}) = {"pfs2"}
  /\ Reach({"pfile"}) = {"pfile", "pfs1"}
<1> DEFINE R(o) == Refs[o]
<1>1. /\ R("volume") = {"vs"} /\ R("vs") = {"image"} /\ R("fs") = {"image"}
      /\ R("file") = {"fs"} /\ R("dir") = {"fs"} /\ R("entry") = {"dir"}
      /\ R("pool") = {"img1"} /\ R("pfile") = {"pfs1"}
      /\ R("image") = {} /\ R("pfs1") = {} /\ R("pfs2") = {} /\ R("img1") = {}
  BY DEF Refs, Objects, FileSystemKeeps
<1> HIDE DEF R
<1>2. ASSUME NEW S PROVE WithRefs(S) = S \union UNION {R(o) : o \in S}
  BY DEF WithRefs, R
<1>3. /\ WithRefs({}) = {} /\ WithRefs({"image"}) = {"image"}
      /\ WithRefs({"vs"}) = {"vs", "image"} /\ WithRefs({"vs", "image"}) = {"vs", "image"}
      /\ WithRefs({"volume"}) = {"volume", "vs"}
      /\ WithRefs({"volume", "vs"}) = {"volume", "vs", "image"}
      /\ WithRefs({"volume", "vs", "image"}) = {"volume", "vs", "image"}
  BY <1>1, <1>2
<1>4. /\ WithRefs({"fs"}) = {"fs", "image"} /\ WithRefs({"fs", "image"}) = {"fs", "image"}
      /\ WithRefs({"file"}) = {"file", "fs"}
      /\ WithRefs({"file", "fs"}) = {"file", "fs", "image"}
      /\ WithRefs({"file", "fs", "image"}) = {"file", "fs", "image"}
  BY <1>1, <1>2
<1>5. /\ WithRefs({"dir"}) = {"dir", "fs"}
      /\ WithRefs({"dir", "fs"}) = {"dir", "fs", "image"}
      /\ WithRefs({"dir", "fs", "image"}) = {"dir", "fs", "image"}
      /\ WithRefs({"entry"}) = {"entry", "dir"}
      /\ WithRefs({"entry", "dir"}) = {"entry", "dir", "fs"}
      /\ WithRefs({"entry", "dir", "fs"}) = {"entry", "dir", "fs", "image"}
  BY <1>1, <1>2
<1>6. /\ WithRefs({"pool"}) = {"pool", "img1"} /\ WithRefs({"pool", "img1"}) = {"pool", "img1"}
      /\ WithRefs({"pfs1"}) = {"pfs1"} /\ WithRefs({"pfs2"}) = {"pfs2"}
      /\ WithRefs({"pfile"}) = {"pfile", "pfs1"}
      /\ WithRefs({"pfile", "pfs1"}) = {"pfile", "pfs1"}
  BY <1>1, <1>2
<1> QED BY <1>3, <1>4, <1>5, <1>6 DEF Reach

-----------------------------------------------------------------------------
(* The wrapper's calls *)

MethodNames ==
  {"OpenVolumeSystem", "Volumes", "VolumeFileSystem", "ImageFileSystem", "OpenFile",
   "OpenDirectory", "WalkDirectories", "ReadBytes", "WalkFile", "Entries", "OpenPool",
   "PoolFileSystem", "PoolFileSystemAgain", "PoolOpenFile", "PoolReadBytes",
   "PoolWalkDirectories"}

LEMMA MethodNamesAreAll == DOMAIN Methods = MethodNames
BY DEF Methods, MethodNames

\* The columns of the table of methods.
OnOf ==
  /\ Methods["OpenVolumeSystem"].on = "image"
  /\ Methods["Volumes"].on = "vs"
  /\ Methods["VolumeFileSystem"].on = "volume"
  /\ Methods["ImageFileSystem"].on = "image"
  /\ Methods["OpenFile"].on = "fs"
  /\ Methods["OpenDirectory"].on = "fs"
  /\ Methods["WalkDirectories"].on = "fs"
  /\ Methods["ReadBytes"].on = "file"
  /\ Methods["WalkFile"].on = "file"
  /\ Methods["Entries"].on = "dir"
  /\ Methods["OpenPool"].on = "volume"
  /\ Methods["PoolFileSystem"].on = "pool"
  /\ Methods["PoolFileSystemAgain"].on = "pool"
  /\ Methods["PoolOpenFile"].on = "pfs1"
  /\ Methods["PoolReadBytes"].on = "pfile"
  /\ Methods["PoolWalkDirectories"].on = "pfs2"

MakesOf ==
  /\ Methods["OpenVolumeSystem"].makes = "vs"
  /\ Methods["Volumes"].makes = "volume"
  /\ Methods["VolumeFileSystem"].makes = "fs"
  /\ Methods["ImageFileSystem"].makes = "fs"
  /\ Methods["OpenFile"].makes = "file"
  /\ Methods["OpenDirectory"].makes = "dir"
  /\ Methods["WalkDirectories"].makes = NULL
  /\ Methods["ReadBytes"].makes = NULL
  /\ Methods["WalkFile"].makes = NULL
  /\ Methods["Entries"].makes = "entry"
  /\ Methods["OpenPool"].makes = "pool"
  /\ Methods["PoolFileSystem"].makes = "pfs1"
  /\ Methods["PoolFileSystemAgain"].makes = "pfs2"
  /\ Methods["PoolOpenFile"].makes = "pfile"
  /\ Methods["PoolReadBytes"].makes = NULL
  /\ Methods["PoolWalkDirectories"].makes = NULL

MarshalsOf ==
  /\ Methods["OpenVolumeSystem"].marshals = {"image"}
  /\ Methods["Volumes"].marshals = {}
  /\ Methods["VolumeFileSystem"].marshals = {}
  /\ Methods["ImageFileSystem"].marshals = {"image"}
  /\ Methods["OpenFile"].marshals = {"fs"}
  /\ Methods["OpenDirectory"].marshals = {"fs"}
  /\ Methods["WalkDirectories"].marshals = {"fs"}
  /\ Methods["ReadBytes"].marshals = {"file"}
  /\ Methods["WalkFile"].marshals = {"file"}
  /\ Methods["Entries"].marshals = {"dir"}
  /\ Methods["OpenPool"].marshals = {}
  /\ Methods["PoolFileSystem"].marshals = {"img1"}
  /\ Methods["PoolFileSystemAgain"].marshals = {"img2"}
  /\ Methods["PoolOpenFile"].marshals = {"pfs1"}
  /\ Methods["PoolReadBytes"].marshals = {"pfile"}
  /\ Methods["PoolWalkDirectories"].marshals = {"pfs2"}

KeepsOf ==
  /\ Methods["OpenVolumeSystem"].keeps = {"image"}
  /\ Methods["Volumes"].keeps = {"vs"}
  /\ Methods["VolumeFileSystem"].keeps = {"image"}
  /\ Methods["ImageFileSystem"].keeps = {"image"}
  /\ Methods["OpenFile"].keeps = {"fs"}
  /\ Methods["OpenDirectory"].keeps = {"fs"}
  /\ Methods["WalkDirectories"].keeps = {}
  /\ Methods["ReadBytes"].keeps = {"file"}
  /\ Methods["WalkFile"].keeps = {}
  /\ Methods["Entries"].keeps = {"dir"}
  /\ Methods["OpenPool"].keeps = {}
  /\ Methods["PoolFileSystem"].keeps = {}
  /\ Methods["PoolFileSystemAgain"].keeps = {}
  /\ Methods["PoolOpenFile"].keeps = {"pfs1"}
  /\ Methods["PoolReadBytes"].keeps = {"pfile"}
  /\ Methods["PoolWalkDirectories"].keeps = {}

UsesOf ==
  /\ Methods["OpenVolumeSystem"].uses = {"image"}
  /\ Methods["Volumes"].uses = {"vs"}
  /\ Methods["VolumeFileSystem"].uses = {"vs", "image"}
  /\ Methods["ImageFileSystem"].uses = {"image"}
  /\ Methods["OpenFile"].uses = {"fs", "image"}
  /\ Methods["OpenDirectory"].uses = {"fs", "image"}
  /\ Methods["WalkDirectories"].uses = {"fs", "image"}
  /\ Methods["ReadBytes"].uses = {"file", "fs", "image"}
  /\ Methods["WalkFile"].uses = {"file", "fs", "image"}
  /\ Methods["Entries"].uses = {"dir", "fs", "image"}
  /\ Methods["OpenPool"].uses = {"vs", "image"}
  /\ Methods["PoolFileSystem"].uses = {"img1", "pool", "image"}
  /\ Methods["PoolFileSystemAgain"].uses = {"img2", "pool", "image"}
  /\ Methods["PoolOpenFile"].uses = {"pfs1"} \union {"img1", "pool", "image"}
  /\ Methods["PoolReadBytes"].uses = {"pfile", "pfs1"} \union {"img1", "pool", "image"}
  /\ Methods["PoolWalkDirectories"].uses = {"pfs2"} \union {"img2", "pool", "image"}

LEMMA OnColumn == OnOf
BY DEF OnOf, Methods, Method, InPool

LEMMA MakesColumn == MakesOf
BY DEF MakesOf, Methods, Method, InPool

LEMMA MarshalsColumn == MarshalsOf
BY DEF MarshalsOf, Methods, Method, InPool

LEMMA KeepsColumn == KeepsOf
BY DEF KeepsOf, Methods, Method, InPool

LEMMA UsesColumn == UsesOf
BY DEF UsesOf, Methods, Method, InPool

\* A call keeps hold of nothing that its object does not lead to, and passes
\* only that object and images of the pool to native code.
LEMMA CallsKeepTheirObject ==
  ASSUME NEW c \in DOMAIN Methods
  PROVE  /\ Reach(Methods[c].keeps) \subseteq Reach({Methods[c].on})
         /\ Methods[c].marshals \subseteq {Methods[c].on} \union Image(c)
         /\ "img1" \in Image(c) => Methods[c].on = "pool"
<1> USE OnColumn, MarshalsColumn, KeepsColumn, ReachOfEach DEF OnOf, MarshalsOf, KeepsOf, Image
<1>1. CASE c = "OpenVolumeSystem" BY <1>1
<1>2. CASE c = "Volumes" BY <1>2
<1>3. CASE c = "VolumeFileSystem" BY <1>3
<1>4. CASE c = "ImageFileSystem" BY <1>4
<1>5. CASE c = "OpenFile" BY <1>5
<1>6. CASE c = "OpenDirectory" BY <1>6
<1>7. CASE c = "WalkDirectories" BY <1>7
<1>8. CASE c = "ReadBytes" BY <1>8
<1>9. CASE c = "WalkFile" BY <1>9
<1>10. CASE c = "Entries" BY <1>10
<1>11. CASE c = "OpenPool" BY <1>11
<1>12. CASE c = "PoolFileSystem" BY <1>12
<1>13. CASE c = "PoolFileSystemAgain" BY <1>13
<1>14. CASE c = "PoolOpenFile" BY <1>14
<1>15. CASE c = "PoolReadBytes" BY <1>15
<1>16. CASE c = "PoolWalkDirectories" BY <1>16
<1> QED BY <1>1, <1>2, <1>3, <1>4, <1>5, <1>6, <1>7, <1>8, <1>9, <1>10, <1>11, <1>12, <1>13, <1>14, <1>15, <1>16, MethodNamesAreAll DEF MethodNames

\* No call makes an image: a pool does, when the call begins.
LEMMA MakesNoImage ==
  ASSUME NEW c \in DOMAIN Methods, Methods[c].makes # NULL
  PROVE  Methods[c].makes \notin {"img1", "img2"}
<1> USE MakesColumn DEF MakesOf
<1>1. CASE c = "OpenVolumeSystem" BY <1>1
<1>2. CASE c = "Volumes" BY <1>2
<1>3. CASE c = "VolumeFileSystem" BY <1>3
<1>4. CASE c = "ImageFileSystem" BY <1>4
<1>5. CASE c = "OpenFile" BY <1>5
<1>6. CASE c = "OpenDirectory" BY <1>6
<1>7. CASE c = "WalkDirectories" BY <1>7
<1>8. CASE c = "ReadBytes" BY <1>8
<1>9. CASE c = "WalkFile" BY <1>9
<1>10. CASE c = "Entries" BY <1>10
<1>11. CASE c = "OpenPool" BY <1>11
<1>12. CASE c = "PoolFileSystem" BY <1>12
<1>13. CASE c = "PoolFileSystemAgain" BY <1>13
<1>14. CASE c = "PoolOpenFile" BY <1>14
<1>15. CASE c = "PoolReadBytes" BY <1>15
<1>16. CASE c = "PoolWalkDirectories" BY <1>16
<1> QED BY <1>1, <1>2, <1>3, <1>4, <1>5, <1>6, <1>7, <1>8, <1>9, <1>10, <1>11, <1>12, <1>13, <1>14, <1>15, <1>16, MethodNamesAreAll DEF MethodNames

\* What a call makes leads to what its method keeps hold of; a new pool leads
\* to its image as well.
LEMMA CallsKeepWhatTheyMakeUses ==
  ASSUME NEW c \in DOMAIN Methods, Methods[c].makes # NULL
  PROVE  /\ Methods[c].makes \in Objects
         /\ Reach({Methods[c].makes}) \subseteq
              {Methods[c].makes} \union Reach(Methods[c].keeps)
              \union (IF Methods[c].makes = "pool" THEN {"img1"} ELSE {})
<1> USE MakesColumn, KeepsColumn, ReachOfEach DEF MakesOf, KeepsOf, Objects
<1>1. CASE c = "OpenVolumeSystem" BY <1>1
<1>2. CASE c = "Volumes"
  <2>1. Methods[c].makes = "volume" /\ Methods[c].keeps = {"vs"}
    BY <1>2
  <2>2. Reach({"volume"}) \subseteq {"volume"} \union Reach({"vs"})
    OBVIOUS
  <2> QED BY <2>1, <2>2
<1>3. CASE c = "VolumeFileSystem" BY <1>3
<1>4. CASE c = "ImageFileSystem" BY <1>4
<1>5. CASE c = "OpenFile" BY <1>5
<1>6. CASE c = "OpenDirectory" BY <1>6
<1>7. CASE c = "WalkDirectories" BY <1>7
<1>8. CASE c = "ReadBytes" BY <1>8
<1>9. CASE c = "WalkFile" BY <1>9
<1>10. CASE c = "Entries"
  <2>1. Methods[c].makes = "entry" /\ Methods[c].keeps = {"dir"}
    BY <1>10
  <2>2. Reach({"entry"}) \subseteq {"entry"} \union Reach({"dir"})
    OBVIOUS
  <2> QED BY <2>1, <2>2
<1>11. CASE c = "OpenPool"
  <2>1. Methods[c].makes = "pool" /\ Methods[c].keeps = {}
    BY <1>11
  <2>2. Reach({"pool"}) \subseteq {"pool"} \union Reach({}) \union {"img1"}
    OBVIOUS
  <2> QED BY <2>1, <2>2
<1>12. CASE c = "PoolFileSystem" BY <1>12
<1>13. CASE c = "PoolFileSystemAgain" BY <1>13
<1>14. CASE c = "PoolOpenFile" BY <1>14
<1>15. CASE c = "PoolReadBytes" BY <1>15
<1>16. CASE c = "PoolWalkDirectories" BY <1>16
<1> QED BY <1>1, <1>2, <1>3, <1>4, <1>5, <1>6, <1>7, <1>8, <1>9, <1>10, <1>11, <1>12, <1>13, <1>14, <1>15, <1>16, MethodNamesAreAll DEF MethodNames

\* What a native function works with is reachable from its object or passed to
\* it, or is left to the program.
LEMMA CallsUse ==
  ASSUME NEW c \in DOMAIN Methods, NEW x \in Methods[c].uses
  PROVE  \/ x \in Reach({Methods[c].on}) \union Methods[c].marshals
         \/ /\ Methods[c].on \in {"pool", "pfs1", "pfs2", "pfile"}
            /\ x \in {"img1", "img2", "pool", "image"}
<1> USE OnColumn, MarshalsColumn, UsesColumn, ReachOfEach DEF OnOf, MarshalsOf, UsesOf
<1>1. CASE c = "OpenVolumeSystem" BY <1>1
<1>2. CASE c = "Volumes" BY <1>2
<1>3. CASE c = "VolumeFileSystem" BY <1>3
<1>4. CASE c = "ImageFileSystem" BY <1>4
<1>5. CASE c = "OpenFile" BY <1>5
<1>6. CASE c = "OpenDirectory" BY <1>6
<1>7. CASE c = "WalkDirectories" BY <1>7
<1>8. CASE c = "ReadBytes" BY <1>8
<1>9. CASE c = "WalkFile" BY <1>9
<1>10. CASE c = "Entries" BY <1>10
<1>11. CASE c = "OpenPool" BY <1>11
<1>12. CASE c = "PoolFileSystem" BY <1>12
<1>13. CASE c = "PoolFileSystemAgain" BY <1>13
<1>14. CASE c = "PoolOpenFile" BY <1>14
<1>15. CASE c = "PoolReadBytes" BY <1>15
<1>16. CASE c = "PoolWalkDirectories" BY <1>16
<1> QED BY <1>1, <1>2, <1>3, <1>4, <1>5, <1>6, <1>7, <1>8, <1>9, <1>10, <1>11, <1>12, <1>13, <1>14, <1>15, <1>16, MethodNamesAreAll DEF MethodNames

-----------------------------------------------------------------------------
(* The invariant *)

\* When no call runs, nothing is passed or kept.
LEMMA NoCall ==
  ASSUME call = NULL PROVE Pinned = {} /\ Kept = {}
BY DEF Pinned, Kept

LEMMA InitGivesIInv ==
  ASSUME ProgramsAreObjects, NullIsNoObject, NullIsNoMethod, Init PROVE IInv
<1> USE DEF Init
<1>1. call \in DOMAIN Methods
  BY MethodNamesAreAll DEF MethodNames
<1>2. TypeOK
  BY <1>1 DEF TypeOK, Objects
<1>3. call # NULL => Running.makes \notin made
  BY MakesColumn DEF MakesOf, Running
<1> QED BY <1>2, <1>3 DEF IInv, Collected

LEMMA BeginKeepsIInv ==
  ASSUME ProgramsAreObjects, NullIsNoObject, NullIsNoMethod, IInv,
         NEW c \in DOMAIN Methods, Begin(c)
  PROVE  IInv'
<1> USE DEF IInv, Begin
<1>1. Pinned = {} /\ Kept = {}
  BY NoCall
<1>2. call' = c /\ c # NULL
  BY DEF NullIsNoMethod
<1>3. Running' = Methods[c] /\ Pinned' = Methods[c].marshals /\ Kept' = Methods[c].keeps
  BY <1>2 DEF Running, Pinned, Kept
<1>4. Image(c) \subseteq {"img1", "img2"}
  BY DEF Image
<1>5. opens \subseteq Objects
  BY DEF TypeOK, ProgramsAreObjects
<1>6. TypeOK'
  BY <1>2, <1>4 DEF TypeOK, Objects
<1>7. Collected' = Collected
  BY DEF Collected
<1>8. {Methods[c].on} \subseteq held
  OBVIOUS
<1>9. Reach({Methods[c].on}) \subseteq Reach(held)
  BY <1>8, ReachGrows
<1>10. Reach(held) \intersect Collected = {}
  BY <1>1
<1>11. (Collected \intersect Reach(held \union Kept) = {})'
  <2>1. Reach(Methods[c].keeps) \subseteq Reach({Methods[c].on})
    BY CallsKeepTheirObject
  <2>2. Reach(held \union Methods[c].keeps) = Reach(held) \union Reach(Methods[c].keeps)
    BY ReachOfUnion
  <2> QED BY <2>1, <2>2, <1>3, <1>7, <1>9, <1>10
<1>12. (Collected \intersect Pinned = {})'
  <2>1. Collected \intersect Image(c) = {}
    BY DEF TypeOK, Collected
  <2>2. Collected \intersect {Methods[c].on} = {}
    BY <1>9, <1>10, ReachHoldsRoots
  <2> QED BY <2>1, <2>2, <1>3, <1>7, CallsKeepTheirObject
<1>13. (call # NULL => Running.makes \notin made)'
  <2>1. CASE Methods[c].makes = NULL
    BY <2>1, <1>3, <1>6 DEF TypeOK, NullIsNoObject
  <2>2. CASE Methods[c].makes # NULL
    BY <2>2, <1>3, <1>4, MakesNoImage
  <2> QED BY <2>1, <2>2
<1>14. ("img1" \in made => "pool" \in made)'
  BY CallsKeepTheirObject DEF TypeOK
<1> QED BY <1>6, <1>11, <1>12, <1>13, <1>14

LEMMA EndKeepsIInv ==
  ASSUME ProgramsAreObjects, NullIsNoObject, NullIsNoMethod, IInv,
         NEW succeeds \in BOOLEAN, End(succeeds)
  PROVE  IInv'
<1> DEFINE new == IF succeeds THEN {Running.makes} \ {NULL} ELSE {}
<1> USE DEF IInv, End
<1>1. /\ made' = made \union new /\ held' = held \union new
      /\ closed' = closed \union (disposed \intersect Pinned) /\ disposed' = disposed
      /\ call' = NULL /\ opens' = opens
  OBVIOUS
<1>2. Pinned' = {} /\ Kept' = {}
  BY <1>1 DEF Pinned, Kept
<1>3. Collected' = Collected
  BY <1>1 DEF Collected
<1>4. call \in DOMAIN Methods
  BY DEF TypeOK
<1>5. new \subseteq Objects
  BY <1>4, CallsKeepWhatTheyMakeUses DEF Running
<1>6. TypeOK'
  BY <1>1, <1>5 DEF TypeOK
<1>7. Collected \intersect Reach(held) = {} /\ Collected \intersect Reach(Kept) = {}
  BY ReachOfUnion
<1>8. Collected \intersect Reach(new) = {}
  <2>1. CASE new = {}
    BY <2>1 DEF Reach, WithRefs
  <2>2. CASE new # {}
    <3>1. new = {Running.makes} /\ Running.makes # NULL
      BY <2>2
    <3>2. Reach(new) \subseteq {Running.makes} \union Reach(Kept)
                             \union (IF Running.makes = "pool" THEN {"img1"} ELSE {})
      BY <3>1, <1>4, CallsKeepWhatTheyMakeUses DEF Running, Kept
    <3>3. Collected \subseteq made /\ Running.makes \notin made
      BY DEF TypeOK, Collected
    <3>4. Running.makes = "pool" => "img1" \notin Collected
      BY <3>3
    <3> QED BY <3>2, <3>3, <3>4, <1>7
  <2> QED BY <2>1, <2>2
<1>9. (Collected \intersect Reach(held \union Kept) = {})'
  <2>1. Reach(held \union new) = Reach(held) \union Reach(new)
    BY ReachOfUnion
  <2> QED BY <2>1, <1>1, <1>2, <1>3, <1>7, <1>8
<1>10. ("img1" \in made => "pool" \in made)'
  <2>1. "img1" \notin new
    BY <1>4, MakesNoImage DEF Running
  <2> QED BY <2>1, <1>1
<1> HIDE DEF new
<1> QED BY <1>1, <1>2, <1>3, <1>6, <1>9, <1>10

LEMMA LetKeepsIInv ==
  ASSUME ProgramsAreObjects, NullIsNoObject, NullIsNoMethod, IInv, Let
  PROVE  IInv'
<1> USE DEF IInv
<1>1. ASSUME NEW D, D \subseteq made, NEW o, held' = held \ {o}, disposed' = disposed \union D,
             closed' = closed \union (D \ Pinned), UNCHANGED <<opens, made, call>>
      PROVE  IInv'
  <2>1. TypeOK'
    BY <1>1 DEF TypeOK
  <2>2. Pinned' = Pinned /\ Kept' = Kept /\ Running' = Running
    BY <1>1 DEF Pinned, Kept, Running
  <2>3. Collected' \subseteq Collected
    BY <1>1 DEF Collected
  <2>4. Reach(held' \union Kept) \subseteq Reach(held \union Kept)
    BY <1>1, ReachGrows
  <2> QED BY <2>1, <2>2, <2>3, <2>4, <1>1
<1>2. ASSUME NEW o \in held \ {"volume"}, Dispose(o) PROVE IInv'
  <2>1. Disposes(o) \subseteq made
    BY DEF Disposes, TypeOK
  <2> QED BY <2>1, <1>1, <1>2 DEF Dispose
<1>3. ASSUME NEW o \in held, Drop(o) PROVE IInv'
  BY <1>1, <1>3 DEF Drop
<1>4. ASSUME NEW o \in Unreachable, Collect(o) PROVE IInv'
  <2> USE <1>4 DEF Collect
  <2>1. o \in made /\ o \notin Reach(held \union Kept) /\ o \notin Pinned
    BY DEF Unreachable
  <2>2. TypeOK'
    BY <2>1 DEF TypeOK
  <2>3. Pinned' = Pinned /\ Kept' = Kept /\ Running' = Running
    BY DEF Pinned, Kept, Running
  <2>4. Collected' \subseteq Collected \union {o}
    BY DEF Collected
  <2> QED BY <2>1, <2>2, <2>3, <2>4
<1> QED BY <1>2, <1>3, <1>4 DEF Let

\* The invariant keeps calls off what was collected.
LEMMA IInvIsEnough == IInv => UsesLiveMemory
<1> SUFFICES ASSUME IInv, call # NULL, Running.on \in held \union Kept,
                    NEW x \in Running.uses \intersect closed,
                    x \notin disposed, ~LeftToTheProgram(x)
             PROVE  FALSE
  BY DEF UsesLiveMemory
<1>1. call \in DOMAIN Methods
  BY DEF IInv, TypeOK
<1>2. x \in Collected /\ x \notin Reach(held \union Kept) /\ x \notin Running.marshals
  BY DEF IInv, Collected, Pinned
<1>3. Reach({Running.on}) \subseteq Reach(held \union Kept)
  BY ReachGrows
<1>4. /\ Running.on \in {"pool", "pfs1", "pfs2", "pfile"}
      /\ x \in {"img1", "img2", "pool", "image"}
  BY <1>1, <1>2, <1>3, CallsUse DEF Running
<1>5. Reach(held) \subseteq Reach(held \union Kept)
  BY ReachGrows
<1>6. x # "img2" /\ (x \in {"img1", "pool"} => "pool" \in held) /\ (x = "image" => x \in Reach(held))
  BY <1>4 DEF LeftToTheProgram
<1>7. "pool" \in held => {"pool", "img1"} \subseteq Reach(held)
  <2> SUFFICES ASSUME "pool" \in held PROVE Reach({"pool"}) \subseteq Reach(held)
    BY ReachOfEach
  <2> QED BY ReachGrows
<1> QED BY <1>2, <1>4, <1>5, <1>6, <1>7

-----------------------------------------------------------------------------
(* What is disposed *)

LEMMA InitGivesReleaseInv ==
  ASSUME Init PROVE ReleaseInv
BY DEF Init, ReleaseInv

LEMMA BeginKeepsReleaseInv ==
  ASSUME NullIsNoMethod, IInv, ReleaseInv, NEW c \in DOMAIN Methods, Begin(c)
  PROVE  ReleaseInv'
<1> USE DEF ReleaseInv, Begin
<1>1. Pinned = {}
  BY NoCall
<1>2. (disposed \subseteq closed \union Pinned)'
  BY <1>1
<1>3. Methods[c].on = "pool" => "pool" \notin disposed
  OBVIOUS
<1>4. ("pool" \in disposed /\ "img1" \in made => "img1" \in disposed)'
  BY <1>3, CallsKeepTheirObject
<1> QED BY <1>2, <1>4

LEMMA EndKeepsReleaseInv ==
  ASSUME IInv, ReleaseInv, NEW succeeds \in BOOLEAN, End(succeeds)
  PROVE  ReleaseInv'
<1> DEFINE new == IF succeeds THEN {Running.makes} \ {NULL} ELSE {}
<1>1. /\ made' = made \union new /\ held' = held \union new
      /\ closed' = closed \union (disposed \intersect Pinned) /\ disposed' = disposed
      /\ call # NULL
  BY DEF End
<1>2. call \in DOMAIN Methods
  BY <1>1 DEF IInv, TypeOK
<1>3. new \intersect {"img1", "img2"} = {}
  BY <1>2, MakesNoImage DEF Running
<1>4. new \intersect made = {} /\ disposed \subseteq made
  BY <1>1 DEF IInv, TypeOK
<1> HIDE DEF new
<1>5. (disposed \subseteq closed \union Pinned)'
  BY <1>1 DEF ReleaseInv
<1>6. (disposed \intersect held = {})' /\ (held \intersect {"img1", "img2"} = {})'
  BY <1>1, <1>3, <1>4 DEF ReleaseInv
<1>7. ("pool" \in disposed /\ "img1" \in made => "img1" \in disposed)'
  BY <1>1, <1>3 DEF ReleaseInv
<1> QED BY <1>5, <1>6, <1>7 DEF ReleaseInv

LEMMA LetKeepsReleaseInv ==
  ASSUME IInv, ReleaseInv, Let PROVE ReleaseInv'
<1>1. ASSUME NEW o \in held \ {"volume"}, Dispose(o) PROVE ReleaseInv'
  <2>1. /\ held' = held \ {o} /\ disposed' = disposed \union Disposes(o)
        /\ closed' = closed \union (Disposes(o) \ Pinned) /\ made' = made /\ Pinned' = Pinned
    BY <1>1 DEF Dispose, Pinned, Running
  <2>2. o \notin {"img1", "img2"} /\ Disposes(o) \subseteq {o, "img1"}
    BY DEF ReleaseInv, Disposes
  <2>3. o = "pool" /\ "img1" \in made => "img1" \in Disposes(o)
    BY DEF Disposes
  <2>4. "pool" \in Disposes(o) => o = "pool"
    BY DEF Disposes
  <2> QED BY <2>1, <2>2, <2>3, <2>4 DEF ReleaseInv
<1>2. ASSUME NEW o \in held, Drop(o) PROVE ReleaseInv'
  BY <1>2 DEF Drop, ReleaseInv, Pinned, Running
<1>3. ASSUME NEW o \in Unreachable, Collect(o) PROVE ReleaseInv'
  BY <1>3 DEF Collect, ReleaseInv, Pinned, Running
<1> QED BY <1>1, <1>2, <1>3 DEF Let

LEMMA ReleaseInvIsEnough == IInv /\ ReleaseInv => DisposeReleasesAll
<1> SUFFICES ASSUME IInv, ReleaseInv, call = NULL,
                    made \ {"volume", "img1", "img2", "entry"} \subseteq disposed,
                    NEW x \in made \ {"volume", "img2"}
             PROVE  x \in closed \union ({"entry"} \ disposed)
  BY DEF DisposeReleasesAll
<1>1. disposed \subseteq closed
  BY NoCall DEF ReleaseInv
<1>2. CASE x = "img1"
  BY <1>1, <1>2 DEF IInv, ReleaseInv
<1>3. CASE x # "img1"
  BY <1>1, <1>3
<1> QED BY <1>2, <1>3

-----------------------------------------------------------------------------

\* The invariant holds in every run.
LEMMA Invariance ==
  ASSUME ProgramsAreObjects, NullIsNoObject, NullIsNoMethod
  PROVE  Spec => []IInv
<1>1. Init => IInv
  BY InitGivesIInv
<1>2. IInv /\ [Next]_vars => IInv'
  <2>1. ASSUME IInv, Next PROVE IInv'
    BY <2>1, BeginKeepsIInv, EndKeepsIInv, LetKeepsIInv DEF Next
  <2>2. ASSUME IInv, UNCHANGED vars PROVE IInv'
    BY <2>2 DEF vars, IInv, TypeOK, Collected, Pinned, Kept, Running
  <2> QED BY <2>1, <2>2
<1> QED BY <1>1, <1>2, PTL DEF Spec

\* No object is closed or held that was not made, and calls are those of the
\* wrapper: the state of the objects keeps its type.
THEOREM TypeCorrect ==
  ASSUME ProgramsAreObjects, NullIsNoObject, NullIsNoMethod
  PROVE  Spec => []TypeOK
<1>1. IInv => TypeOK
  BY DEF IInv
<1> QED BY <1>1, Invariance, PTL

\* Whatever is disposed, dropped and finalized, in any order and also during
\* calls, a native function of the wrapper that runs on an object which is held
\* works with open structures only, unless the program disposed them or did not
\* hold the pool they belong to.
THEOREM LiveMemory ==
  ASSUME ProgramsAreObjects, NullIsNoObject, NullIsNoMethod
  PROVE  Spec => []UsesLiveMemory
BY Invariance, IInvIsEnough, PTL

\* A program that disposes all that can be disposed leaves nothing open, whatever
\* the order of the disposals and whatever call they interrupt: not the image
\* of a pool either.  Only the entry of an enumeration left early and the image
\* of a volume opened again are left to their finalizers.
THEOREM DisposalReleases ==
  ASSUME ProgramsAreObjects, NullIsNoObject, NullIsNoMethod
  PROVE  Spec => []DisposeReleasesAll
<1>1. Init => ReleaseInv
  BY InitGivesReleaseInv
<1>2. IInv /\ ReleaseInv /\ [Next]_vars => ReleaseInv'
  <2>1. ASSUME IInv, ReleaseInv, Next PROVE ReleaseInv'
    BY <2>1, BeginKeepsReleaseInv, EndKeepsReleaseInv, LetKeepsReleaseInv DEF Next
  <2>2. ASSUME ReleaseInv, UNCHANGED vars PROVE ReleaseInv'
    BY <2>2 DEF vars, ReleaseInv, Pinned, Running
  <2> QED BY <2>1, <2>2
<1>3. Spec => []IInv
  BY Invariance
<1> QED BY <1>1, <1>2, <1>3, ReleaseInvIsEnough, PTL DEF Spec
=============================================================================
