------------------------------ MODULE Handles ------------------------------
(***************************************************************************)
(* The objects of the C# wrapper, each the owner of a native structure     *)
(* through a SafeHandle, and the garbage collector beside them.  A         *)
(* structure is closed when its object is disposed or, when nothing        *)
(* reaches the object any more, by its handle's finalizer, in any order.   *)
(* The native structures point at each other, which the collector does not *)
(* see: an object has to keep hold of those that its structure uses.       *)
(*                                                                         *)
(* The runtime's part is external: a handle that is passed to a native     *)
(* call is not closed before the call returns, and an object is reachable  *)
(* from a running method only as long as the method still uses it.         *)
(***************************************************************************)
EXTENDS Naturals

CONSTANTS
  Programs,     \* sets of objects: those that a program opens
  NULL          \* no call, or no object

VARIABLES
  opens,        \* the objects that this program opens, of Programs
  made,         \* the objects made so far
  held,         \* the objects that the program still refers to
  disposed,     \* the objects that were disposed
  closed,       \* the objects whose native structure is closed
  call          \* the wrapper's call that is running, or NULL

vars == <<opens, made, held, disposed, closed, call>>

\* entry is the file of a directory's entry while Entries is enumerated, img1
\* and img2 are the images that a pool makes for a volume opened twice.
Objects == {"image", "vs", "volume", "fs", "file", "dir", "entry",
            "pool", "img1", "img2", "pfs1", "pfs2", "pfile"}

\* What is assumed of the constants.
ProgramsAreObjects == \A p \in Programs : p \subseteq Objects
NullIsNoObject == NULL \notin Objects

\* Mutant: a file system does not keep its disk image.
NoImageKept == {}

FileSystemKeeps == {"image"}

\* What an object's fields refer to.
Refs ==
  [o \in Objects |->
     CASE o = "volume" -> {"vs"}
       [] o = "vs" -> {"image"}
       [] o = "fs" -> FileSystemKeeps
       [] o \in {"file", "dir"} -> {"fs"}
       [] o = "entry" -> {"dir"}
       [] o = "pool" -> {"img1"}
       [] o = "pfile" -> {"pfs1"}
       [] OTHER -> {}]

\* No chain of references is longer than three.
WithRefs(os) == os \union UNION {Refs[o] : o \in os}
Reach(roots) == WithRefs(WithRefs(WithRefs(roots)))

-----------------------------------------------------------------------------
(* The wrapper's calls.  Each is made on an object and may make another one; *)
(* marshals gives the handles that the native function is called with, keeps *)
(* the objects that the method uses after it, and uses the structures that   *)
(* the native function works with.                                           *)

Method(on, makes, marshals, keeps, uses) ==
  [on |-> on, makes |-> makes, marshals |-> marshals, keeps |-> keeps, uses |-> uses]

InPool(img) == {img, "pool", "image"}

Methods ==
  [OpenVolumeSystem    |-> Method("image", "vs", {"image"}, {"image"}, {"image"}),
   Volumes             |-> Method("vs", "volume", {}, {"vs"}, {"vs"}),
   VolumeFileSystem    |-> Method("volume", "fs", {}, {"image"}, {"vs", "image"}),
   ImageFileSystem     |-> Method("image", "fs", {"image"}, {"image"}, {"image"}),
   OpenFile            |-> Method("fs", "file", {"fs"}, {"fs"}, {"fs", "image"}),
   OpenDirectory       |-> Method("fs", "dir", {"fs"}, {"fs"}, {"fs", "image"}),
   WalkDirectories     |-> Method("fs", NULL, {"fs"}, {}, {"fs", "image"}),
   ReadBytes           |-> Method("file", NULL, {"file"}, {"file"}, {"file", "fs", "image"}),
   WalkFile            |-> Method("file", NULL, {"file"}, {}, {"file", "fs", "image"}),
   Entries             |-> Method("dir", "entry", {"dir"}, {"dir"}, {"dir", "fs", "image"}),
   OpenPool            |-> Method("volume", "pool", {}, {}, {"vs", "image"}),
   PoolFileSystem      |-> Method("pool", "pfs1", {"img1"}, {}, InPool("img1")),
   PoolFileSystemAgain |-> Method("pool", "pfs2", {"img2"}, {}, InPool("img2")),
   PoolOpenFile        |-> Method("pfs1", "pfile", {"pfs1"}, {"pfs1"}, {"pfs1"} \union InPool("img1")),
   PoolReadBytes       |-> Method("pfile", NULL, {"pfile"}, {"pfile"}, {"pfile", "pfs1"} \union InPool("img1")),
   PoolWalkDirectories |-> Method("pfs2", NULL, {"pfs2"}, {}, {"pfs2"} \union InPool("img2"))]

NullIsNoMethod == NULL \notin DOMAIN Methods

Running == Methods[call]
Pinned == IF call = NULL THEN {} ELSE Running.marshals
Kept == IF call = NULL THEN {} ELSE Running.keeps

\* The image that a pool makes first when a file system is opened in it.
Image(c) == Methods[c].marshals \intersect {"img1", "img2"}

Begin(c) ==
  /\ call = NULL
  /\ Methods[c].on \in held
  /\ Methods[c].makes \in (opens \ made) \union {NULL}
  /\ Image(c) \intersect made = {}
  /\ c = "PoolFileSystemAgain" => "img1" \in made
  /\ made' = made \union Image(c)
  /\ call' = c
  /\ UNCHANGED <<opens, held, disposed, closed>>

\* A handle that was disposed during the call is closed now.
End(succeeds) ==
  /\ call # NULL
  /\ LET new == IF succeeds THEN {Running.makes} \ {NULL} ELSE {} IN
     /\ made' = made \union new
     /\ held' = held \union new
  /\ closed' = closed \union (disposed \intersect Pinned)
  /\ call' = NULL
  /\ UNCHANGED <<opens, disposed>>

-----------------------------------------------------------------------------
(* Objects are disposed, dropped and collected *)

\* Mutant: a pool leaves its images to their finalizers.
ItselfOnly(o) == {o}

\* A pool disposes its images, as far as it still knows them.
Disposes(o) == IF o = "pool" THEN {"pool", "img1"} \intersect made ELSE {o}

Dispose(o) ==
  /\ held' = held \ {o}
  /\ disposed' = disposed \union Disposes(o)
  /\ closed' = closed \union (Disposes(o) \ Pinned)
  /\ UNCHANGED <<opens, made, call>>

Drop(o) ==
  /\ held' = held \ {o}
  /\ UNCHANGED <<opens, made, disposed, closed, call>>

Unreachable == (made \ closed) \ (Reach(held \union Kept) \union Pinned)

Collect(o) ==
  /\ closed' = closed \union {o}
  /\ UNCHANGED <<opens, made, held, disposed, call>>

-----------------------------------------------------------------------------

Init ==
  /\ opens \in Programs
  /\ made = {"image"} /\ held = {"image"}
  /\ disposed = {} /\ closed = {}
  /\ call = "OpenVolumeSystem"

Let ==
  \/ \E o \in held \ {"volume"} : Dispose(o)
  \/ \E o \in held : Drop(o)
  \/ \E o \in Unreachable : Collect(o)

Next ==
  \/ \E c \in DOMAIN Methods : Begin(c)
  \/ \E succeeds \in BOOLEAN : End(succeeds)
  \/ Let

Spec == Init /\ [][Next]_vars

-----------------------------------------------------------------------------
(* Properties *)

TypeOK ==
  /\ opens \in Programs
  /\ made \subseteq Objects
  /\ held \subseteq made /\ disposed \subseteq made /\ closed \subseteq made
  /\ call \in (DOMAIN Methods) \union {NULL}

\* What a pool's file systems use and do not keep: the program has to hold on
\* to the pool and to the disk image itself.  Nothing holds the image of a
\* volume that is opened again.
LeftToTheProgram(x) ==
  /\ Running.on \in {"pool", "pfs1", "pfs2", "pfile"}
  /\ \/ x = "img2"
     \/ x \in {"img1", "pool"} /\ "pool" \notin held
     \/ x = "image" /\ "image" \notin Reach(held)

\* As long as the program holds the object that it calls, or the method keeps
\* hold of it, every structure that the native function uses is open: the
\* collector closes nothing under a call, unless the program disposed it or it
\* belongs to a pool that the program did not hold.
UsesLiveMemory ==
  call # NULL /\ Running.on \in held \union Kept =>
    \A x \in Running.uses \intersect closed : x \in disposed \/ LeftToTheProgram(x)

\* When all that can be disposed was disposed, every structure is closed without
\* the collector, but for the entry of an enumeration that was left early and
\* the image of a pool's volume that was opened again.
DisposeReleasesAll ==
  call = NULL /\ made \ {"volume", "img1", "img2", "entry"} \subseteq disposed =>
    made \ {"volume", "img2"} \subseteq closed \union ({"entry"} \ disposed)
=============================================================================
