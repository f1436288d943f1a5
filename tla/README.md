# Verification of the Sleuth Kit wrapper

The repository is a C# library (`src/Source/Sleuthkit Wrapper`) over a patched
copy of The Sleuth Kit (`src/Source/sleuthkit`, "libtsk"): a program opens a disk
image, finds volumes, pools and file systems in it, walks directories, and reads
files, possibly deleted and possibly damaged ones. This directory holds TLA+
models of the parts of it that keep state between calls or between threads, the
TLC runs that check them, and TLAPS proofs of their main invariants.

Below, `W/` stands for `Source/Sleuthkit Wrapper/src/` and `T/` for
`Source/sleuthkit/tsk/`.

## 1. Inventory

### How a read travels

    FileStream.Read ── File.ReadBytes ── [pool lock] ── tsk_fs_file_read
      W/Streams.cs      W/File.cs        W/FileSystem.cs      │
                                                       tsk_fs_attr_read ◄── run list
                                                       T/fs/fs_attr.cpp     tsk_fs_attr_add_run
                                                              │
    DiskImageStream.Read ── DiskImage.ReadBytes ──►  tsk_img_read (cache, cache_lock)
                                                       T/img/img_io.cpp
                                                              │ read callback
                              ┌───────────────────────────────┤
                      apfs_img_read (pool volume) ────►  raw_read / ewf / vmdk ...
                      T/pool/apfs_pool_compat.cpp        T/img/raw.cpp

### Components

| Component | State | Operations | What is hard |
|---|---|---|---|
| Pool lock, `W/FileSystem.cs`, `W/File.cs`, `W/Pool.cs` | one static `SemaphoreSlim(1)`; handles of file systems and files | open, read, dispose under the lock; walks, `OpenDirectory`, `Entries` without | exceptions between wait and release, disposal twice, callbacks that call back, threads in one pool |
| Image read cache, `T/img/img_io.cpp` | 32 slots of 64 KiB (`cache_off`, `cache_len`, `cache_age`), `cache_lock` | `tsk_img_read`, `tsk_img_read_no_cache`, `clear_cache` | short and failed loads, eviction, boundaries, threads |
| Raw and split images, `T/img/raw.cpp` | table of segments, 15 open files, a copy of each file position | `raw_open`, `raw_read`, `raw_close` | recycled slots, failed opens and seeks, stale positions, readers of pool volumes |
| Attribute reading, `T/fs/fs_attr.cpp`, `fs_io.c` | none between calls | `tsk_fs_attr_read`, `tsk_fs_attr_walk` | run and block boundaries, sizes, bytes to skip, read errors halfway |
| Run lists, `T/fs/fs_attr.cpp` | linked list of runs with fillers, `run_end` | `set_run`, `add_run`, `append_run` | runs in any order, duplicates, splitting of fillers |
| Streams, `W/Streams.cs`, `W/DiskImage.cs` | `position` | `Read`, `Seek`, `CopyTo` | short reads, error values taken for counts |
| Overwritten-file check, `W/FileSystem.cs` | `_bitmap`, the copy of `$Bitmap`, loaded once without a lock | `GetFileAllocationFlags`, `GetBitmap` | copies cut short and kept, two threads loading, width of integers, byte crossings |
| Directory walk and orphans, `T/fs/fs_dir.cpp`, `T/base/tsk_list.c`, `tsk_stack.c` | `list_inum_named`, `orphan_dir`, two locks, stack of visited directories | `tsk_fs_dir_walk`, `tsk_fs_dir_find_orphans`, `tsk_list_add`, `tsk_list_find` | laziness under locks, walks inside searches inside walks, loops and depth of damaged directories |
| Volume systems, `T/vs/*.c` | the part list of each type's structure | `tsk_vs_open`, the loaders of five types, `tsk_vs_part_add`, `tsk_vs_part_unused` | tries at several block sizes into one list, types that compete, overlapping parts, loops of extended tables |
| Native handles, `W/NativeMethods.cs`, `W/Volume*.cs`, `W/Directory.cs`, `W/Pool.cs` | `SafeHandle`s, references between objects, the pool's dictionary of image handles | open, dispose, finalize | structures that use each other, closed in any order |
| APFS pool, `T/pool/apfs_pool*.cpp`, `tsk_apfs.hpp` | block cache, volume images | `get_block`, `clear_cache`, `getImageInfo` | no lock of its own |
| Other image formats, file-system parsers, hash databases, `auto`, Java bindings, tools | | | parsing, I/O, other programs |

What makes each correct:

- *Pool lock*: at most one holder; the permit is never doubled, and lost only
  where the code does not protect it; nobody waits for himself; waiters get in.
- *Image cache*: a reply is a prefix of the image's bytes at the offset asked for,
  exactly as if there were no cache, whatever loads fail; damage in one place does
  not shorten reads in another; the least recently useful slot goes first.
- *Raw images*: the tables agree with each other and with the operating system;
  bytes come from the right file at the right place; sound files stay readable.
- *Attributes*: the bytes counted are those of the file; nothing is left out
  unless a read fails. *Run lists*: contiguous, and holding what was given.
- *Streams*: what a copy has written is what lies between the place where it began and
  the place where it stopped, in order and without gaps. *Overwritten check*: the verdict is about the file's own clusters on the
  disk, whichever copy of `$Bitmap` it comes from.
- *Directory walk*: every name that can be reached is given to the callback, and
  every call returns. *Orphans*: found once, from the complete list of named files;
  none has a name, none is lost. *`tsk_list`*: a set.
- *Volume systems*: the list is in order, numbered, covers the disk, and holds the
  parts of the accepted table; all structures but the returned one are closed.
- *Handles*: no native call works with a structure that the collector has closed;
  a program that disposes everything leaves nothing to the collector.

`PROJECT.json` lists under "hazards" the places in the code where these may go
wrong, with the property that covers each, or the reason why none does: for some of them
because the code goes wrong there, and the property exempts just that case.

## 2. Modules

| Module | Models | Composed from | Proofs |
|---|---|---|---|
| `PoolLock` | the semaphore and all calls of `FileSystem` and `File` around it | | `PoolLockProofs` |
| `ImgRead` | what `tsk_img_read` promises, as a two-step operation | | |
| `ImgCache` | `tsk_img_read` step by step; implements `ImgRead` | | `ImgCacheProofs` |
| `RawImage` | `raw_read`, `raw_read_segment` under the locks of one or several image informations | | `RawImageProofs` |
| `RunList` | `tsk_fs_attr_set_run`, `tsk_fs_attr_add_run` | |  |
| `AttrRead` | `tsk_fs_attr_read` | | |
| `AttrWalk` | `tsk_fs_attr_walk` | extends `AttrRead` | |
| `ReadPath` | a file is parsed, then read and walked | `AttrWalk` on what `RunList` builds | `ReadPathProofs` |
| `Streams` | `Streams.cs` and `Stream.CopyTo` | | |
| `NtfsBitmap` | `IsOverwrittenNTFS`, `IsFree` | | |
| `OverwrittenFlow` | `GetFileAllocationFlags`, `GetBitmap` | `Streams` makes the copy, `NtfsBitmap` looks at it | `OverwrittenFlowProofs` |
| `TskList` | `tsk_list.c` | | |
| `DirTree` | what a walk meets: names, metadata, flags; reference definitions | | |
| `OrphanFiles` | what the search for orphans promises | extends `DirTree` | |
| `DirWalk` | `tsk_fs_dir_walk`, the search for orphans; implements `OrphanFiles` | extends `DirTree`, `TskList` | `DirWalkProofs` |
| `DirWalkInvariants` | no code: the inductive invariants of `DirWalk`, for the proofs | extends `DirWalk` | `DirWalkProofs` |
| `VsParts` | the part list of `mm_part.c` | |  |
| `VsOpen` | `tsk_vs_open` and the loaders of the five types | extends `VsParts` | `VolumesProofs` |
| `Handles` | the wrapper's objects, their handles, the collector | | `HandlesProofs` |
| `Volumes` | opening a disk's volumes through the wrapper | `VsOpen` decides what `Handles` goes on with | `VolumesProofs` |

The `MC` modules instantiate the specifications, each `.cfg` is one run. Operators whose
comment begins with "Mutant:" are the plausible bugs with which the sensitivity of
each property was tested; the specifications do not use them.

### PoolLock

A thread has a stack of calls, because a walk calls back into managed code and the
callback may call the wrapper again. A frame is waiting for the lock or in native
code; `fails` says that the handle it marshals is null or closed. The lock is taken
by `OpenFs`, `OpenFile`, `ReadBytes` and `DisposeFile` (`LockedOps`), and given back
by a `finally` only in `OpenFs` and `ReadBytes` (`ProtectedOps`). `OpenDirectory`
stands for all operations that neither lock nor call back (`OpenRootDirectory`,
`Entries`, `OpenBlock`).

`lost` is a history variable: an exception left `OpenFile`, or the second
`File.Dispose` met its null handle, after the wait. The permit is then gone and
every later call on a pool waits; that is what the code does, so the liveness
properties are stated up to `lost`, and `LostOnlyByUnprotected` says that these are
the only ways.

Callers: the public methods `WaitForLockWhenWithinPool` and
`ReleaseLockWhenWithinPool` are called by the wrapper only. A File object is opened
by one thread; then any thread may use it. Callbacks handle the exceptions of the
calls they make. `File.Dispose` gives its handle up and sets it to null in one
step with its return; a second `Dispose` that starts before that waits for the lock
and finds it null. A walk over a disposed handle throws before its first callback.

### ImgCache and ImgRead

One action per section of `tsk_img_read`: checks, `TakeLock`, the search through
the slots (`Hit`, `Miss`, `SkipCache`), the load (`Load`, `LoadFails`),
`NoCache` and `ReleaseLock`. Bytes are named by their offset in the image, so
`cached[i]` says what a slot *really* holds, next to what `cacheOff` and `cacheLen`
claim. Ages, the choice of `cache_next` inside the loop, and the rounding to
sectors are translated as they are, including two particularities: a read of no
bytes makes every slot that covers it young, and ages may go below 1 although the
comment in the code says otherwise (`EvictsLeastRecent` shows that this does no
harm, as long as no read asks for nothing).

`Callback` is the promise of the image format: all bytes up to the end of the image,
or, where a damaged byte is in the range, an error or a shorter prefix. `older` is a
history variable: the pairs of slots in use of which the first was last useful before
the second was.

`ImgRead` has no cache and no lock: a request, then any legal answer. The property
`ReadsTheImage` says that `ImgCache` implements it; the refinement mapping is the
identity on `request` and `reply`.

### RawImage

A call of `raw_read` goes through its segments; `open`, `seek` and `read` of a
segment are steps of their own, because another thread may come in between when it
holds another lock. `filePos` is the operating system's position, `seekPos` the
code's copy of it. `Infos` are the image informations with a `cache_lock` each: the
image itself (`Base`) and the pool volumes on it; `Through` says by which one a thread
comes. The POSIX branches of `raw_read_segment` are modelled. `right` records, for each call,
whether all bytes came from the right file and place.

### RunList, AttrRead, AttrWalk, ReadPath

`RunList` starts with the first chain that `ntfs.cpp` meets (`SetRun`) and adds the
others in any order; a chain that is added again is a duplicate. The linked list is a
sequence. The ends of runs, and what
`len -= run_len` leaves of a filler, are taken modulo `Modulus` (2^64 in the code), because
an entry that overlaps another one can take more from a filler than it has. Two histories
go with the list: the chains that calls were `given`, and whether a rest of a filler was left
behind a chain of several runs (`misplaced`), which is where the code misplaces it (finding 4).

`AttrRead` goes through a run list as `tsk_fs_attr_read` does, with the reading of the
file system as an action that succeeds, comes short, or fails. `AttrWalk` does what
`tsk_fs_attr_walk` does, block by block, with the bytes to skip of the attribute, the
option to leave out sparse blocks, and the wiping behind the initialised size.

`ReadPath` joins them: any subset of the chains is parsed in any order, the file is
opened with one of the `Headers`, then read or walked. So the list that the two loops
take for granted is the one the other code has built, and the properties compare the
bytes with the chains that the parser met (`IsByte`), not with the list. They speak of an
ordinary file (`Ordinary`): no two of the chains given hold the same block, and nothing is
`misplaced`. Chains may have any number of runs, wherever in the file they lie; only in the order of
finding 4, and where two entries claim one block, is there no promise. A file of which a
run wraps is not read in the model (`NoneWraps`), since `AttrRead` counts without a modulus.

Two details of the code show in the properties: what a failing read has put into the
buffer past the initialised size is not zeroed (`ReadsWhatWasGiven`, although the
comment at `T/fs/fs_attr.cpp:1264` says zeros are returned there), and a walk that
skips bytes wipes from the start of the block and so that much too early
(`WalkGivesTheFile`).

### Streams, NtfsBitmap, OverwrittenFlow

`Streams` is one stream, over a file or over an image, on which `Read`, `Seek` and a
`CopyTo` are made in any order, except that a copy is not interrupted. The native reads return
what `AttrRead` and `ImgCache` say they may.

`NtfsBitmap` looks at one run after another, bit after bit; `ByteBits`, `IntBits` and
`Half` scale 8, 32 and 2^31 down, and the integer division, remainder and shift are
those of C#: toward zero, and with the shift count cut to the width.

`OverwrittenFlow` is a caller with streams of its own, and then calls of
`GetFileAllocationFlags`, none while a copy of its own goes on: the first one opens entry 6 and copies it with the actions of
`Streams`, keeps the copy as `bitmap`, and each call runs `NtfsBitmap` over it. Another
thread may find no copy and store its own later (`OtherBegins`, `OtherStores`); a copy
may end early because a read failed, and is then kept. An empty copy makes all
files free from then on; the verdict is claimed right for the others.

### TskList, DirTree, OrphanFiles, DirWalk

A thread has a stack of jobs: walks and searches for orphans, which start each
other. A walk of the tree collects the deleted files that it meets a name of, if the
list is not known yet; opening the virtual orphan directory on the way starts a search;
the search takes `orphan_dir_lock`, walks the tree again if the list is still missing,
then goes over all deleted metadata structures and walks each orphaned directory. A
walk has a frame for each directory on its way, as the recursion has. Names and
structures of a directory come from `Images` (loading is parsing); `bad` directories
cannot be loaded. The user's callback answers as it likes.

`TskList` is the list of buckets as the code keeps it, with the 64-bit wrap of
`key - len`; `DirWalk` works on it, and the refinement mapping to `OrphanFiles` takes its
elements. `OrphanFiles` has two steps, each taken once: the named files become known,
and the orphan directory is made from them. `OrphansSpec` says that `DirWalk`
implements it whatever walks and searches of several threads do in between.

Particularities that are translated as they are: the de-duplication at the end of a
search puts the last name in the place of a dropped one without looking at it, and
never drops the last (`T/fs/fs_dir.cpp:1435`); orphaned directories in a circle vanish,
because each is taken for a child of the other (hence `Cyclic`); a name inside an orphaned
directory that is not that of a directory hides a deleted directory and all that is in it
(`NamesFit`); the depth limit leaves an address on the stack of visited directories
(`fs_dir.cpp:824`), so that later names in the same walk may be taken for loops (hence
`TooDeep`: there is a way down without repetition that is longer than the limit); a list of
names is saved when the orphan directory is the last name of any directory, also of a root
that is met again below itself, before the names behind it were seen (`fs_dir.cpp:770`,
hence `RootIsOnTop`: in such a damaged file system files that have a name are shown as
orphans, although `T/fs/tsk_fs.h:1014` has the list filled by a full walk); an unreadable orphaned directory fails every search (`fs_dir.cpp:1315`, `SearchMayFail`).
The list is promised to be complete where the tree is `Walkable` and no callback failed
(finding 5); no orphan has a known name where the tree is `Walkable`. The reference
definitions (`Reached`, `Below`) are sets that every closed set has in common, not walks.

### VsParts, VsOpen

`VsOpen` looks for the five types in the order of `tsk_vs_open`, each with the block
sizes and places that its loader tries (a GPT at the image's sector size, at the
others, then its backup; a Mac map at both sizes; a Sun label in sector 0 or 1). An attempt
reads the table, lists parts one by one with `PartAdd`, enters extended DOS tables with
the loop check of the code, fails on unreadable or outside entries, and at the end
fills the unused space. `TakesOver`, `GivesWay` and `Conflict` are the competition. A
disk is given by what the loaders tell apart: which tables have their magic, and
the start, length and kind of entries (`DisksAssumption`: any numbers, any tables). A
part is allocated (with those that are described as GPT Safety told apart, as the
competition looks for them in the whole list, extended tables included: `Protects`), free (a Mac map and a Sun label list these themselves), unallocated
(the fillers of `tsk_vs_part_unused`), or meta data.
`Tables`, the extended tables that can be reached from the primary one, is what all sets
that hold the first ones and with a table the next ones have in common: there is no
recursion in it that a proof could not use.

Particularities: `tsk_vs_part_unused` looks at the end of the part before only, so a
sector of overlapping parts may be listed as unused too, as under each BSD label with a
whole-disk entry (`ListFillsTheDisk` says that fillers are apart from the parts when
those of the table are, where "apart" means that each ends before the next begins: a
GPT entry that ends just before its start has no sectors, but must not lie inside another
part); the structure of a DOS table that a BSD label supersedes is never
freed (`mm_open.c:72`, in `OneIsLeftOpen`); parts of a Mac map that failed at one block
size stay in the list of the other (`mac.c:229`, in `PartsAreTheTables`); the copy of
a GPT gives way to a DOS table. The wrapper always opens at offset 0.

### Handles, Volumes

An object of the wrapper owns a native structure through a `SafeHandle`. `Refs` is what
the objects' fields keep hold of, `Methods` what each native call is given, keeps and
works with. `Dispose`, `Drop` (the program forgets the object) and `Collect` (the
finalizer of an unreachable handle) happen at any time, also during a call. The
runtime is external: a marshalled handle is not closed before the call returns, and
an object is reachable from a method as long as it is still used there; finalizers run
in any order. The order of the close functions does not matter, as none of them uses
another structure.

`img1` and `img2` are the images that a pool makes for a volume that is opened twice:
`TryAdd` keeps the first only, so the second has no reference and no disposal; file
systems of a pool keep neither the pool nor the images. `LeftToTheProgram` names these
cases; a program that holds its pool and its disk image and opens each volume once is
safe.

`Volumes` starts with `OpenVolumeSystem`: while it runs, `VsOpen` works; it returns an
object exactly when a table was accepted. For the disks in `Followed` the program goes
on with one of the `Programs`.

## 3. Runs

Times are those of two workers on a laptop-class machine.

| Run | Question | Bounds and why they are enough |
|---|---|---|
| `PoolLock_calls` (FairSpec, 156k states, 1 min) | Is the lock exclusive, conserved, given back? Is it lost only where there is no `finally`? | two threads (the properties relate two), a pool file system and one that is not, one file, two calls deep: a callback with a locked call in it |
| `PoolLock_pool_race` | Does locking keep two threads out of one pool? No. | the same with the pool file system only |
| `ImgCache_reads` (FairSpec, 90k states, 30 s) | Are replies those of the image after any loads? Is everything under the lock, and the lock given back? | two readers, two slots (victim and survivor), a 6-byte image of 2-byte sectors, slots of 3 bytes (so that offset + length may exceed a slot), reads of 3 bytes before, at, across and behind each boundary, one byte that may fail |
| `RawImage_failures` (175k states) | Do slots, positions and bytes stay right? | four files in two slots so that slots are recycled while the other is in use, two of the files may fail at each step, reads over up to three files |
| `RawImage_pool` | Is `raw_read` always under the image's lock? No. | two pool volumes |
| `ReadPath_files` (98k states) | Is the list of an ordinary file right in every order, and are the bytes that are read and walked those of the chains? | six chains of a ten-block file, so that chains go before, into the middle of, at the end of and exactly over a filler, and past the end; a chain of two runs in the middle, one at the end, and one that claims blocks of others; data, sparse and missing runs, one run outside the image; sizes in the last block and beyond, three initialised sizes, with and without bytes to skip |
| `AttrRead_short` | Is the number returned the number read? No. | all lists of up to three runs of one or two blocks |
| `RunList_chains` | Is the list contiguous with chains of two runs before a filler? No. | four chains |
| `OverwrittenFlow_calls` (204k states, 20 s) | What does a copy hold, and is the verdict over it right? Where does the check throw? | three bytes of two bits, ints of four bits, counts 1 and 2, seeks from -2 to 3 from each origin; lists of up to two runs with cluster numbers on both sides of `Half`; five contents of `$Bitmap` |
| `DirWalk_walks` (176k states, 2 min) | Does a walk see all names, does the search implement `OrphanFiles`, does every call return? | two threads, one call each, on ten file systems: plain, orphans before their directory, circles of directories, unloadable and reused ones, no metadata walk, a chain deeper than the limit of 3, a bad and a cyclic orphaned directory, one with a name of another type, and a root inside itself |
| `DirWalk_error` | Does an error of the callback end the walk with an error? No. | one thread |
| `Volumes_disks` (297k states, 1 min) | Is the list complete and the accepted table's, is one structure left, do calls use live memory, does disposal release all? | some 1800 disks of 12 blocks at two block sizes: DOS with extended tables and loops, GPT with copies, Mac at two sizes, pairs of types with and without a boot sector; two of the disks followed with all orders of seven and nine objects |

Named bounds: `MaxNesting` (calls on a stack), `MinAge` (no read starts once a slot
is that old; ages only order the slots, and those in reach order two slots in all
ways), `MaxSeek` (no position further out), `MaxBytes`, `MaxCalls` (calls of a thread in
`DirWalk`; the second thread's call finds whatever the first has left).

`CHECK_DEADLOCK FALSE` is said where the system may really stop: `PoolLock` (a lost
permit stops every thread that waits), `ImgCache` (with `MinAge`, no
read starts any more), `AttrRead`, `ReadPath`, `DirWalk` and `Volumes` (the program
has made its calls and ends).

### Where the code differs from what it says

Five runs are counterexamples to a comment of the code; each is also an entry of
"findings".

1. `T/pool/tsk_apfs.hpp:110` counts on "locking in the higher level APIs". The walks
   and `OpenDirectory` do not lock, so two threads use the block cache of one pool.
2. `T/img/raw.cpp:274` assumes the image's `cache_lock`. `apfs_img_read` calls
   `origInfo->read` under the lock of the pool volume's image only. When the pool lock is
   held around every call this does not show; with finding 1 it does.
3. `T/fs/fs_attr.cpp:1116` promises the number of bytes read; after a read error the
   count of the last run alone is returned.
4. `T/fs/fs_attr.cpp:615` moves the rest of a filler behind the *first* run of the
   chain that was put before it. A file whose later `$ATTRIBUTE_LIST` entries are met
   before earlier ones, with several runs in one entry, then has overlapping
   offsets.
5. `T/base/tsk_base.h:290` says that `TSK_WALK_ERROR` from a callback stops the walk and
   returns an error. Below the root it is taken for a directory that could not be
   read: `T/fs/fs_dir.cpp:864-887` resets the error, goes on in the directory above, and the
   walk returns success, with a list of named files that lacks the rest of that
   directory and is kept for good.

Two more disagreements have no run. `W/Streams.cs:48` presents `DiskImageStream` as "a .NET BCL
Stream.  Handy for interop with other libraries and the BCL itself", but at the end of an
image `DiskImage.ReadBytes` (`W/DiskImage.cs:153-156`) returns the -1 of `tsk_img_read`, where a
BCL stream returns 0; `Read` (`W/Streams.cs:67-84`) passes it on and moves the position back by
one, and a full `CopyTo` always ends in an exception. `Streams` models that as it is. It needs no
interleaving and no failure, so a unit test shows it. And `T/fs/tsk_fs.h:1014` has the list of
named files filled by a full walk, which a root below itself cuts short (section 2, `RootIsOnTop`).

The overwritten check throws for clusters that do not fit in an `int`; no text says
otherwise, and `ThrowsOnlyOutside` says that these and clusters outside of the copy are the only ones.

### Fairness

`PoolLock`: a native call comes back (`WF` of the end of each thread's call), and a
free semaphore lets in one of its waiters (`WF` of the disjunction over the threads).
`SemaphoreSlim` makes no promise of order, so no thread has fairness of its own and
starvation of one is not excluded; the properties are about the holder and about the
waiters together. `ImgCache`: the thread that has the lock goes on (`WF` of its
steps), because the callback returns with data or with an error. `DirWalk`: not all
threads in native code stand still (`WF` of the disjunction over the threads); the one
that waits for the orphan lock needs no fairness of its own, since the others come to an
end. No call is ever assumed to start.

## 4. Proofs

All theorems hold for every value of the constants that the named assumptions of the
modules allow: any number of threads, files, slots and sizes.

`PoolLockProofs`. `TypeCorrect`, `MutualExclusion` (`LockedCallsExclude`),
`PermitConservation` (`PermitConserved`), `CallbacksMayLock` (`NoSelfDeadlock`) and
`LostPermits` (`LostOnlyByUnprotected`). The
properties are not inductive: that a thread which starts a call holds no lock, and
that one which ends a call uncovers no holder, follows from the shape of stacks:
every call but the innermost is a walk, and only the innermost waits, for a lock it
takes (`WellNested`). `IInv` adds that for every thread. Three lemmas say how a push,
the grant of the lock and a pop change a stack; the rest is about one thread's stack
at a time, with one lemma for each action. `LostPermits` needs one more fact, that a
call works on a file only after the file was opened.

`ImgCacheProofs`. `TypeCorrect`, `CallbackUnderLock` (`CacheLockHeld`), `Coherence`
(`CacheCoherent`), `FullReads` (`SoundReadsAreFull`), `LeastRecentGoes`
(`EvictsLeastRecent`), and `Implements`: `Spec => ReadsTheImage`, the refinement of
`ImgRead`. The invariant is `TypeOK`, `CacheLockHeld`, `CacheCoherent` and, for each
thread, `Knows`: what the steps before have established for the steps after, above
all that a thread about to release has a legal reply. The lock is what makes `Knows`
of one thread immune to the others: they cannot touch the slot it loads. `FullReads` adds
`Reads`: which place a load is for, that a read goes around the cache only when it is
too long or the load would meet damage, and that a read about to return that meets none has
all its bytes. `LeastRecentGoes` follows from `AgeInv`: the slots in use have different
ages, in the order in which they were last useful. It assumes that no read asks for nothing
(`0 \notin Lengths`), as the run does: such a read makes every slot that it touches young at
once, which the ages then no longer tell apart, and with it `EvictsLeastRecent` is false (no
byte goes wrong: the other theorems hold for all lengths).

`RawImageProofs`. Two invariants. `GInv` is about the slots alone and needs no lock:
`TypeCorrect`, `SlotTable` (`SlotsAgree`) and `PositionsAreRight` (`SeekPosIsFilePos`). It says no more than the
model's granularity does: opening, seeking and reading a segment are single steps there,
which without the lock they are not. `LInv` adds, for each thread, that the slot it
will read is still that of its segment, and needs `OneLock`: all threads come through
the image itself, as in `RawImage_failures`. From it follow `UnderLock`, `RightBytes`
(`BytesAreRight`) and `FullReads` (`SoundReadsAreFull`). `RawImage_pool` shows that
without `OneLock` `UnderLock` fails. `MaxOff` is a recursive function over the segments: that
it is defined, and grows with them, is shown by induction over numbers.

`ReadPathProofs`. `TypeCorrect` holds for any chains that are chains (`ChainsAreRuns`),
overlapping and misplaced ones included. `NoGapNoOverlap` (`ListIsContiguous`),
`HoldsWhatWasGiven` (`ListHoldsWhatWasGiven`), `ReadsAreRight` (`ReadsWhatWasGiven`), `FullReads`
(`ReadsAreFull`) and `WalksAreRight` (`WalkGivesTheFile`) have no assumption on the chains either:
any number of them, each of any number of runs, in any order, with repetitions. What they leave
out is in the properties themselves, state by state: they speak of a file as long as it is
`Ordinary`. Both halves of that are needed: where two entries claim one block no list could hold
both, and finding 4 (`RunList_chains`) is a list that is not contiguous. The invariant `ListInv`
says of an ordinary file that neighbours in the list follow each other and are not both
fillers, that the last run is no filler, and that the data runs are those of the chains given. So
behind a filler there is always a run of another chain: a chain that goes into the filler has to
end before that run, as it is apart from it, and nothing is subtracted below zero; and a
rest is left behind it only if it has a single run, or the file stops being ordinary.

A read keeps two accounts of where it is, the count that
remains and the run with the byte in it. The invariant `RunsInv` relates them: either
nothing was read yet and the place is the one asked for (`Fresh`), or the next run begins
just where the bytes that were read end (`Inside`); that the list is contiguous
makes the two meet. `WalkInv` is the same for the walk, less what it skipped. The
lemmas before it turn positions into blocks and back, with a block size of any number.
`ResidentAssumption` says that the attributes to choose from are resident ones; the
attribute of the list is made from the list.

`DirWalkProofs`. `TypeCorrect` (`TypeOK`), `Implements` (`OrphansSpec`): the refinement of
`OrphanFiles`, and `SeesAll` (`WalkSeesAll`); for any tree, damage, flags and number of
threads. The
lemmas are of three kinds. About `tsk_list`: `Find` and `Add` on buckets with
falling keys are membership and insertion in a set of numbers, also below a bucket that
reaches 0 (`FindIsMember`, `AddGives`). About the order of names and the removal of names
from the orphan directory: `PrioritizeDirNames` keeps all names, de-duplication loses only
names found in the subdirectories. About the steps: every step replaces, pushes or pops the
job on top of one thread's stack, and a walk moves on in one of four ways (`Skips`, `Enters`,
`Opens`, `Leaves`). The invariant `TypeInv` says for every thread what may be above what
(`StackOK`: a search is at the bottom or over a walk of the user, a nested walk is over a
search), that the directories of a walk are on its `seen` list, one above the other, and that
the names of a search are the deleted files passed so far. That no search starts below a
search rests on the flags: the walks which a search makes leave the orphan directory out.

`OrphanFiles` speaks of the moments at which the list and the orphan directory change; that
they change rightly depends on all that walks and searches did before. `SoundInv` says it,
for each thread:

- `Sound`: a walk that saves is in directories reached from the root, and all it has
  collected is named there. `bak` counts too: it is what makes the walk save again when it is
  back from the orphan directory.
- `Account`, while the tree can be walked, nothing is known and the thread's callback has not
  failed: there is a set of directories that are done, and every name in them, and
  every name passed on the way down, is either dealt with already or leads to a directory
  that is done or on the way. A walk that leaves a directory adds it to the set; one that skips
  a name because of `seen` needs that `seen` is the way; and back at the root the set is
  closed, so that it has everything reached. When the orphan directory is the last name of
  the root (`IsSavedEarly`), the same holds before it is opened, since only the root has it.
- `SearchSound`: a search knows each deleted file that it has passed: it has a name,
  is listed, or was met inside a listed directory (`Knows`). The search looks at files
  only after the list is known (`Blind` rules `"metas"` out), because the walk it
  makes for the list either makes it known or returns an error.
- The orphan directory is made only when the list is known, or no file has a name.

That de-duplication loses nothing is `NoneIsLost`: of the listed directories that
hold the file, one is inside no other, as there are no circles, and that one stays. A walk whose callback
failed may leave an incomplete list behind (finding 5); `OrphanFiles` therefore
promises completeness only while `refused` is empty.

`WalkSeesAll` speaks of a walk that has ended, and of what its callback was called for, which
no step looks at again. Two more invariants lead there:

- `FailInv`: a search, or a walk that it makes, fails only where the root or an orphaned
  directory cannot be loaded or the metadata walk fails (`CanFail`). Without it a walk
  that has no orphan directory to go into could have lost one for no reason.
- `ShowsInv`: while the callback of a user's walk has gone on and the tree is not too deep,
  there is a ledger (`Ledger`): a set of directories that are done, such that each name in
  them, and each name passed on the way down, was shown if its kind is asked for, and leads,
  if the walk goes into it, to a directory that is done or on the way (`Met`). `OnPath` says
  that `seen` is that way and has no directory twice, so that one which is skipped as a
  loop is on it. When the stack is empty again the set of done directories has the root
  and is closed, and all that can be reached is in it.

Another thread may make the orphan directory while a walk is half-way, so the ledger is
about one of two trees (`View`): the image, as long as the walk has not come to the orphan
directory, and the image with the orphan directory from then on. Before that moment the
two differ in names of a directory the walk has not opened (`SeesStays`); the names in
the orphan directory do not change once it is made, which is what `TypeInv` and the lock give.

The invariants are in `DirWalkInvariants`, which TLC can read too: all four (`TypeInv`, `SoundInv`,
`FailInv`, `ShowsInv`) hold in the 176 468 states of `DirWalk_walks` when they are added to it.

`OverwrittenFlowProofs`. `TypeCorrect`, `OrderOfCopies` (`CopyIsInOrder`), `Verdicts`
(`VerdictIsRight`) and `Exceptions` (`ThrowsOnlyOutside`), with no assumption beyond those
of the modules. Copies of
`$Bitmap` are intervals that begin at 0, whole or cut off (`StreamInv`, `IsCopy`).
`LooksInv` says that index and bit name the cluster `addr + i` of the run that is looked
at, and that all clusters before it are free, as long as the run fits in an `int`.

`HandlesProofs`. `TypeCorrect`, `LiveMemory` (`UsesLiveMemory`) and `DisposalReleases`
(`DisposeReleasesAll`), for any programs and any order of disposals and finalizers. Assumed
are `ProgramsAreObjects`, `NullIsNoObject` and `NullIsNoMethod`: programs use the objects of
the model, and the value for "none" is neither an object nor a method. `IInv` says that
what the collector has closed is out of reach of all that is held or in a native call;
`ReleaseInv` that what the program has disposed is closed or in use by the running call,
and that a pool is disposed with its first image.

`VolumesProofs`. `OneStructure` (`OneIsLeftOpen`): the invariant `Competition` relates the
structures that are allocated to the types looked at so far and to the one found.
`ListFills` (`ListFillsTheDisk`) and `PartsAreRight` (`PartsAreTheTables`), on every disk that
`DisksAssumption` allows, follow from `VInv`, which has four parts:

- `ListsInv`: every list is in order and numbered (`PartAddGives`: what `tsk_vs_part_add`
  does to a list that is);
- `LoadInv`: what is known of the list at each stage of loading. While tables are read,
  the frames are the primary table and extended ones that can be reached from it (`Nested`),
  and the list has the entries before the one that is read next (`ListedTo`). While unused
  space is looked for (`Passed`), the parts before the current one cover all sectors
  up to `prevEnd`, the fillers among them end before the parts behind them begin, and so
  do the parts of the table, if they are apart;
- `FreshInv`: the lists of types not looked for yet are empty;
- `PrevInv`: the list of the type found stays as it was when it was accepted.

Neither theorem is inductive without the others: that no filler is in the list before
`tsk_vs_part_unused` starts, for one, holds because each failed attempt frees its
parts, and for a Mac map, which does not, because an attempt that fails has not
come that far. `TypeCorrect` (`VolumesTypeOK`) needs all of it. `LiveMemory` and
`DisposalReleases` hold for the composition because each step of `Volumes` is one of
`Handles` or a stutter (`ProgramsOnDisks`), so the theorems of `HandlesProofs` carry over.

Only model-checked: liveness (`HolderReturns`, `WaitersProgress`, `LockIsReleased`,
`CallsReturn`), which the prover does not reach. Every invariant and action property that
a passing run checks, and the refinement of `OrphanFiles`, is a theorem.

## 5. Left out

- Exceptions of `SemaphoreSlim.Wait` itself, and failed allocations in native code.
- Compressed and encrypted attributes, logical files; `tsk_fs_attr_append_run` and the
  setters of resident attributes, which the parser calls once with data it has decoded.
- The Windows branches of `raw_read_segment`. A regular file goes the same way there through
  `SetFilePointer` and `ReadFile`. A device does not: the read begins at the sector before the
  offset and is one sector longer, goes through a buffer of its own, is cut at the end of the
  image, a count of 0 there is replaced by the length, which moves `seek_pos` on although the
  device has not moved, and `cnt` and `seek_pos` are corrected afterwards; the image writer is called in
  between. `raw_open`, whose result is the initial state, and `raw_close`.
- The decoding of volume tables: what byte order `tsk_fs_guess_endian` finds, and what a
  GPT entry with an end before its start wraps to; `tsk_vs_part_read`. The sanity checks of
  sizes are folded into what a disk shows: a GPT whose entries are too small (`gpt.c:436`, after
  its header was listed, in a list that is then freed) and a Sun label larger than a block
  (`sun.c:232`) are no tables.
- The block cache of `APFSPool` and the structures of a container; only
  `clear_cache` and the locking are modelled. What goes wrong there, goes wrong by the
  missing lock that `PoolLock_pool_race` shows.
- The loading of directories by each file system: `DirTree` takes any names and flags.
- In `Handles` an object is made once, and native calls are made one at a time: two
  threads that dispose of and use one object at the same moment are outside of it (the
  handle's own reference count decides there).
- Parsers of file systems and other image formats: decoders of on-disk structures with
  no interaction, by far most of the lines. Hash databases, ingest, Java bindings and
  tools, which the wrapper does not use.
- `tsk_error`'s thread-local error state, but for the end-of-file number that
  `File.ReadBytes` tells apart.

## 6. Plan

Done: the pool lock, the read path from the streams to the raw image, run lists with
reading and walking on top, directory walks with the search for orphans, volume systems
and the lifetime of handles, and proofs for eight of the specifications.
Next, in this order:

1. `PoolBlockCache`: the limit of `get_block` and `clear_cache`, with the locking that
   `PoolLock` shows; `APFSPool::read` on top.
2. `tsk_fs_attr_append_run` and the resident setters in `RunList`; `img_writer`.
