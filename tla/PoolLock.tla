------------------------------ MODULE PoolLock ------------------------------
(***************************************************************************)
(* The lock that the C# wrapper puts in front of libtsk for file systems   *)
(* that live in an APFS pool: FileSystem.poolLock, one static              *)
(* SemaphoreSlim(1) for the process, and every operation of FileSystem and *)
(* File that takes it, that forgets to give it back, or that enters native *)
(* code without it.                                                        *)
(*                                                                         *)
(* A thread runs a stack of calls: a walk calls back into managed code,    *)
(* and the callback may start another call of the wrapper.  A call waits   *)
(* for the lock, is in native code, and then returns or throws.            *)
(***************************************************************************)
EXTENDS Naturals, Sequences

CONSTANTS
  Threads,      \* managed threads that use the wrapper
  FileSystems,  \* FileSystem objects
  PoolFs,       \* those built by the ctor that takes a Pool
  Files,        \* identities of File objects
  FsOf,         \* File -> the FileSystem it is opened from
  NoFile,       \* in a call that is about no file
  MaxNesting    \* bound: calls on a thread's stack

ASSUME PoolFsAssumption     == PoolFs \subseteq FileSystems
ASSUME NoFileAssumption     == NoFile \notin Files
ASSUME FsOfAssumption       == FsOf \in [Files -> FileSystems]
ASSUME MaxNestingAssumption == MaxNesting \in Nat \ {0}

VARIABLES
  permits,    \* poolLock.CurrentCount
  lost,       \* history: a call left with the permit and nobody can return it
  fsState,    \* FileSystem -> not built, usable, disposed
  fileState,  \* File -> no object, being opened, usable, disposed (_handle null)
  stack       \* thread -> its calls, the innermost one last

vars == <<permits, lost, fsState, fileState, stack>>

-----------------------------------------------------------------------------
(* Which operations do what with the lock *)

\* Mutant: the walk over a pool's files takes the lock as well.
LockedOpsWithWalk == {"OpenFs", "OpenFile", "ReadBytes", "DisposeFile", "WalkDirectories"}

\* Mutant: ReadBytes releases after the read instead of in a finally block.
ProtectedOpsWithoutRead == {"OpenFs"}

\* Operations that call WaitForLockWhenWithinPool.
LockedOps == {"OpenFs", "OpenFile", "ReadBytes", "DisposeFile"}

\* Of those, the ones that release in a finally block.
ProtectedOps == {"OpenFs", "ReadBytes"}

\* Operations whose native code calls a managed callback.
WalkOps == {"WalkDirectories", "WalkFile", "WalkMetadata"}

\* Operations on a FileSystem that neither lock nor call back: OpenDirectory,
\* OpenRootDirectory, Directory.Entries, OpenBlock; and FileSystem.Dispose.
PlainOps == {"OpenDirectory", "DisposeFs"}

Ops == LockedOps \cup WalkOps \cup PlainOps

\* Operations of a File; the others are of a FileSystem.
FileOps == {"ReadBytes", "DisposeFile", "WalkFile"}

\* Operations whose managed part may throw although the handle is usable: the
\* ctors read dates and names from native structures, a read reports errors.
MayThrow == {"OpenFs", "OpenFile", "ReadBytes"}

WithinPool(s) == s \in PoolFs

TakesLock(op, s) == op \in LockedOps /\ WithinPool(s)

-----------------------------------------------------------------------------
(* Frames of a thread's stack *)

Frames == [op : Ops, fs : FileSystems, file : Files \cup {NoFile},
           at : {"wait", "native"}, fails : BOOLEAN]

Idle(t)   == stack[t] = << >>
Top(t)    == stack[t][Len(stack[t])]
Pop(t)    == SubSeq(stack[t], 1, Len(stack[t]) - 1)
At(t, p)  == ~Idle(t) /\ Top(t).at = p

Waiting(t) == At(t, "wait")
Holding(t) == At(t, "native") /\ TakesLock(Top(t).op, Top(t).fs)

Mentions(t, f) == \E i \in 1..Len(stack[t]) : stack[t][i].file = f

\* The call passes a null or closed handle: the marshaller, or the member
\* access, throws before native code is entered.
BadHandle(op, s, f) ==
  \/ op \in FileOps /\ fileState[f] = "disposed"
  \/ op \in {"OpenFile", "OpenDirectory", "WalkDirectories", "WalkMetadata"}
       /\ fsState[s] = "disposed"

-----------------------------------------------------------------------------
(* Starting a call.  A callback handles the exceptions of the calls it makes. *)

\* The thread is in managed code: outside every call, or in a callback.
InManaged(t) ==
  \/ Idle(t)
  \/ At(t, "native") /\ Top(t).op \in WalkOps /\ ~Top(t).fails

Push(t, op, s, f) ==
  /\ InManaged(t)
  /\ Len(stack[t]) < MaxNesting
  /\ LET waits == TakesLock(op, s) IN
     stack' = [stack EXCEPT ![t] = Append(@,
                [op |-> op, fs |-> s, file |-> f,
                 at |-> IF waits THEN "wait" ELSE "native",
                 fails |-> ~waits /\ BadHandle(op, s, f)])]

Underway(op, s) ==
  \E t \in Threads : \E i \in 1..Len(stack[t]) :
     stack[t][i].op = op /\ stack[t][i].fs = s

CallOpenFs(t, s) ==
  /\ fsState[s] = "none" /\ ~Underway("OpenFs", s)
  /\ Push(t, "OpenFs", s, NoFile)
  /\ UNCHANGED <<permits, lost, fsState, fileState>>

CallOpenFile(t, f) ==
  /\ fsState[FsOf[f]] # "none"
  /\ fileState[f] \in {"none", "disposed"}
  /\ \A u \in Threads : ~Mentions(u, f)
  /\ Push(t, "OpenFile", FsOf[f], f)
  /\ fileState' = [fileState EXCEPT ![f] = "opening"]
  /\ UNCHANGED <<permits, lost, fsState>>

CallFileOp(t, op, f) ==
  /\ op \in FileOps
  /\ fileState[f] \in {"open", "disposed"}
  /\ Push(t, op, FsOf[f], f)
  /\ UNCHANGED <<permits, lost, fsState, fileState>>

CallUnlocked(t, op, s) ==
  /\ op \in (WalkOps \cup PlainOps) \ FileOps
  /\ fsState[s] # "none"
  /\ Push(t, op, s, NoFile)
  /\ UNCHANGED <<permits, lost, fsState, fileState>>

-----------------------------------------------------------------------------
(* The lock and the end of a call *)

Entered(c) ==
  [c EXCEPT !.at = "native", !.fails = BadHandle(c.op, c.fs, c.file)]

\* Mutant: the lock is polled and entered whatever the answer.
WaitWithoutPermit(t) ==
  /\ Waiting(t)
  /\ permits' = permits - 1
  /\ stack' = [stack EXCEPT ![t] = Append(Pop(t), Entered(Top(t)))]
  /\ UNCHANGED <<lost, fsState, fileState>>

\* poolLock.Wait() returns; the handles are marshalled after it.
WaitForLockWhenWithinPool(t) ==
  /\ Waiting(t)
  /\ permits > 0
  /\ permits' = permits - 1
  /\ stack' = [stack EXCEPT ![t] = Append(Pop(t), Entered(Top(t)))]
  /\ UNCHANGED <<lost, fsState, fileState>>

\* Mutant: the release is not conditional on WithinPool.
ReleaseAlways(t) ==
  permits' = IF Top(t).op \in LockedOps THEN permits + 1 ELSE permits

\* Mutant: OpenFile returns early, before its release.
ReleaseNotInOpenFile(t) ==
  permits' = IF TakesLock(Top(t).op, Top(t).fs) /\ Top(t).op # "OpenFile"
             THEN permits + 1 ELSE permits

ReleaseLockWhenWithinPool(t) ==
  permits' = IF TakesLock(Top(t).op, Top(t).fs) THEN permits + 1 ELSE permits

\* The normal end of a call.  An OpenFs or an OpenFile may have found nothing.
Return(t) ==
  /\ At(t, "native") /\ ~Top(t).fails
  /\ LET c == Top(t) IN
     /\ \/ /\ c.op = "OpenFs"
           /\ \E r \in {"open", "none"} : fsState' = [fsState EXCEPT ![c.fs] = r]
           /\ UNCHANGED fileState
        \/ /\ c.op = "OpenFile"
           /\ \E r \in {"open", "none"} : fileState' = [fileState EXCEPT ![c.file] = r]
           /\ UNCHANGED fsState
        \/ /\ c.op = "DisposeFile"
           /\ fileState' = [fileState EXCEPT ![c.file] = "disposed"]
           /\ UNCHANGED fsState
        \/ /\ c.op = "DisposeFs"
           /\ fsState' = [fsState EXCEPT ![c.fs] = "disposed"]
           /\ UNCHANGED fileState
        \/ /\ c.op \notin {"OpenFs", "OpenFile", "DisposeFile", "DisposeFs"}
           /\ UNCHANGED <<fsState, fileState>>
  /\ ReleaseLockWhenWithinPool(t)
  /\ stack' = [stack EXCEPT ![t] = Pop(t)]
  /\ UNCHANGED lost

\* An exception leaves the call.  Only a finally block still releases.
Throw(t) ==
  /\ At(t, "native")
  /\ Top(t).fails \/ Top(t).op \in MayThrow
  /\ LET c == Top(t) IN
     /\ IF c.op \in ProtectedOps \/ ~TakesLock(c.op, c.fs)
        THEN ReleaseLockWhenWithinPool(t) /\ UNCHANGED lost
        ELSE UNCHANGED permits /\ lost' = TRUE
     /\ fileState' = IF c.op = "OpenFile"
                     THEN [fileState EXCEPT ![c.file] = "none"] ELSE fileState
  /\ stack' = [stack EXCEPT ![t] = Pop(t)]
  /\ UNCHANGED fsState

-----------------------------------------------------------------------------
Init ==
  /\ permits = 1
  /\ lost = FALSE
  /\ fsState = [s \in FileSystems |-> "none"]
  /\ fileState = [f \in Files |-> "none"]
  /\ stack = [t \in Threads |-> << >>]

Call(t) ==
  \/ \E s \in FileSystems : CallOpenFs(t, s)
  \/ \E f \in Files : CallOpenFile(t, f)
  \/ \E op \in FileOps, f \in Files : CallFileOp(t, op, f)
  \/ \E op \in Ops, s \in FileSystems : CallUnlocked(t, op, s)

Finish(t) == Return(t) \/ Throw(t)

Next ==
  \E t \in Threads : Call(t) \/ WaitForLockWhenWithinPool(t) \/ Finish(t)

Spec == Init /\ [][Next]_vars

\* Native calls come back, and a free semaphore wakes one of its waiters.
\* SemaphoreSlim promises no order among them, so no waiter has fairness of its own.
Fairness ==
  /\ \A t \in Threads : WF_vars(Finish(t))
  /\ WF_vars(\E t \in Threads : WaitForLockWhenWithinPool(t))

FairSpec == Spec /\ Fairness

-----------------------------------------------------------------------------
(* Properties *)

TypeOK ==
  /\ permits \in Nat
  /\ lost \in BOOLEAN
  /\ fsState \in [FileSystems -> {"none", "open", "disposed"}]
  /\ fileState \in [Files -> {"none", "opening", "open", "disposed"}]
  /\ stack \in [Threads -> Seq(Frames)]

\* At most one thread is in native code under the pool lock, whatever the
\* exceptions, double disposals and callbacks before it (FileSystem.cs
\* poolLock, File.ReadBytes, File.Dispose).
LockedCallsExclude ==
  \A t, u \in Threads : Holding(t) /\ Holding(u) => t = u

\* The permit is in exactly one place: in the semaphore, with the one call
\* that holds it, or lost.  SemaphoreSlim(1) sets no maximum, so a release
\* too many would let two calls in.
PermitConserved ==
  /\ permits \in {0, 1}
  /\ (permits = 1) <=> (~lost /\ \A t \in Threads : ~Holding(t))
  /\ lost => \A t \in Threads : ~Holding(t)

\* No thread waits for the lock while an outer call on its own stack keeps it:
\* a callback of a walk may open, read and dispose files, because the walks
\* take no lock.  The semaphore is not reentrant.
NoSelfDeadlock ==
  \A t \in Threads : \A i \in 1..Len(stack[t]) :
    i < Len(stack[t]) => ~TakesLock(stack[t][i].op, stack[t][i].fs)

\* The permit is lost only where an exception leaves OpenFile, or a second
\* Dispose of a File meets the null handle; a read or an open of a file
\* system that throws always gives it back.
LostOnlyByUnprotected ==
  [][ ~lost /\ lost' =>
        \E t \in Threads :
          /\ Holding(t)
          /\ \/ Top(t).op = "OpenFile"
             \/ Top(t).op = "DisposeFile" /\ fileState[Top(t).file] = "disposed"
    ]_vars

\* Unless the permit is lost, whoever has the lock gives it back.
HolderReturns ==
  \A t \in Threads : Holding(t) ~> (~Holding(t) /\ (permits = 1 \/ lost))

\* Unless the permit is lost, the threads that wait do not wait together for
\* ever: one of them is let in.
WaitersProgress ==
  (\E t \in Threads : Waiting(t)) ~> (lost \/ \E t \in Threads : Holding(t))

\* What pool/tsk_apfs.hpp expects of its callers: "locking in the higher
\* level APIs" keeps two threads from using the pool's shared state at once.
HigherLevelLocking ==
  \A t, u \in Threads :
     /\ At(t, "native") /\ WithinPool(Top(t).fs) /\ ~Top(t).fails
     /\ At(u, "native") /\ WithinPool(Top(u).fs) /\ ~Top(u).fails
     => t = u
=============================================================================
