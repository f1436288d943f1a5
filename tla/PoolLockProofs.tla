--------------------------- MODULE PoolLockProofs ---------------------------
(***************************************************************************)
(* Proofs about PoolLock, for any threads, files, file systems and depth   *)
(* of callbacks: the permit of FileSystem.poolLock is conserved, at most   *)
(* one call holds it, and no thread waits for a lock that it holds itself. *)
(*                                                                         *)
(* The invariants of PoolLock are not inductive: that a thread which       *)
(* starts a call does not hold the lock, and that one which ends a call    *)
(* uncovers no holder, follow from the shape of the stacks.  WellNested is *)
(* that shape; IInv adds it for every thread.                              *)
(***************************************************************************)
EXTENDS PoolLock, SequenceTheorems, TLAPS

Holds(q) == q # << >> /\ q[Len(q)].at = "native"
                      /\ TakesLock(q[Len(q)].op, q[Len(q)].fs)

\* Every call but the innermost is a walk, and only the innermost may wait,
\* for a lock that it takes.
WellNested(q) ==
  \A i \in 1..Len(q) :
     /\ i < Len(q) => q[i].op \in WalkOps
     /\ q[i].at = "wait" => i = Len(q) /\ TakesLock(q[i].op, q[i].fs)

Nested == \A t \in Threads : WellNested(stack[t])

IInv == TypeOK /\ Nested /\ PermitConserved /\ LockedCallsExclude

-----------------------------------------------------------------------------
(* The three ways a stack changes *)

\* Starting a call keeps the shape, and neither the old nor the new top holds.
LEMMA PushStack ==
  ASSUME NEW q \in Seq(Frames), WellNested(q),
         q = << >> \/ q[Len(q)].op \in WalkOps,
         NEW c \in Frames, c.at = "wait" <=> TakesLock(c.op, c.fs)
  PROVE  /\ Append(q, c) \in Seq(Frames)
         /\ WellNested(Append(q, c))
         /\ ~Holds(q) /\ ~Holds(Append(q, c))
<1> DEFINE r == Append(q, c)
<1>1. /\ r \in Seq(Frames) /\ r # << >> /\ Len(r) = Len(q) + 1
      /\ \A i \in 1..Len(q) : r[i] = q[i]
      /\ r[Len(q) + 1] = c
  BY AppendProperties
<1>2. Len(q) \in Nat /\ (q # << >> => Len(q) \in 1..Len(q))
  BY EmptySeq, LenProperties
<1> HIDE DEF r
<1>3. ASSUME NEW i \in 1..Len(r)
      PROVE  /\ i < Len(r) => r[i].op \in WalkOps
             /\ r[i].at = "wait" => i = Len(r) /\ TakesLock(r[i].op, r[i].fs)
  <2>1. CASE i = Len(q) + 1
    BY <2>1, <1>1, <1>2
  <2>2. CASE i \in 1..Len(q)
    <3>1. r[i] = q[i] /\ q # << >>
      BY <2>2, <1>1, <1>2, EmptySeq
    <3>2. q[i].op \in WalkOps
      BY <2>2, <3>1, <1>2 DEF WellNested
    <3>3. q[i].at # "wait"
      BY <2>2, <3>2 DEF WellNested, TakesLock, WalkOps, LockedOps
    <3> QED BY <3>1, <3>2, <3>3
  <2> QED BY <2>1, <2>2, <1>1, <1>2
<1>4. WellNested(r)
  BY <1>3 DEF WellNested
<1>5. ~Holds(q)
  BY DEF Holds, TakesLock, WalkOps, LockedOps
<1>6. ~Holds(r)
  BY <1>1, <1>2 DEF Holds, Frames
<1> QED BY <1>1, <1>4, <1>5, <1>6 DEF r

\* A sequence without its last element.
LEMMA FrontOfSeq ==
  ASSUME NEW S, NEW q \in Seq(S), q # << >>
  PROVE  /\ Len(q) \in Nat /\ Len(q) >= 1
         /\ SubSeq(q, 1, Len(q) - 1) \in Seq(S)
         /\ Len(SubSeq(q, 1, Len(q) - 1)) = Len(q) - 1
         /\ \A i \in 1..(Len(q) - 1) : SubSeq(q, 1, Len(q) - 1)[i] = q[i]
<1> DEFINE n == Len(q) - 1
<1>1. Len(q) \in Nat /\ Len(q) >= 1
  BY EmptySeq, LenProperties
<1>2. n \in Nat /\ \A i \in 1..n : q[i] \in S
  BY <1>1, ElementOfSeq
<1>3. 1 \in Int /\ n \in Int /\ n - 1 + 1 = n
  BY <1>2
<1> HIDE DEF n
<1>4. /\ SubSeq(q, 1, n) \in Seq(S)
      /\ Len(SubSeq(q, 1, n)) = IF 1 <= n THEN n - 1 + 1 ELSE 0
      /\ \A i \in 1..(n - 1 + 1) : SubSeq(q, 1, n)[i] = q[1 + i - 1]
  BY <1>2, <1>3, SubSeqProperties
<1>5. Len(SubSeq(q, 1, n)) = n /\ \A i \in 1..n : SubSeq(q, 1, n)[i] = q[i]
  BY <1>2, <1>3, <1>4
<1> QED BY <1>1, <1>4, <1>5 DEF n

\* Ending the innermost call uncovers a walk, which holds nothing.
LEMMA PopStack ==
  ASSUME NEW q \in Seq(Frames), WellNested(q), q # << >>
  PROVE  LET r == SubSeq(q, 1, Len(q) - 1)
         IN  r \in Seq(Frames) /\ WellNested(r) /\ ~Holds(r)
<1> DEFINE r == SubSeq(q, 1, Len(q) - 1)
<1>1. Len(q) \in Nat /\ Len(q) >= 1
  BY EmptySeq, LenProperties
<1>3. /\ r \in Seq(Frames) /\ Len(r) = Len(q) - 1
      /\ \A i \in 1..(Len(q) - 1) : r[i] = q[i]
  BY FrontOfSeq
<1> HIDE DEF r
<1>4. \A i \in 1..Len(r) : r[i] = q[i] /\ i < Len(q) /\ i \in 1..Len(q)
  BY <1>1, <1>3
<1>5. \A i \in 1..Len(r) : r[i].op \in WalkOps /\ r[i].at # "wait"
  BY <1>4 DEF WellNested, TakesLock, WalkOps, LockedOps
<1>6. WellNested(r)
  BY <1>5 DEF WellNested
<1>7. ~Holds(r)
  BY <1>3, <1>5, EmptySeq, LenProperties DEF Holds, TakesLock, WalkOps, LockedOps
<1> QED BY <1>3, <1>6, <1>7 DEF r

\* When Wait returns, the innermost call becomes a holder.
LEMMA EnterStack ==
  ASSUME NEW q \in Seq(Frames), WellNested(q), q # << >>, q[Len(q)].at = "wait",
         NEW c \in Frames, c.at = "native",
         c.op = q[Len(q)].op, c.fs = q[Len(q)].fs
  PROVE  LET r == Append(SubSeq(q, 1, Len(q) - 1), c)
         IN  r \in Seq(Frames) /\ WellNested(r) /\ Holds(r) /\ ~Holds(q)
<1> DEFINE p == SubSeq(q, 1, Len(q) - 1)
           r == Append(p, c)
<1>1. Len(q) \in Nat /\ Len(q) >= 1
  BY EmptySeq, LenProperties
<1>3. /\ p \in Seq(Frames) /\ Len(p) = Len(q) - 1
      /\ \A i \in 1..(Len(q) - 1) : p[i] = q[i]
  BY FrontOfSeq
<1> HIDE DEF p
<1>4. /\ r \in Seq(Frames) /\ r # << >> /\ Len(r) = Len(q)
      /\ \A i \in 1..(Len(q) - 1) : r[i] = q[i]
      /\ r[Len(q)] = c
  BY <1>1, <1>3, AppendProperties
<1> HIDE DEF r
<1>5. TakesLock(c.op, c.fs)
  BY <1>1 DEF WellNested
<1>6. ASSUME NEW i \in 1..Len(r)
      PROVE  /\ i < Len(r) => r[i].op \in WalkOps
             /\ r[i].at = "wait" => i = Len(r) /\ TakesLock(r[i].op, r[i].fs)
  <2>1. CASE i = Len(q)
    BY <2>1, <1>4, <1>1
  <2>2. CASE i \in 1..(Len(q) - 1)
    <3>1. r[i] = q[i] /\ i < Len(q) /\ i \in 1..Len(q)
      BY <2>2, <1>4, <1>1
    <3> QED BY <3>1, <1>4, <1>1 DEF WellNested
  <2> QED BY <2>1, <2>2, <1>4, <1>1
<1>7. WellNested(r)
  BY <1>6 DEF WellNested
<1>8. Holds(r) /\ ~Holds(q)
  BY <1>4, <1>5 DEF Holds
<1> QED BY <1>4, <1>7, <1>8 DEF r, p

-----------------------------------------------------------------------------
(* The inductive invariant *)

LEMMA HoldingDef == \A t \in Threads : Holding(t) <=> Holds(stack[t])
  BY DEF Holding, At, Idle, Top, Holds

LEMMA HoldingDefPrimed ==
  \A t \in Threads : Holding(t)' <=> Holds(stack'[t])
  BY DEF Holding, At, Idle, Top, Holds

\* The part of the invariant that a step changes, when thread t gets stack r.
LEMMA StackStep ==
  ASSUME IInv, NEW t \in Threads, NEW r \in Seq(Frames), WellNested(r),
         stack' = [stack EXCEPT ![t] = r],
         permits' \in Nat, lost' \in BOOLEAN,
         fsState' \in [FileSystems -> {"none", "open", "disposed"}],
         fileState' \in [Files -> {"none", "opening", "open", "disposed"}],
         \/ /\ ~Holds(stack[t]) /\ ~Holds(r)
            /\ permits' = permits /\ lost' = lost
         \/ /\ ~Holds(stack[t]) /\ Holds(r)
            /\ permits > 0 /\ permits' = permits - 1 /\ lost' = lost
         \/ /\ Holds(stack[t]) /\ ~Holds(r)
            /\ permits' = permits + 1 /\ lost' = lost
         \/ /\ Holds(stack[t]) /\ ~Holds(r)
            /\ permits' = permits /\ lost' = TRUE
  PROVE  IInv'
<1>1. stack \in [Threads -> Seq(Frames)]
  BY DEF IInv, TypeOK
<1>2. /\ stack'[t] = r
      /\ \A u \in Threads : u # t => stack'[u] = stack[u]
      /\ stack' \in [Threads -> Seq(Frames)]
  BY <1>1
<1>3. TypeOK'
  BY <1>2 DEF TypeOK
<1>4. Nested'
  <2>1. \A u \in Threads : WellNested(stack'[u])
    BY <1>2 DEF IInv, Nested
  <2> QED BY <2>1 DEF Nested, WellNested
<1>5. /\ permits \in {0, 1}
      /\ (permits = 1) <=> (lost = FALSE /\ \A u \in Threads : ~Holds(stack[u]))
      /\ lost = TRUE => \A u \in Threads : ~Holds(stack[u])
      /\ \A u, v \in Threads : Holds(stack[u]) /\ Holds(stack[v]) => u = v
      /\ lost \in BOOLEAN
  BY HoldingDef DEF IInv, TypeOK, PermitConserved, LockedCallsExclude
<1>6. /\ permits' \in {0, 1}
      /\ (permits' = 1) <=> (lost' = FALSE /\ \A u \in Threads : ~Holds(stack'[u]))
      /\ lost' = TRUE => \A u \in Threads : ~Holds(stack'[u])
      /\ \A u, v \in Threads : Holds(stack'[u]) /\ Holds(stack'[v]) => u = v
  <2>1. CASE ~Holds(stack[t]) /\ ~Holds(r) /\ permits' = permits /\ lost' = lost
    BY <2>1, <1>2, <1>5
  <2>2. CASE /\ ~Holds(stack[t]) /\ Holds(r)
             /\ permits > 0 /\ permits' = permits - 1 /\ lost' = lost
    BY <2>2, <1>2, <1>5
  <2>3. CASE /\ Holds(stack[t]) /\ ~Holds(r)
             /\ permits' = permits + 1 /\ lost' = lost
    BY <2>3, <1>2, <1>5
  <2>4. CASE /\ Holds(stack[t]) /\ ~Holds(r)
             /\ permits' = permits /\ lost' = TRUE
    BY <2>4, <1>2, <1>5
  <2> QED BY <2>1, <2>2, <2>3, <2>4
<1>7. PermitConserved' /\ LockedCallsExclude'
  BY <1>6, HoldingDefPrimed DEF PermitConserved, LockedCallsExclude
<1> QED BY <1>3, <1>4, <1>7 DEF IInv

\* A call that starts is legal to push.
LEMMA CallStep ==
  ASSUME IInv, NEW t \in Threads, Call(t)
  PROVE  IInv'
<1>1. PICK op \in Ops, s \in FileSystems, f \in Files \cup {NoFile} : Push(t, op, s, f)
  BY FsOfAssumption DEF Call, CallOpenFs, CallOpenFile, CallFileOp, CallUnlocked,
       Ops, LockedOps, WalkOps, PlainOps, FileOps
<1> DEFINE waits == TakesLock(op, s)
           c == [op |-> op, fs |-> s, file |-> f,
                 at |-> IF waits THEN "wait" ELSE "native",
                 fails |-> ~waits /\ BadHandle(op, s, f)]
<1>2. stack[t] \in Seq(Frames) /\ WellNested(stack[t])
  BY DEF IInv, TypeOK, Nested
<1>3. c \in Frames
  BY DEF Frames
<1>4. c.at = "wait" <=> TakesLock(c.op, c.fs)
  OBVIOUS
<1>5. stack[t] = << >> \/ stack[t][Len(stack[t])].op \in WalkOps
  BY <1>1 DEF Push, InManaged, Idle, At, Top
<1>6. stack' = [stack EXCEPT ![t] = Append(@, c)]
  BY <1>1 DEF Push
<1>7. stack' = [stack EXCEPT ![t] = Append(stack[t], c)]
  BY <1>6
<1>8. /\ Append(stack[t], c) \in Seq(Frames)
      /\ WellNested(Append(stack[t], c))
      /\ ~Holds(stack[t]) /\ ~Holds(Append(stack[t], c))
  BY <1>2, <1>3, <1>4, <1>5, PushStack
<1>9. /\ permits' = permits /\ lost' = lost
      /\ fsState' = fsState
      /\ fileState' \in [Files -> {"none", "opening", "open", "disposed"}]
  BY DEF Call, CallOpenFs, CallOpenFile, CallFileOp, CallUnlocked, IInv, TypeOK
<1> HIDE DEF c, waits
<1>10. /\ permits' \in Nat /\ lost' \in BOOLEAN
       /\ fsState' \in [FileSystems -> {"none", "open", "disposed"}]
  BY <1>9 DEF IInv, TypeOK
<1> QED BY <1>7, <1>8, <1>9, <1>10, StackStep

LEMMA WaitStep ==
  ASSUME IInv, NEW t \in Threads, WaitForLockWhenWithinPool(t)
  PROVE  IInv'
<1> DEFINE q == stack[t]
           c == Entered(Top(t))
           r == Append(SubSeq(q, 1, Len(q) - 1), c)
<1>1. q \in Seq(Frames) /\ WellNested(q) /\ q # << >> /\ q[Len(q)].at = "wait"
  BY DEF IInv, TypeOK, Nested, WaitForLockWhenWithinPool, Waiting, At, Idle, Top
<1>2. q[Len(q)] \in Frames
  BY <1>1, FrontOfSeq, ElementOfSeq
<1>3. c \in Frames /\ c.at = "native" /\ c.op = q[Len(q)].op /\ c.fs = q[Len(q)].fs
  <2>1. BadHandle(q[Len(q)].op, q[Len(q)].fs, q[Len(q)].file) \in BOOLEAN
    BY DEF BadHandle
  <2> QED BY <1>2, <2>1 DEF Entered, Top, Frames
<1>4. stack' = [stack EXCEPT ![t] = r]
  BY DEF WaitForLockWhenWithinPool, Pop
<1> HIDE DEF c
<1>5. r \in Seq(Frames) /\ WellNested(r) /\ Holds(r) /\ ~Holds(q)
  BY <1>1, <1>3, EnterStack
<1>6. /\ permits > 0 /\ permits' = permits - 1 /\ lost' = lost
      /\ fsState' = fsState /\ fileState' = fileState
  BY DEF WaitForLockWhenWithinPool
<1>7. /\ permits' \in Nat /\ lost' \in BOOLEAN
      /\ fsState' \in [FileSystems -> {"none", "open", "disposed"}]
      /\ fileState' \in [Files -> {"none", "opening", "open", "disposed"}]
  BY <1>6 DEF IInv, TypeOK
<1> HIDE DEF q, r
<1> QED BY <1>4, <1>5, <1>6, <1>7, StackStep DEF q

LEMMA FinishStep ==
  ASSUME IInv, NEW t \in Threads, Finish(t)
  PROVE  IInv'
<1> DEFINE q == stack[t]
           r == SubSeq(q, 1, Len(q) - 1)
<1>1. q \in Seq(Frames) /\ WellNested(q) /\ q # << >> /\ q[Len(q)].at = "native"
  BY DEF IInv, TypeOK, Nested, Finish, Return, Throw, At, Idle, Top
<1>2. r \in Seq(Frames) /\ WellNested(r) /\ ~Holds(r)
  BY <1>1, PopStack
<1>3. stack' = [stack EXCEPT ![t] = r]
  BY DEF Finish, Return, Throw, Pop
<1>4. permits \in Nat /\ lost \in BOOLEAN
  BY DEF IInv, TypeOK
<1>5. Holds(q) <=> TakesLock(Top(t).op, Top(t).fs)
  BY <1>1 DEF Holds, Top
<1>6. \/ ~Holds(q) /\ permits' = permits /\ lost' = lost
      \/ Holds(q) /\ permits' = permits + 1 /\ lost' = lost
      \/ Holds(q) /\ permits' = permits /\ lost' = TRUE
  <2>1. CASE Return(t)
    BY <2>1, <1>5 DEF Return, ReleaseLockWhenWithinPool
  <2>2. CASE Throw(t)
    BY <2>2, <1>5 DEF Throw, ReleaseLockWhenWithinPool
  <2> QED BY <2>1, <2>2 DEF Finish
<1>7. permits' \in Nat /\ lost' \in BOOLEAN
  <2>1. permits' = permits \/ permits' = permits + 1
    BY <1>6
  <2>2. lost' = lost \/ lost' = TRUE
    BY <1>6
  <2>3. permits' \in Nat
    BY <1>4, <2>1
  <2>4. lost' \in BOOLEAN
    BY <1>4, <2>2
  <2> QED BY <2>3, <2>4
<1>8. /\ fsState' \in [FileSystems -> {"none", "open", "disposed"}]
      /\ fileState' \in [Files -> {"none", "opening", "open", "disposed"}]
  BY DEF Finish, Return, Throw, IInv, TypeOK
<1> HIDE DEF q, r
<1> QED BY <1>2, <1>3, <1>6, <1>7, <1>8, StackStep DEF q

\* The invariant holds initially and every step keeps it.
THEOREM InductiveInvariant == Spec => []IInv
<1>1. Init => IInv
  <2> SUFFICES ASSUME Init PROVE IInv
    OBVIOUS
  <2>1. << >> \in Seq(Frames) /\ Len(<< >>) = 0
    BY EmptySeq
  <2>2. TypeOK
    BY <2>1 DEF Init, TypeOK
  <2>3. Nested
    BY <2>1 DEF Init, Nested, WellNested
  <2>4. \A t \in Threads : ~Holding(t)
    BY DEF Init, Holding, At, Idle
  <2>5. PermitConserved /\ LockedCallsExclude
    BY <2>4 DEF Init, PermitConserved, LockedCallsExclude
  <2> QED BY <2>2, <2>3, <2>5 DEF IInv
<1>2. IInv /\ [Next]_vars => IInv'
  <2>1. ASSUME IInv, Next PROVE IInv'
    <3>1. PICK t \in Threads : Call(t) \/ WaitForLockWhenWithinPool(t) \/ Finish(t)
      BY <2>1 DEF Next
    <3> QED BY <2>1, <3>1, CallStep, WaitStep, FinishStep
  <2>2. ASSUME IInv, UNCHANGED vars PROVE IInv'
    BY <2>2 DEF vars, IInv, TypeOK, Nested, WellNested, PermitConserved,
         LockedCallsExclude, Holding, At, Idle, Top
  <2> QED BY <2>1, <2>2
<1> QED BY <1>1, <1>2, PTL DEF Spec

-----------------------------------------------------------------------------
(* What a user of the wrapper relies on *)

\* However many threads, files and callbacks, the state keeps its types.
THEOREM TypeCorrect == Spec => []TypeOK
<1>1. IInv => TypeOK
  BY DEF IInv
<1> QED BY <1>1, InductiveInvariant, PTL

\* Two threads are never both in a native call that took the pool lock, not
\* even after exceptions, double disposals and calls from callbacks.
THEOREM MutualExclusion == Spec => []LockedCallsExclude
<1>1. IInv => LockedCallsExclude
  BY DEF IInv
<1> QED BY <1>1, InductiveInvariant, PTL

\* The permit is in the semaphore, with one call, or lost for good: no
\* sequence of calls releases it twice.
THEOREM PermitConservation == Spec => []PermitConserved
<1>1. IInv => PermitConserved
  BY DEF IInv
<1> QED BY <1>1, InductiveInvariant, PTL

\* A callback at any depth may call a locking operation: no outer call on
\* its thread's stack holds the lock.
THEOREM CallbacksMayLock == Spec => []NoSelfDeadlock
<1>1. IInv => NoSelfDeadlock
  BY DEF IInv, Nested, WellNested, NoSelfDeadlock, TakesLock, WalkOps, LockedOps
<1> QED BY <1>1, InductiveInvariant, PTL

-----------------------------------------------------------------------------
(* Which calls can lose the permit.  A second Dispose fails because its file
   is disposed, and the file stays disposed until that call has ended: it can
   be opened again only when no call is about it. *)

Innermost(q, op, f) == q # << >> /\ q[Len(q)].op = op /\ q[Len(q)].file = f

Fails(q) == q[Len(q)].at = "native" /\ q[Len(q)].fails

\* The innermost call of stack q agrees with state st of file f.
Fits(q, f, st) ==
  /\ Innermost(q, "OpenFile", f) => st = "opening"
  /\ Innermost(q, "DisposeFile", f) => st # "opening" /\ (Fails(q) => st = "disposed")

\* A call that opens or disposes a file names one.
NamesItsFile(q) ==
  q # << >> /\ q[Len(q)].op \in {"OpenFile", "DisposeFile"} => q[Len(q)].file \in Files

FilesInUse ==
  /\ \A t \in Threads : NamesItsFile(stack[t])
  /\ \A t \in Threads, f \in Files : Fits(stack[t], f, fileState[f])
  /\ \A t, u \in Threads, f \in Files :
       Innermost(stack[t], "OpenFile", f) /\ Innermost(stack[u], "OpenFile", f) => t = u

\* What a step must show when thread t gets stack r.
LEMMA FilesStep ==
  ASSUME FilesInUse, stack \in [Threads -> Seq(Frames)],
         NEW t \in Threads, NEW r, stack' = [stack EXCEPT ![t] = r],
         NamesItsFile(r),
         \A f \in Files : Fits(r, f, fileState'[f]),
         \A u \in Threads \ {t}, f \in Files : Fits(stack[u], f, fileState'[f]),
         \A u \in Threads \ {t}, f \in Files :
           ~(Innermost(r, "OpenFile", f) /\ Innermost(stack[u], "OpenFile", f))
  PROVE  FilesInUse'
<1>1. stack'[t] = r /\ \A u \in Threads : u # t => stack'[u] = stack[u]
  OBVIOUS
<1>2. \A u \in Threads : NamesItsFile(stack'[u])
  BY <1>1 DEF FilesInUse
<1>3. \A u \in Threads, f \in Files : Fits(stack'[u], f, fileState'[f])
  BY <1>1
<1>4. \A u, v \in Threads, f \in Files :
        Innermost(stack'[u], "OpenFile", f) /\ Innermost(stack'[v], "OpenFile", f) => u = v
  BY <1>1 DEF FilesInUse
<1> QED
  BY <1>2, <1>3, <1>4 DEF FilesInUse, NamesItsFile, Fits, Innermost, Fails

\* The top of a stack after a push, and after a pop.
LEMMA TopOfAppend ==
  ASSUME NEW q \in Seq(Frames), NEW c \in Frames
  PROVE  Append(q, c) # << >> /\ Append(q, c)[Len(Append(q, c))] = c
BY AppendProperties

LEMMA PoppedFits ==
  ASSUME NEW q \in Seq(Frames), WellNested(q), q # << >>, NEW f
  PROVE  LET r == SubSeq(q, 1, Len(q) - 1)
         IN  /\ NamesItsFile(r)
             /\ ~Innermost(r, "OpenFile", f) /\ ~Innermost(r, "DisposeFile", f)
<1> DEFINE r == SubSeq(q, 1, Len(q) - 1)
<1>1. /\ Len(q) \in Nat /\ Len(q) >= 1
      /\ r \in Seq(Frames) /\ Len(r) = Len(q) - 1
      /\ \A i \in 1..(Len(q) - 1) : r[i] = q[i]
  BY FrontOfSeq
<1> HIDE DEF r
<1>2. ASSUME r # << >> PROVE r[Len(r)].op \in WalkOps
  <2>1. Len(r) \in 1..(Len(q) - 1)
    BY <1>1, <1>2, EmptySeq
  <2>2. r[Len(r)] = q[Len(r)] /\ Len(r) < Len(q) /\ Len(r) \in 1..Len(q)
    BY <1>1, <2>1
  <2> QED BY <2>2 DEF WellNested
<1> QED BY <1>2 DEF NamesItsFile, Innermost, WalkOps, r

LEMMA FilesCall ==
  ASSUME IInv, FilesInUse, NEW t \in Threads, Call(t)
  PROVE  FilesInUse'
<1>1. stack \in [Threads -> Seq(Frames)]
      /\ fileState \in [Files -> {"none", "opening", "open", "disposed"}]
  BY DEF IInv, TypeOK
<1>2. ASSUME NEW op \in Ops, NEW s \in FileSystems, NEW f \in Files \cup {NoFile},
             Push(t, op, s, f),
             op \in {"OpenFile", "DisposeFile"} => f \in Files,
             \/ /\ op = "OpenFile" /\ fileState' = [fileState EXCEPT ![f] = "opening"]
                /\ \A u \in Threads : ~Mentions(u, f)
             \/ /\ op = "DisposeFile" /\ fileState' = fileState
                /\ fileState[f] \in {"open", "disposed"}
             \/ op \notin {"OpenFile", "DisposeFile"} /\ fileState' = fileState
      PROVE  FilesInUse'
  <2> DEFINE waits == TakesLock(op, s)
             c == [op |-> op, fs |-> s, file |-> f,
                   at |-> IF waits THEN "wait" ELSE "native",
                   fails |-> ~waits /\ BadHandle(op, s, f)]
             r == Append(stack[t], c)
  <2>1. c \in Frames /\ c.op = op /\ c.file = f
        /\ (c.fails = TRUE => BadHandle(op, s, f)) /\ c.fails \in BOOLEAN
    BY DEF Frames, BadHandle
  <2>2. stack' = [stack EXCEPT ![t] = r]
    <3>1. stack' = [stack EXCEPT ![t] = Append(@, c)]
      BY <1>2 DEF Push
    <3> QED BY <3>1
  <2> HIDE DEF c
  <2>3. r # << >> /\ r[Len(r)] = c
    BY <1>1, <2>1, TopOfAppend
  <2> HIDE DEF r
  <2>4. NamesItsFile(r)
    BY <2>1, <2>3, <1>2 DEF NamesItsFile
  <2>5. \A g \in Files : Fits(r, g, fileState'[g])
    BY <2>1, <2>3, <1>2, <1>1, NoFileAssumption DEF Fits, Innermost, Fails, BadHandle, FileOps
  <2>6. \A u \in Threads, g \in Files :
          op = "OpenFile" /\ g = f => ~Innermost(stack[u], "OpenFile", g)
                                      /\ ~Innermost(stack[u], "DisposeFile", g)
    <3> SUFFICES ASSUME NEW u \in Threads, op = "OpenFile", f \in Files, stack[u] # << >>
                 PROVE  stack[u][Len(stack[u])].file # f
      BY DEF Innermost
    <3>1. Len(stack[u]) \in 1..Len(stack[u])
      BY <1>1, EmptySeq, LenProperties
    <3> QED BY <3>1, <1>2 DEF Mentions
  <2>7. \A u \in Threads \ {t}, g \in Files : Fits(stack[u], g, fileState'[g])
    BY <2>6, <1>2, <1>1 DEF FilesInUse, Fits
  <2>8. \A u \in Threads \ {t}, g \in Files :
          ~(Innermost(r, "OpenFile", g) /\ Innermost(stack[u], "OpenFile", g))
    BY <2>1, <2>3, <2>6 DEF Innermost
  <2> QED BY <1>1, <2>2, <2>4, <2>5, <2>7, <2>8, FilesStep
<1>3. ASSUME NEW s \in FileSystems, CallOpenFs(t, s) PROVE FilesInUse'
  BY <1>2, <1>3 DEF CallOpenFs, Ops, LockedOps
<1>4. ASSUME NEW f \in Files, CallOpenFile(t, f) PROVE FilesInUse'
  BY <1>2, <1>4, FsOfAssumption DEF CallOpenFile, Ops, LockedOps
<1>5. ASSUME NEW op \in FileOps, NEW f \in Files, CallFileOp(t, op, f) PROVE FilesInUse'
  BY <1>2, <1>5, FsOfAssumption DEF CallFileOp, Ops, LockedOps, FileOps, WalkOps
<1>6. ASSUME NEW op \in Ops, NEW s \in FileSystems, CallUnlocked(t, op, s)
      PROVE  FilesInUse'
  BY <1>2, <1>6 DEF CallUnlocked, Ops, LockedOps, FileOps, WalkOps, PlainOps
<1> QED BY <1>3, <1>4, <1>5, <1>6 DEF Call

LEMMA FilesWait ==
  ASSUME IInv, FilesInUse, NEW t \in Threads, WaitForLockWhenWithinPool(t)
  PROVE  FilesInUse'
<1> DEFINE q == stack[t]
           b == q[Len(q)]
           c == Entered(b)
           p == SubSeq(q, 1, Len(q) - 1)
           r == Append(p, c)
<1>1. /\ stack \in [Threads -> Seq(Frames)] /\ q \in Seq(Frames) /\ q # << >>
      /\ fileState' = fileState
  BY DEF IInv, TypeOK, WaitForLockWhenWithinPool, Waiting, At, Idle
<1>2. b \in Frames /\ p \in Seq(Frames)
  BY <1>1, FrontOfSeq, ElementOfSeq
<1>3. /\ c \in Frames /\ c.op = b.op /\ c.file = b.file
      /\ c.fails = TRUE => BadHandle(b.op, b.fs, b.file)
      /\ c.fails \in BOOLEAN
  <2>1. BadHandle(b.op, b.fs, b.file) \in BOOLEAN
    BY DEF BadHandle
  <2> QED BY <1>2, <2>1 DEF Entered, Frames
<1>4. stack' = [stack EXCEPT ![t] = r]
  BY DEF WaitForLockWhenWithinPool, Pop, Top
<1>5. r # << >> /\ r[Len(r)] = c
  BY <1>2, <1>3, TopOfAppend
<1> HIDE DEF r, c, p
<1>6. NamesItsFile(q) /\ \A f \in Files : Fits(q, f, fileState[f])
  BY DEF FilesInUse
<1>7. NamesItsFile(r)
  BY <1>1, <1>3, <1>5, <1>6 DEF NamesItsFile
<1>8. \A f \in Files : Fits(r, f, fileState'[f])
  BY <1>1, <1>3, <1>5, <1>6 DEF Fits, Innermost, Fails, BadHandle, FileOps
<1>9. \A u \in Threads \ {t}, f \in Files :
        /\ Fits(stack[u], f, fileState'[f])
        /\ ~(Innermost(r, "OpenFile", f) /\ Innermost(stack[u], "OpenFile", f))
  BY <1>1, <1>3, <1>5 DEF FilesInUse, Innermost
<1> QED BY <1>1, <1>4, <1>7, <1>8, <1>9, FilesStep

LEMMA FilesFinish ==
  ASSUME IInv, FilesInUse, NEW t \in Threads, Finish(t)
  PROVE  FilesInUse'
<1> DEFINE q == stack[t]
           b == q[Len(q)]
           r == SubSeq(q, 1, Len(q) - 1)
<1>1. /\ stack \in [Threads -> Seq(Frames)] /\ q \in Seq(Frames) /\ q # << >>
      /\ WellNested(q)
      /\ fileState \in [Files -> {"none", "opening", "open", "disposed"}]
  BY DEF IInv, TypeOK, Nested, Finish, Return, Throw, At, Idle
<1>2. stack' = [stack EXCEPT ![t] = r]
  BY DEF Finish, Return, Throw, Pop
<1>3. NamesItsFile(r) /\ \A f \in Files : ~Innermost(r, "OpenFile", f)
                                          /\ ~Innermost(r, "DisposeFile", f)
  BY <1>1, PoppedFits
<1> HIDE DEF r
<1>4. \/ fileState' = fileState
      \/ b.op = "OpenFile" /\ \E v \in {"open", "none"} :
           fileState' = [fileState EXCEPT ![b.file] = v]
      \/ b.op = "DisposeFile" /\ fileState' = [fileState EXCEPT ![b.file] = "disposed"]
  BY DEF Finish, Return, Throw, Top
<1>5. \A u \in Threads \ {t}, f \in Files : Fits(stack[u], f, fileState'[f])
  <2> SUFFICES ASSUME NEW u \in Threads \ {t}, NEW f \in Files
               PROVE  Fits(stack[u], f, fileState'[f])
    OBVIOUS
  <2>1. Fits(stack[u], f, fileState[f]) /\ Fits(q, f, fileState[f])
    BY DEF FilesInUse
  <2>2. CASE b.op = "OpenFile" /\ b.file = f
    <3>1. fileState[f] = "opening" /\ ~Innermost(stack[u], "OpenFile", f)
      BY <2>1, <2>2, <1>1 DEF Fits, Innermost, FilesInUse
    <3> QED BY <3>1, <2>1 DEF Fits
  <2>3. CASE b.op = "DisposeFile" /\ b.file = f
    <3>1. fileState[f] # "opening"
      BY <2>1, <2>3, <1>1 DEF Fits, Innermost
    <3>2. fileState'[f] = fileState[f] \/ fileState'[f] = "disposed"
      BY <2>3, <1>4, <1>1
    <3> QED BY <3>1, <3>2, <2>1 DEF Fits
  <2>4. CASE b.file # f \/ b.op \notin {"OpenFile", "DisposeFile"}
    <3>1. fileState'[f] = fileState[f]
      BY <2>4, <1>4, <1>1
    <3> QED BY <3>1, <2>1
  <2> QED BY <2>2, <2>3, <2>4
<1>6. \A f \in Files : Fits(r, f, fileState'[f])
  BY <1>3 DEF Fits
<1> QED BY <1>1, <1>2, <1>3, <1>5, <1>6, FilesStep

\* An exception takes the permit away only when it leaves OpenFile, or a
\* second Dispose of a file: the action property, for all threads, files and
\* depths of callbacks.
THEOREM LostPermits == Spec => LostOnlyByUnprotected
<1>1. Init => FilesInUse
  BY DEF Init, FilesInUse, NamesItsFile, Fits, Innermost
<1>2. IInv /\ FilesInUse /\ [Next]_vars => FilesInUse'
  <2>1. ASSUME IInv, FilesInUse, Next PROVE FilesInUse'
    <3>1. PICK t \in Threads : Call(t) \/ WaitForLockWhenWithinPool(t) \/ Finish(t)
      BY <2>1 DEF Next
    <3> QED BY <2>1, <3>1, FilesCall, FilesWait, FilesFinish
  <2>2. ASSUME FilesInUse, UNCHANGED vars PROVE FilesInUse'
    BY <2>2 DEF vars, FilesInUse, NamesItsFile, Fits, Innermost, Fails
  <2> QED BY <2>1, <2>2
<1> DEFINE Lost == ~lost /\ lost' =>
             \E t \in Threads :
               /\ Holding(t)
               /\ \/ Top(t).op = "OpenFile"
                  \/ Top(t).op = "DisposeFile" /\ fileState[Top(t).file] = "disposed"
<1>3. IInv /\ FilesInUse /\ [Next]_vars => Lost
  <2> SUFFICES ASSUME IInv, FilesInUse, [Next]_vars, ~lost, lost' PROVE Lost
    OBVIOUS
  <2>1. PICK t \in Threads : Throw(t)
    BY DEF Next, vars, Call, CallOpenFs, CallOpenFile, CallFileOp, CallUnlocked,
         WaitForLockWhenWithinPool, Finish, Return
  <2>2. TakesLock(Top(t).op, Top(t).fs) /\ Top(t).op \in {"OpenFile", "DisposeFile"}
    BY <2>1 DEF Throw, TakesLock, LockedOps, ProtectedOps
  <2>3. Holding(t)
    BY <2>1, <2>2 DEF Throw, Holding
  <2>4. ASSUME Top(t).op = "DisposeFile" PROVE fileState[Top(t).file] = "disposed"
    <3>1. Top(t).fails /\ Top(t).at = "native" /\ stack[t] # << >>
      BY <2>1, <2>4 DEF Throw, MayThrow, At, Idle
    <3>2. NamesItsFile(stack[t])
          /\ \A f \in Files : Fits(stack[t], f, fileState[f])
      BY DEF FilesInUse
    <3> QED BY <3>1, <3>2, <2>4 DEF NamesItsFile, Fits, Innermost, Fails, Top
  <2> QED BY <2>2, <2>3, <2>4
<1> QED BY <1>1, <1>2, <1>3, InductiveInvariant, PTL DEF Spec, LostOnlyByUnprotected
=============================================================================
