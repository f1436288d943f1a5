------------------------------ MODULE RunList ------------------------------
(***************************************************************************)
(* The run list of a non-resident attribute (sleuthkit/tsk/fs/fs_attr.cpp):*)
(* tsk_fs_attr_set_run and tsk_fs_attr_add_run put the runs of a file in   *)
(* the order of the file, whatever the order in which a file system parser *)
(* meets them, and keep fillers where runs are still missing.  NTFS meets  *)
(* them in the order of the MFT entries that hold them, one chain of       *)
(* consecutive runs for each entry.                                        *)
(*                                                                         *)
(* The linked list is a sequence, and a pointer into it is a position.     *)
(***************************************************************************)
EXTENDS Integers, SequencesExt

CONSTANTS
  Chains,   \* chains of consecutive runs that are added
  Modulus   \* 2^64, of the block counts

NoAddr == 0

RunKinds == {"data", "sparse", "filler"}
Runs == [offset : Nat, len : Nat, addr : Nat, kind : RunKinds]

EndOf(r) == r.offset + r.len

\* What the code computes of it.
WrappedEnd(r) == EndOf(r) % Modulus

\* Each run begins where the one before it ends.
Joined(c) == \A i \in 2..Len(c) : c[i].offset = EndOf(c[i - 1])

\* What is assumed of the constants.
ChainsAreRuns ==
  \A c \in Chains :
    /\ c \in Seq(Runs) /\ c # << >> /\ Joined(c)
    /\ \A i \in 1..Len(c) : c[i].len > 0 /\ c[i].kind # "filler" /\ EndOf(c[i]) < Modulus
ModulusIsPositive == Modulus \in Nat \ {0}

VARIABLES
  set,      \* tsk_fs_attr_set_run has been called
  runs,     \* nrd.run and what follows it
  end,      \* position of nrd.run_end, 0 when NULL
  failed    \* the last call returned 1

\* Histories, which the code does not keep.
VARIABLES
  given,    \* the chains that calls were given
  misplaced \* a rest of a filler was left behind a chain of several runs

vars == <<set, runs, end, failed, given, misplaced>>

Filler(from, to) == [offset |-> from, len |-> to - from, addr |-> NoAddr, kind |-> "filler"]

-----------------------------------------------------------------------------
(* Where a chain goes *)

First(c) == c[1].offset

\* run_len
Blocks(c) == EndOf(Last(c)) - First(c)

\* It begins where the list ends.
AtEnd(c) == end # 0 /\ WrappedEnd(runs[end]) = First(c)

\* Mutant: only a filler that goes on behind the chain is a place for it.
StopsAtLarger(k, c) ==
  runs[k].kind = "filler" /\ (runs[k].offset > First(c) \/ WrappedEnd(runs[k]) > EndOf(Last(c)))

\* The fillers at which the search ends: they lie behind the chain's beginning,
\* or hold it.
StopsAt(k, c) ==
  runs[k].kind = "filler" /\ (runs[k].offset > First(c) \/ WrappedEnd(runs[k]) > First(c))

\* The place of the chain: the first of these.
IsPlace(k, c) == StopsAt(k, c) /\ \A j \in 1..(k - 1) : ~StopsAt(j, c)

NoPlace(c) == \A k \in 1..Len(runs) : ~StopsAt(k, c)

-----------------------------------------------------------------------------
(* tsk_fs_attr_set_run *)

SetRun(c) ==
  /\ ~set
  /\ runs' = IF First(c) = 0 THEN c ELSE <<Filler(0, First(c))>> \o c
  /\ end' = Len(runs')
  /\ set' = TRUE /\ failed' = FALSE /\ given' = {c}
  /\ UNCHANGED misplaced

\* The odd case of an attribute without runs.
SetNoRun ==
  /\ ~set
  /\ runs' = << >> /\ end' = 0
  /\ set' = TRUE /\ failed' = FALSE /\ given' = {}
  /\ UNCHANGED misplaced

-----------------------------------------------------------------------------
(* tsk_fs_attr_add_run *)

Adds(c) == set /\ given' = given \cup {c} /\ UNCHANGED set

AppendAtEnd(c) ==
  /\ Adds(c) /\ AtEnd(c)
  /\ runs' = SubSeq(runs, 1, end) \o c
  /\ end' = Len(runs')
  /\ failed' = FALSE
  /\ UNCHANGED misplaced

FillerBehind(c) ==
  /\ Adds(c) /\ ~AtEnd(c)
  /\ \E k \in 1..Len(runs) : IsPlace(k, c) /\ runs[k].offset > First(c)
  /\ failed' = TRUE
  /\ UNCHANGED <<runs, end, misplaced>>

\* Mutant: the filler that remains keeps the offset it had.
RestSameOffset(k, c) ==
  LET left == runs[k].len - (First(c) - runs[k].offset)
  IN [runs[k] EXCEPT !.len = (left - Blocks(c)) % Modulus]

\* What remains of the filler at k behind the chain.
Rest(k, c) ==
  LET left == runs[k].len - (First(c) - runs[k].offset)
  IN [runs[k] EXCEPT !.len = (left - Blocks(c)) % Modulus,
                     !.offset = First(c) + c[1].len]

\* run_end when the runs new replace the filler at k.
EndAfter(k, new) == IF end >= k THEN end + Len(new) - 1 ELSE end

Following(k) == SubSeq(runs, k + 1, Len(runs))

\* The chain takes the place of a filler, or of a part of it.
IntoFiller(c) ==
  /\ Adds(c) /\ ~AtEnd(c)
  /\ \E k \in 1..Len(runs) :
       LET f      == runs[k]
           before == IF f.offset = First(c) THEN << >> ELSE <<Filler(f.offset, First(c))>>
           after  == IF EndOf(f) = First(c) + Blocks(c) THEN << >> ELSE <<Rest(k, c)>>
           new    == before \o c \o after
       IN /\ IsPlace(k, c) /\ f.offset <= First(c)
          /\ runs' = SubSeq(runs, 1, k - 1) \o new \o Following(k)
          /\ end' = EndAfter(k, new)
          /\ misplaced' = (misplaced \/ (after # << >> /\ Len(c) > 1))
  /\ failed' = FALSE

Behind == IF runs = << >> THEN 0 ELSE WrappedEnd(Last(runs))

\* There is no filler and the list goes on past the chain's beginning: it is
\* a duplicate of the last run, or an error.
InTheList(c) ==
  /\ Adds(c) /\ ~AtEnd(c) /\ NoPlace(c)
  /\ runs # << >> /\ Behind > First(c)
  /\ failed' = ~(Last(runs).addr = c[1].addr /\ Last(runs).len = c[1].len)
  /\ UNCHANGED <<runs, end, misplaced>>

\* The chain begins behind the list, with a filler between when there is a gap.
PastTheEnd(c) ==
  /\ Adds(c) /\ ~AtEnd(c) /\ NoPlace(c) /\ Behind <= First(c)
  /\ runs' = runs \o (IF Behind = First(c) THEN << >> ELSE <<Filler(Behind, First(c))>>) \o c
  /\ end' = Len(runs')
  /\ failed' = FALSE
  /\ UNCHANGED misplaced

AddRun(c) == AppendAtEnd(c) \/ FillerBehind(c) \/ IntoFiller(c) \/ InTheList(c) \/ PastTheEnd(c)

-----------------------------------------------------------------------------
Init ==
  /\ set = FALSE /\ runs = << >> /\ end = 0 /\ failed = FALSE /\ given = {}
  /\ misplaced = FALSE

Next == SetNoRun \/ \E c \in Chains : SetRun(c) \/ AddRun(c)

Spec == Init /\ [][Next]_vars

-----------------------------------------------------------------------------
(* Properties *)

Sparse == -1   \* the place of a block that is not on the disk

\* The blocks of a file and where they are, as a chain or a list tells it.
Places(c) ==
  UNION {{[block |-> c[i].offset + n,
           addr  |-> IF c[i].kind = "sparse" THEN Sparse ELSE c[i].addr + n] :
            n \in 0..(c[i].len - 1)} :
         i \in {j \in 1..Len(c) : c[j].kind # "filler"}}

\* No two chains of G hold the same block.
Apart(G) ==
  \A c, d \in G : c # d => EndOf(Last(c)) <= First(d) \/ EndOf(Last(d)) <= First(c)

TypeOK ==
  /\ set \in BOOLEAN /\ failed \in BOOLEAN /\ misplaced \in BOOLEAN
  /\ runs \in Seq(Runs) /\ end \in 0..Len(runs)
  /\ given \subseteq Chains

\* The list covers the file from block 0 on without gap or overlap, whatever
\* the order in which its runs were added, so that tsk_fs_attr_read finds each
\* block once; this is what its loop takes for granted.
ListIsContiguous == runs # << >> => runs[1].offset = 0 /\ Joined(runs)

\* Nothing that was added is lost, moved or invented: outside of its fillers the
\* list holds the blocks of the chains it was given, and only what it holds
\* already is refused.
ListHoldsWhatWasGiven == Places(runs) = UNION {Places(c) : c \in given}
=============================================================================
