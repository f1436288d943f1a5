----------------------------- MODULE MCPoolLock -----------------------------
(* Small instances of PoolLock. *)
EXTENDS PoolLock, TLC

CONSTANTS t1, t2, s1, n1, f1

MCFsOneFile  == (f1 :> s1)
=============================================================================
