----------------------------- MODULE MCRunList -----------------------------
(* Small instances of RunList: a file whose runs come in several chains,     *)
(* each to be found in another MFT entry.                                    *)
EXTENDS RunList

Run(offset, len, addr) == [offset |-> offset, len |-> len, addr |-> addr, kind |-> "data"]

\* A file of ten blocks; its first and its third chain have two runs.
MCChains ==
  {<<Run(0, 1, 40), Run(1, 2, 20)>>, <<Run(3, 1, 60)>>, <<Run(4, 3, 10), Run(7, 1, 50)>>,
   <<Run(8, 2, 30)>>}
=============================================================================
