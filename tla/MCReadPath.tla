----------------------------- MODULE MCReadPath -----------------------------
(* A small instance of ReadPath: a file whose runs come in several chains,   *)
(* each to be found in another MFT entry.                                    *)
EXTENDS ReadPath

Run(offset, len1, addr, kind) == [offset |-> offset, len |-> len1, addr |-> addr, kind |-> kind]

\* A file of ten blocks, with chains of two runs in its middle and at its end;
\* the last run is not in the image.  One more chain claims a block again.
MCChains ==
  {<<Run(0, 1, 4, "data")>>, <<Run(1, 2, 1, "data"), Run(3, 1, 0, "sparse")>>,
   <<Run(4, 3, 6, "data")>>, <<Run(7, 1, 5, "data")>>,
   <<Run(8, 1, 3, "data"), Run(9, 1, 11, "data")>>,
   <<Run(5, 2, 2, "data")>>}

Header(size, allocSize, initSize, skip) ==
  [size |-> size, allocSize |-> allocSize, initSize |-> initSize, skip |-> skip]

\* A file that ends in its last block, or beyond its runs, initialised in part.
MCHeaders ==
  {Header(19, 20, 19, 0), Header(19, 20, 5, 0), Header(21, 22, 10, 0),
   Header(12, 17, 12, 3)}

MCAttributes ==
  {[resident |-> TRUE, size |-> s, allocSize |-> s, initSize |-> s, skip |-> 0, runs |-> << >>] :
     s \in 0..3}

MCOffsets == {0, 1, 5, 8, 15, 20}
MCLengths == {1, 4, 11}
=============================================================================
