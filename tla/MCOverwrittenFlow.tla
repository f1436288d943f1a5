-------------------------- MODULE MCOverwrittenFlow --------------------------
(* A small instance of OverwrittenFlow: bytes of 2 bits, ints of 4. *)
EXTENDS OverwrittenFlow

MCTargets == -2..3

MCRuns == [addr : {0, 1, 3, 4, 8, 13, 15}, len : 0..2, plain : {TRUE}]
MCRunLists ==
  {<< >>}
  \cup {<<a>> : a \in MCRuns}
  \cup {<<[a EXCEPT !.plain = FALSE], b>> : a \in MCRuns, b \in {c \in MCRuns : c.len = 1}}
  \cup {<<a, b>> : a, b \in {c \in MCRuns : c.len = 2 /\ c.addr < 8}}

MCContents == {{}, {1}, {4}, {0, 5}, 0..5}
=============================================================================
