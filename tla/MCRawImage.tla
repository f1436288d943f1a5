----------------------------- MODULE MCRawImage -----------------------------
(* Small instances of RawImage: four files in two slots; readers of the     *)
(* image itself, or of the volumes of a pool on it.                          *)
EXTENDS RawImage, TLC

CONSTANTS t1, t2, pool1, pool2

MCSegSize == <<1, 2, 2, 1>>
MCLengths == 1..3
ThroughBase == [t \in {t1, t2} |-> Base]
ThroughPools == (t1 :> pool1) @@ (t2 :> pool2)
ThreadSymmetry == Permutations({t1, t2})
=============================================================================
