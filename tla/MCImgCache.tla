----------------------------- MODULE MCImgCache -----------------------------
(* A small instance of ImgCache: offsets before the image, at and within its *)
(* first sector, and in the two others, of which the last is damaged.        *)
EXTENDS ImgCache

CONSTANTS t1, t2

MCOffsets == {-1, 0, 1, 2, 4}
MCMinAge == -1
=============================================================================
