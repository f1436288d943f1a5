------------------------------ MODULE ImgRead ------------------------------
(***************************************************************************)
(* What tsk_img_read promises to its callers, with no cache and no lock in *)
(* sight: each call ends with an error, or with bytes of the image that    *)
(* start at the offset asked for, no more than asked for and none beyond   *)
(* the end of the image.                                                   *)
(***************************************************************************)
EXTENDS Integers

CONSTANTS
  Threads,  \* callers
  Size,     \* TSK_IMG_INFO.size
  Offsets,  \* offsets that callers ask for
  Lengths,  \* lengths that callers ask for
  NoRequest \* of a caller that is in no read

VARIABLES
  asked,  \* thread -> the read it is in, or NoRequest
  answer  \* thread -> what its last read returned, until it asks again

Requests == [off : Offsets, len : Lengths]

\* An answer of n bytes holds the bytes from..from+n-1 of the image; n = -1 is
\* an error.
Error == [n |-> -1, from |-> 0]

Legal(r, a) ==
  \/ a = Error
  \/ /\ 0 <= a.n /\ a.n <= r.len
     /\ a.n > 0 => a.from = r.off /\ 0 <= r.off /\ r.off + a.n <= Size

Init ==
  /\ asked = [t \in Threads |-> NoRequest]
  /\ answer = [t \in Threads |-> Error]

Begin(t) ==
  /\ asked[t] = NoRequest
  /\ \E r \in Requests : asked' = [asked EXCEPT ![t] = r]
  /\ answer' = [answer EXCEPT ![t] = Error]

End(t) ==
  /\ asked[t] # NoRequest
  /\ \E n \in -1..Size, from \in 0..Size :
       /\ Legal(asked[t], [n |-> n, from |-> from])
       /\ answer' = [answer EXCEPT ![t] = [n |-> n, from |-> from]]
  /\ asked' = [asked EXCEPT ![t] = NoRequest]

Next == \E t \in Threads : Begin(t) \/ End(t)

Spec == Init /\ [][Next]_<<asked, answer>>
=============================================================================
