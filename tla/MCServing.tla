----------------------------- MODULE MCServing ------------------------------
(* One request of any kind on one sandbox.  What a second request could do  *)
(* to the first, change the row or the files, the world does as well.       *)
(* Half = 32 makes an int64 of six bits, a second three units long.         *)
EXTENDS Serving

(* Lifetimes and seconds that fit a time.Duration (292 years), and memory   *)
(* limits that are not negative, at the edges of every range.               *)
FittingLifetimes == {-32, -3, -1, 0, 1, 3, 4, 11, 12, 13, 29}
FittingSeconds == {-10, -1, 0, 1, 4, 5, 10}
NaturalDigits == {0, 1, 2, 4, 5, 8, 9, 16, 17, 31}
=============================================================================
