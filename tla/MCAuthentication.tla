--------------------------- MODULE MCAuthentication ---------------------------
(* Two ticks a second and tokens of two seconds: the clock runs past the end   *)
(* of a token that was issued between two seconds.                             *)
EXTENDS Authentication, TLC

MCSymmetry == Permutations(Threads)
===============================================================================
