------------------------- MODULE MCTokenVerification -------------------------
(* Instances of TokenVerification for TLC. *)
EXTENDS TokenVerification, TLC

CONSTANTS p1, p2, v1, t1, t2, c1, c2
=============================================================================
