----------------------------- MODULE MCConsole -----------------------------
(* Instances of Console for TLC: the projects a and b of the user u, and the *)
(* project c of the user v, as far as the configuration has them.            *)
EXTENDS Console, TLC

CONSTANTS u, v, a, b, c, n1, n2

MCOwner == [p \in Projects |-> IF p = c THEN v ELSE u]

Symmetry == Permutations(Names)
=============================================================================
