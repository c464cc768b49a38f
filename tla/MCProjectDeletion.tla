-------------------------- MODULE MCProjectDeletion --------------------------
(* Instances of ProjectDeletion for TLC. *)
EXTENDS ProjectDeletion, TLC

CONSTANTS o1, o2, c1, c2, p1

(* Requests are alike, and so are operation identifiers.                   *)
Symmetry == Permutations({o1, o2}) \union Permutations({c1, c2})
=============================================================================
