------------------------- MODULE MCResourceServices -------------------------
(* Instances of ResourceServices for TLC. *)
EXTENDS ResourceServices, TLC

CONSTANTS o1, o2, p1, p2

(* Operation identifiers are random strings and replicas are alike.        *)
Symmetry == Permutations({o1, o2}) \union Permutations({p1, p2})
=============================================================================
