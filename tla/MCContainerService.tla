-------------------------- MODULE MCContainerService --------------------------
(* Instances of ContainerService for TLC. *)
EXTENDS ContainerService, TLC

CONSTANTS o1, o2, c1, c2, p1, s1, n1, n2, d1, h1, h2

(* The default hosts.                                                      *)
HostNames == [n \in Names |-> IF n = n1 THEN h1 ELSE h2]

(* Requests are all alike.                                                 *)
Symmetry == Permutations({c1, c2})
=============================================================================
