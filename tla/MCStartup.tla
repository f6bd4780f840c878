------------------------------ MODULE MCStartup ------------------------------
(***************************************************************************)
(* Three instances in one directory, of which any two may race to generate *)
(* the CA while the third looks, and pairs enough for one crash each.  Two *)
(* ports, so that two instances serve at once and the third has to give up.*)
(***************************************************************************)
EXTENDS Startup, TLC

CONSTANTS p1, p2, p3, n1, n2

MCInstance == {p1, p2, p3}
MCPort     == {n1, n2}
Symmetry   == Permutations(MCInstance) \cup Permutations(MCPort)
=============================================================================
