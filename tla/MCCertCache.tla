---------------------------- MODULE MCCertCache -----------------------------
(***************************************************************************)
(* Two threads race for the exclusive lock; three hosts and a capacity of  *)
(* two make every insertion of a third host evict one.                     *)
(***************************************************************************)
EXTENDS CertCache, TLC

CONSTANTS t1, t2, h1, h2, h3

MCThread == {t1, t2}
MCHost   == {h1, h2, h3}
Symmetry == Permutations(MCThread) \cup Permutations(MCHost)
=============================================================================
