------------------------------- MODULE Queues -------------------------------
(***************************************************************************)
(* Queues whose elements are looked up and removed by identity: queue_ of  *)
(* InterceptManager, lruList_ of CertCache.                                *)
(***************************************************************************)
EXTENDS Naturals, Sequences

Occurs(s, x) == \E i \in DOMAIN s : s[i] = x

Distinct(s) == \A i, j \in DOMAIN s : s[i] = s[j] => i = j

\* s without its element x: erase at the position x was found at.
Without(s, x) ==
    LET i == CHOOSE k \in DOMAIN s : s[k] = x IN
    [j \in 1 .. (Len(s) - 1) |-> IF j < i THEN s[j] ELSE s[j + 1]]
=============================================================================
