----------------------------- MODULE FeedChannel -----------------------------
(***************************************************************************)
(* What the feed from the network thread to the History tab promises: the  *)
(* tab shows a growing prefix of what was published, each transaction once *)
(* and in order.                                                           *)
(***************************************************************************)
EXTENDS Naturals, Sequences

CONSTANT Tx

VARIABLES published, shown

vars == <<published, shown>>

Init == published = <<>> /\ shown = <<>>

Publish == \E x \in Tx : published' = Append(published, x) /\ UNCHANGED shown

Show == shown' = published /\ UNCHANGED published

Next == Publish \/ Show
Spec == Init /\ [][Next]_vars
=============================================================================
