------------------------------- MODULE MCFeed -------------------------------
(***************************************************************************)
(* The three threads of the program, and transactions that can be told     *)
(* apart.                                                                  *)
(***************************************************************************)
EXTENDS Feed, TLC

CONSTANTS net, ui, worker, x1, x2

MCThread == {net, ui, worker}
MCTx     == {x1, x2}
=============================================================================
