----------------------------- MODULE MCIntercept -----------------------------
(***************************************************************************)
(* Model values for TLC: three requests are enough for a front, a middle   *)
(* and a back of the queue and for a batch in hand while one is posted and *)
(* another arrives.                                                        *)
(***************************************************************************)
EXTENDS Intercept, TLC

CONSTANTS r1, r2, r3

MCReq    == {r1, r2, r3}
Buttons  == {"toggle", "forward", "drop"}

=============================================================================
