------------------------------- MODULE FlatText -------------------------------
(***************************************************************************)
(* What an editor promises: one sequence of bytes, line ends among them,   *)
(* and a position between two of them where the editing happens.           *)
(***************************************************************************)
EXTENDS Naturals, Sequences

CONSTANTS
    Byte,       \* what a text is made of
    Loads,      \* the texts it may be given
    Inserts     \* what one key may insert

VARIABLES
    text,       \* the bytes
    pos         \* how many of them are before the cursor

Init == text = <<>> /\ pos = 0

Before == SubSeq(text, 1, pos)
After  == SubSeq(text, pos + 1, Len(text))

Load ==
    /\ text' \in Loads
    /\ pos' = 0

Insert ==
    \E s \in Inserts :
        /\ text' = Before \o s \o After
        /\ pos' = pos + Len(s)

EraseBefore ==
    /\ pos > 0
    /\ text' = SubSeq(text, 1, pos - 1) \o After
    /\ pos' = pos - 1

EraseAfter ==
    /\ pos < Len(text)
    /\ text' = Before \o Tail(After)
    /\ pos' = pos

Move ==
    /\ pos' \in 0 .. Len(text)
    /\ text' = text

Next == Load \/ Insert \/ EraseBefore \/ EraseAfter \/ Move

Spec == Init /\ [][Next]_<<text, pos>>
=============================================================================
