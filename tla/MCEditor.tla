------------------------------- MODULE MCEditor -------------------------------
(***************************************************************************)
(* The editor over a letter and the blank.                                 *)
(***************************************************************************)
EXTENDS Editor

MCByte    == {"a", " ", "lf", "cr"}
MCWord    == {"a"}
MCGlyph   == {<<"a">>, <<"lf">>, <<"cr">>}
MCDocs    == {<<"a", "cr", "lf", "cr", "lf", "a">>, <<"a", "a", " ", "lf">>}
MCHeights == {4, 5}
MCColumns == {0, 1, 3}

\* Once it is no longer displayed, the selection decides nothing any more.
MCView == <<lines, row, col, scroll, height, selecting, selected,
            IF selected THEN <<from, to>> ELSE <<>>, copied>>
=============================================================================
