------------------------------ MODULE MCRepeater ------------------------------
EXTENDS Repeater

CONSTANTS plain, other, typed, crlf, bareLf

\* Two clean targets and one typed with its scheme; a request and one whose
\* body has bare line feeds.
MCTarget == {plain, other, typed}
MCText   == {crlf, bareLf}
MCClean  == [t \in MCTarget |-> IF t = typed THEN plain ELSE t]
MCCrlf   == [x \in MCText |-> crlf]
=============================================================================
