CONSTANTS
    plain = plain
    other = other
    typed = typed
    crlf = crlf
    bareLf = bareLf
    Target <- MCTarget
    Text <- MCText
    Clean <- MCClean
    Crlf <- MCCrlf
    FirstTarget = plain
    FirstText = crlf
    MaxSends = 3

SPECIFICATION RepeaterFair

INVARIANT RepeaterInv
PROPERTY Shown
