CONSTANTS
    Byte <- MCByte
    Messages <- MCMessages
    MaxBody = 2
    MaxSent = 2
    Marker = "marker"

SPECIFICATION ParserSpec

INVARIANT ParserInv
INVARIANT TakenAsSent
