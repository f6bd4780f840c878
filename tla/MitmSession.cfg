CONSTANTS
    MaxReq = 3
    MaxReads = 5

SPECIFICATION FairSpec
CHECK_DEADLOCK FALSE

INVARIANT TypeOK
INVARIANT Layers
INVARIANT OneTurn
INVARIANT Watched
INVARIANT LogOnce
INVARIANT StreamInOrder
PROPERTY StaysClosed
PROPERTY TornDown
