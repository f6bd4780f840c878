CONSTANTS
    MaxReq = 2
    MaxReads = 2

SPECIFICATION FairSpec
CHECK_DEADLOCK FALSE

INVARIANT TypeOK
INVARIANT OneTurn
INVARIANT Watched
INVARIANT StreamInOrder
INVARIANT LogShape
PROPERTY Answered
PROPERTY IdleTornDown
