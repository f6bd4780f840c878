CONSTANTS
    MaxReq = 2
    MaxReads = 3

SPECIFICATION Spec
CHECK_DEADLOCK FALSE

PROPERTY EmittedAtEof
