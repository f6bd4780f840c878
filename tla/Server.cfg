CONSTANT
    Conn = {c1, c2, c3}

SPECIFICATION ServerSpec
CHECK_DEADLOCK FALSE

INVARIANT ServerInv
PROPERTY Quits
