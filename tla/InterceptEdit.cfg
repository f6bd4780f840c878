CONSTANTS
    r1 = r1
    r2 = r2
    r3 = r3
    None = None
    Req <- MCReq
    UiOps <- Buttons

SPECIFICATION Spec

INVARIANT NeverForwardsAnothersText
