CONSTANTS
    r1 = r1
    r2 = r2
    r3 = r3
    None = None
    Req <- MCReq
    UiOps <- AllUiOps

SPECIFICATION FairSpec

INVARIANT IInv
INVARIANT ScreenFollowsQueue
PROPERTY NoOvertaking
PROPERTY DecidedOnce
PROPERTY OffReleases
PROPERTY ImplementsGate
