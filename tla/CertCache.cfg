CONSTANTS
    t1 = t1
    t2 = t2
    h1 = h1
    h2 = h2
    h3 = h3
    Thread <- MCThread
    Host <- MCHost
    MaxEntries = 2
    MaxMint = 3

SPECIFICATION Spec
SYMMETRY Symmetry

INVARIANT IInv
PROPERTY SharedContext
