CONSTANTS
    net = net
    ui = ui
    worker = worker
    x1 = x1
    x2 = x2
    Tx <- MCTx
    Thread <- MCThread
    Net <- net
    UI <- ui
    MaxTx = 4
    MaxEvents = 1

SPECIFICATION FairSpec

INVARIANT IInv
PROPERTY AllShown
PROPERTY ImplementsChannel
