SPECIFICATION FairSpec
CONSTANTS
    o1 = o1
    o2 = o2
    Orders = {o1, o2}
    Workers = {w1, w2}
    Qty <- QtyTwoOne
    Supply = 3
    PreorderEnabled = FALSE
    ByHand = {FALSE}
    ByContent = {TRUE, FALSE}
    FaultKinds = {}
    MaxFaults = 0
    MaxStalled = 1
    MaxClicks = 1
    MaxScans = 1
    Route <- ByWallet
    NoOrder = NoOrder
CHECK_DEADLOCK FALSE
PROPERTIES OrdinarySettles
