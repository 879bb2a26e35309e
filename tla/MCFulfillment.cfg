SPECIFICATION Spec
CONSTANTS
    o1 = o1
    o2 = o2
    Orders = {o1, o2}
    Workers = {w1, w2}
    Qty <- QtyTwoOne
    Supply = 3
    PreorderEnabled = TRUE
    ByHand = {FALSE}
    ByContent = {FALSE}
    FaultKinds = {"queue"}
    MaxFaults = 1
    MaxStalled = 1
    MaxClicks = 1
    MaxScans = 1
    Route <- ByWallet
    NoOrder = NoOrder
SYMMETRY WorkerSymmetry
CHECK_DEADLOCK FALSE
INVARIANTS SettledOnce OrdinaryNotStranded
PROPERTIES KeepsPromise
