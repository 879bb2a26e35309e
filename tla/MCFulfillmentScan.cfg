SPECIFICATION Spec
CONSTANTS
    o1 = o1
    o2 = o2
    Orders = {o1}
    Workers = {w1, w2}
    Qty <- QtyOne
    Supply = 2
    PreorderEnabled = TRUE
    ByHand = {TRUE, FALSE}
    ByContent = {TRUE, FALSE}
    FaultKinds = {"crash", "db", "queue"}
    MaxFaults = 2
    MaxStalled = 1
    MaxClicks = 1
    MaxScans = 1
    Route <- ByScan
    NoOrder = NoOrder
SYMMETRY WorkerSymmetry
CHECK_DEADLOCK FALSE
INVARIANTS RefundOnce
