SPECIFICATION FairSpec
CONSTANTS
    i1 = i1
    i2 = i2
    Invoices = {i1, i2}
    Rails <- MCRails
    Kinds <- MCKinds
    Prices <- MCPrices
    Tolerance = 1
    Tries = 4
    Valid = 1
    Early = 1
    Late = 1
    Reserved = 2
    View = 2
    MaxTime = 4
    MaxCrashes = 1
CHECK_DEADLOCK FALSE
CONSTRAINT DirectBound
INVARIANTS OnePayment OwnMoney
PROPERTIES CallbackSettles
