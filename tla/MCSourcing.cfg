SPECIFICATION FairSpec
CONSTANTS
    o1 = o1
    o2 = o2
    Orders = {o1, o2}
    Cases <- MCCases
    Created <- MCCreated
    Page = 1
    Retries = 1
    MaxStock = 1
    MaxBalance = 2
    MaxRuns = 2
    MaxCalls = 2
    MaxCrashes = 1
CONSTRAINT Means
CHECK_DEADLOCK FALSE
INVARIANTS
    DebitOnce
    RefundedOnce
    GoodsOrMoney
PROPERTIES
    NeverBoughtAgain
    SourceTold
