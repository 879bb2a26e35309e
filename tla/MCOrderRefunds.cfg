SPECIFICATION Spec
CONSTANTS
    Prices <- SmallPrices
    Quantity = 2
    Days = 2
    Claims = {c1, c2}
    MaxLines = 3
    MaxResweeps = 2
SYMMETRY Symmetry
CHECK_DEADLOCK FALSE
INVARIANTS UndeliveredOnce ClaimWithinPrice RefundsWithinPrice
    CommissionRestored CommissionNotCashed
