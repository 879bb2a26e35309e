SPECIFICATION FairSpec
CONSTANTS
    Topups = {t1}
    Rails = {"callback", "notice", "chain"}
    Amount = 4
    Bonus = 1
    Scanners = {s1}
    Price = 3
    Referred = {r1}
    Rate = 2
    Followers = {f1, f2}
    Refunders = {q1, q2}
    Adjustments = {1}
    MaxAdjusts = 1
    MaxCredits = 2
    MaxOrders = 2
    MaxCrashes = 1
CHECK_DEADLOCK FALSE
INVARIANTS NeverOverdrawn LedgerExplains CallbackOnce CommissionCovered
PROPERTIES TransferCredited
