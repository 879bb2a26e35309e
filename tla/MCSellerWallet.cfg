SPECIFICATION FairSpec
CONSTANTS
    d1 = d1
    d2 = d2
    w1 = w1
    w2 = w2
    s1 = s1
    s2 = s2
    x1 = x1
    x2 = x2
    q1 = q1
    q2 = q2
    Deposits = {d1, d2}
    Withdrawals = {w1, w2}
    Subs = {s1, s2}
    SourceTopups = {x1, x2}
    Refunders = {q1, q2}
    Agendas <- Days
    Rails <- Providers
    Deposit = 3
    Withdrawal = 2
    Price = 2
    Commission = 2
    SourceAmount = 3
    Adjustments = {1}
    Duration = 1
    ClawbackDays = 1
    MaxTime = 3
    MaxErrors = 1
    MaxCancels <- Clicks
CHECK_DEADLOCK FALSE
INVARIANTS BalanceSound DepositOnce TimePaidFor
PROPERTIES MoneyCredited
