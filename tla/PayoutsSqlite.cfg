CONSTANTS
    None = None
    u1 = u1
    u2 = u2
    big = big
    dust1 = dust1
    dust2 = dust2
    Users = {u1, u2}
    Admins = {a1, a2}
    Workers = {w1}
    Payouts = {p1, p2}
    Transfers = {big, dust1}
    payerOf <- MCPayer
    valueOf <- MCValue
    Amounts = {3}
    Limits = {0, 3}
    DefaultLimit = 3
    MinDeposit = 2
    MinRefund = 1
    DualAbove = 2
    Float = 3
    Day = 1
    MaxTime = 1
    Dialect = "sqlite"
    LateRelay = FALSE
SPECIFICATION FairSpec
INVARIANTS
    TypeOK
    HeldBacksOpen
    ClosedOnce
    PaidNotReturned
    ReleasesAreDue
PROPERTY
    QueuedPayoutsClose
