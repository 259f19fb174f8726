SPECIFICATION CollectionsSpec
CONSTANTS
    Tenants = {t1}
    Txns = {x1, x2}
    Grosses = {7, 150}
    FeeRule <- MCFeeRule
    RefundAmounts = {1, 49, 100}
    MaxRefunds = 3
    MaxMinor = 2147483647
    Pushes = {p1, p2}
    OldFailures = {p1}
    StkWorkers = {w1, w2}
    ReplayLimit = 1
    NoPush = NoPush
    Transfers = {m1, m2}
    PlatformPaid = {m1}
    Isps = {t1, t2}
    Nobody = Nobody
    C2BWorkers = {w1, w2}
    CardRefs = {c1, c2}
    HotspotRefs = {c1}
    NoCard = NoCard
    CardWorkers = {w1, w2}
    Bills = 2
    BillMinor = 2
    CashMinor = {2, 3, 5}
    RequestIds = {r1, r2}
    Vouchers = {v1, v2}
    Buyers = {b1, b2}
    AgentDesks = {d1, d2}
    NoRequest = NoRequest
    RetryWhileBusy = FALSE
INVARIANTS
    CollectionsTypeOK
    RefundsUnwindExactly
    ReversedPaymentNotCredited
    RecordsAgree
    ReconciledIsCredited
    SaleIsWhole
    AgentAccountAgrees
PROPERTIES
    MoneyRowsOnlyGrow
    KeepsTransferPromise
    StoredCallbackIsRecorded
    C2BKeepsPromise
CHECK_DEADLOCK FALSE
