SPECIFICATION AgentSpec
CONSTANTS
    Bills = 2
    BillMinor = 2
    CashMinor = {2, 3, 5}
    RequestIds = {r1, r2}
    Vouchers = {v1, v2}
    Buyers = {b1, b2}
    AgentDesks = {d1, d2}
    NoRequest = NoRequest
    RetryWhileBusy = TRUE
INVARIANTS
    CollectedOnce
CHECK_DEADLOCK FALSE
