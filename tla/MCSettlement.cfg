SPECIFICATION FairSpec
CONSTANTS
    Tenants = {t1}
    Txns = {x1, x2}
    Grosses = {250}
    FeeRule <- MCFeeRule
    RefundAmounts = {}
    MaxRefunds = 0
    MaxMinor = 2147483647
    Callers = {c1, c2}
    MaxSettlements = 2
    SettlementMinimum = 100
INVARIANTS
    TypeOK
    SettlementLedgerAgree
    MoneyMovedIsReserved
    DispatchInv
PROPERTY
    FinalStatesStand
    EveryDispatchEnds
CHECK_DEADLOCK FALSE
