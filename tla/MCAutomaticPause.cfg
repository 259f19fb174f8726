SPECIFICATION Spec
CONSTANTS
    Tenants = {t1}
    Txns = {x1, x2}
    Grosses = {250}
    FeeRule <- MCFeeRule
    RefundAmounts = {}
    MaxRefunds = 0
    MaxMinor = 2147483647
    Callers = {c1}
    MaxSettlements = 3
    SettlementMinimum = 100
PROPERTY
    AutomaticStopsAfterFailure
CHECK_DEADLOCK FALSE
