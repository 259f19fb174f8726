SPECIFICATION Spec
CONSTANTS
    Tenants = {t1}
    Txns = {x1, x2}
    Grosses = {250}
    FeeRule <- MCFeeRule
    RefundAmounts = {100}
    MaxRefunds = 1
    MaxMinor = 2147483647
    Callers = {c1}
    MaxSettlements = 2
    SettlementMinimum = 100
SYMMETRY Symmetry
INVARIANTS
    NeverOverpaid
PROPERTY
    KeepsPromise
CHECK_DEADLOCK FALSE
