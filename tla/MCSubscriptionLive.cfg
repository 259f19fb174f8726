SPECIFICATION PlansFairSpec
CONSTANTS
    Invoices = {i1, i2}
    NoInvoice = NoInvoice
    Keys = {k1}
    NoKey = NoKey
    Services = {s1}
    Workers = {w1}
    Totals = {100}
    PaidAmounts = {100}
    Methods = {"CASH"}
    Operations = {"pay"}
    Sweeper = sweeper
    Staff = {a1}
    Overlap = TRUE
    Asked = {"pause", "extend"}
    Cycle = 2
    Grace = 1
    MinPause = 1
    MaxPauseDays = 3
    PauseDays = {1}
    MaxPauses = 1
    LastDay = 4
    Renewals = {}
    PlanDesks = {d1}
    NoRenewal = NoRenewal
    PlanPeriod = 1
    PlanGrace = 0
    LastPlanDay = 5
PROPERTIES
    PaidUpReconnects
    OverdueIsCutOff
    UnpaidPlanEnds
CHECK_DEADLOCK FALSE
