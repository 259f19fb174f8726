SPECIFICATION PlansSpec
CONSTANTS
    Invoices = {i1, i2, i3}
    NoInvoice = NoInvoice
    Keys = {k1}
    NoKey = NoKey
    Services = {s1}
    Workers = {w1}
    Totals = {100}
    PaidAmounts = {100}
    Methods = {"CASH"}
    Operations = {"pay"}
    Sweeper = sweeper
    Staff = {a1}
    Overlap = FALSE
    Asked = {"pause", "resume", "cancel", "suspend", "reactivate"}
    Cycle = 2
    Grace = 1
    MinPause = 1
    MaxPauseDays = 3
    PauseDays = {1, 2}
    MaxPauses = 2
    LastDay = 5
    Renewals = {n1}
    PlanDesks = {d1, d2}
    NoRenewal = NoRenewal
    PlanPeriod = 1
    PlanGrace = 0
    LastPlanDay = 3
SYMMETRY KeySymmetry
INVARIANTS
    PlansTypeOK
    ActiveWasPaid
    BillingDateAgrees
PROPERTIES
    OnlyListedPlansRevive
    PaidPeriodStands
CHECK_DEADLOCK FALSE
