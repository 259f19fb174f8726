SPECIFICATION AccountSpec
CONSTANTS
    Invoices = {i1}
    NoInvoice = NoInvoice
    NoKey = NoKey
    Keys = {k1, k2}
    Services = {}
    Workers = {w1, w2}
    Totals = {200}
    PaidAmounts = {100, 300}
    Methods = {"CASH", "MPESA", "WALLET"}
    Operations = {"pay"}
SYMMETRY Symmetry
INVARIANTS
    ExcessIsCredited
CHECK_DEADLOCK FALSE
