SPECIFICATION AccountSpec
CONSTANTS
    Invoices = {i1}
    NoInvoice = NoInvoice
    NoKey = NoKey
    Keys = {k1, k2}
    Services = {}
    Workers = {w1}
    Totals = {200}
    PaidAmounts = {100, 300}
    Methods = {"CASH", "MPESA", "WALLET"}
    Operations = {"pay", "topUp", "match"}
SYMMETRY Symmetry
INVARIANTS
    MatchedMoneyMoves
CHECK_DEADLOCK FALSE
