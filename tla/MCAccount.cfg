SPECIFICATION OverlapSpec
CONSTANTS
    Invoices = {i1, i2}
    NoInvoice = NoInvoice
    NoKey = NoKey
    Keys = {k1, k2, k3}
    Services = {}
    Workers = {w1, w2}
    Totals = {200}
    PaidAmounts = {100, 300}
    Methods = {"CASH", "MPESA", "WALLET"}
    Operations = {"pay", "topUp", "reverse", "match", "void"}
SYMMETRY Symmetry
INVARIANTS
    AccountInv
    QuietInvoiceAgrees
    QuietMoneyAccounted
    BusyWalletAgrees
CHECK_DEADLOCK FALSE
