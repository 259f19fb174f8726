------------------------------- MODULE MCAccount -------------------------------
(* One customer's account under two regimes, one of which a behaviour follows   *)
(* from the start.  When requests do not overlap there are two invoices and     *)
(* reversals; when they do, one invoice and none, as the agreements that hold   *)
(* differ and two of everything is too much to enumerate.                       *)
EXTENDS MCPayments

VARIABLE overlap

Busy == {w \in Workers : worker[w].pc # "idle"}

Issued == {i \in Invoices : invoice[i].status # "NONE"}

OverlapInit == AccountInit /\ overlap \in BOOLEAN

OverlapNext ==
    /\ AccountNext /\ UNCHANGED overlap
    /\ ~overlap => Cardinality(Busy') <= 1
    /\ overlap => Cardinality(Issued') <= 1 /\ \A w \in Workers : worker'[w].pc # "reverse"

OverlapSpec == OverlapInit /\ [][OverlapNext]_<<paymentVars, overlap>>

\* Requests that do not overlap: after any sequence of payments, reversals, matches and
\* voids an invoice's amountPaid is what its completed payments come to.
QuietInvoiceAgrees == ~overlap => InvoiceAgrees

\* Requests that do not overlap lose no shilling and make none.
QuietMoneyAccounted == ~overlap => MoneyAccounted

\* Requests that overlap, repeated callbacks among them, move the wallet once each.
BusyWalletAgrees == overlap => WalletAgrees
===============================================================================
