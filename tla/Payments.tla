------------------------------- MODULE Payments -------------------------------
(***************************************************************************)
(* The billing account of one customer: invoices, payments and the wallet  *)
(*   packages/billing/src/payment.service.ts   record, top up, reverse     *)
(*   packages/billing/src/wallet.service.ts    credit and debit            *)
(*   packages/billing/src/invoice.service.ts   void                        *)
(*   apps/api/src/routes/payments.ts           match by hand               *)
(*                                                                         *)
(* The requests run in Postgres transactions at READ COMMITTED and lock no *)
(* row before they write it.  So each is a worker that first reads, then,  *)
(* in a later step, writes what it computed from that and commits; another *)
(* worker may commit in between.  Wallet movements are conditional updates *)
(* of the row as it is when the statement runs, not read-then-write.       *)
(***************************************************************************)
EXTENDS Integers, FiniteSetsExt

CONSTANTS
    Invoices,
    NoInvoice,      \* a null invoiceId
    Keys,           \* idempotency keys: the payments that may be recorded
    NoKey,          \* no key
    Services,       \* the customer's subscriptions
    Workers,        \* API requests and callbacks running at one time
    Totals,         \* what an invoice may come to, in minor units
    PaidAmounts,    \* what a customer may pay at once, in minor units
    Methods,        \* the ways of paying that are used
    Operations      \* the requests that arrive

ASSUME NullAssumption == NoInvoice \notin Invoices /\ NoKey \notin Keys
\* Ids are UUIDs, and a key is a text in a unique index, which limits its length: there are
\* finitely many of each.
ASSUME FiniteAssumption == IsFiniteSet(Invoices) /\ IsFiniteSet(Keys)
ASSUME TotalsAssumption == Totals \subseteq Nat \ {0}
ASSUME PaidAmountsAssumption == PaidAmounts \subseteq Nat \ {0}
ASSUME MethodsAssumption == Methods \subseteq {"CASH", "MPESA", "WALLET"}
ASSUME OperationsAssumption == Operations \subseteq {"pay", "topUp", "reverse", "match", "void"}

VARIABLES
    invoice,    \* invoices
    payment,    \* payments, by idempotency key (a unique column)
    wallet,     \* wallets.balanceMinor
    service,    \* customer_services; dates are days, pausedUntil 0 when there is none
    worker      \* what each request has read and still has to write

accountVars == <<invoice, payment, wallet, service>>
paymentVars == <<accountVars, worker>>

UNPAID == {"PENDING", "PARTIALLY_PAID", "OVERDUE"}

NotIssued == [status |-> "NONE", total |-> 0, paid |-> 0]

NewService == [status |-> "ACTIVE", autoRenew |-> TRUE, nextBillingAt |-> 0, pausedUntil |-> 0]

\* gross is all the customer handed over, which the gateway transaction keeps: an
\* overpayment's amount is only the part its invoice took.  credited is the payment's
\* row in wallet_transactions, the part that went to the wallet.
NotPaid ==
    [status |-> "NONE", method |-> "CASH", invoice |-> NoInvoice, amount |-> 0, gross |-> 0,
     credited |-> 0]

Task(pc, k, i, method, amount, seen) ==
    [pc |-> pc, key |-> k, invoice |-> i, method |-> method, amount |-> amount, seen |-> seen,
     plans |-> {}]

Resting == Task("idle", NoKey, NoInvoice, "CASH", 0, NotIssued)

\* Mutant of Recorded: the column is not unique.
NeverRecorded(k) == FALSE

Recorded(k) == payment[k].status # "NONE"

Starts(w, next) ==
    /\ worker[w].pc = "idle"
    /\ worker' = [worker EXCEPT ![w] = next]
    /\ UNCHANGED accountVars

\* An invoice's columns that are written after it was issued.
SetPaid(i, paid, status) ==
    invoice' = [invoice EXCEPT ![i] = [status |-> status, total |-> invoice[i].total, paid |-> paid]]

Rests(w) == worker' = [worker EXCEPT ![w] = Resting]

\* A payment that has written its invoice in full and has not committed has its row locked:
\* only afterwards does it count what else is owed and list what to reconnect.
Holds(v, i) == worker[v].pc \in {"list", "restore"} /\ worker[v].invoice = i

MayWrite(w, i) == \A v \in Workers \ {w} : ~Holds(v, i)

\* The transaction is rolled back: an error, a unique key that exists, a crash.
rollback(w) ==
    /\ worker[w].pc # "idle"
    /\ Rests(w)
    /\ UNCHANGED accountVars

\* A key names one request: a retry, a double click or a replayed callback repeats it.
SameRequest(k, i, method, amount) ==
    \A v \in Workers :
        worker[v].pc \in {"pay", "list", "restore", "topUp"} /\ worker[v].key = k
        => /\ worker[v].method = method /\ worker[v].amount = amount
           /\ worker[v].pc # "topUp" => worker[v].invoice = i

-------------------------------------------------------------------------------
(* Paying. *)

createInvoice(i, total) ==
    /\ invoice[i].status = "NONE"
    /\ invoice' = [invoice EXCEPT ![i] = [status |-> "PENDING", total |-> total, paid |-> 0]]
    /\ UNCHANGED <<payment, wallet, service, worker>>

\* Staff may not record more than is owed; a gateway has taken the money already
\* (allowOverpayment), so what does not fit is accepted.
recordPaymentForInvoice(w, k, i, method, amount) ==
    /\ "pay" \in Operations
    /\ ~Recorded(k)
    /\ SameRequest(k, i, method, amount)
    /\ invoice[i].status \in UNPAID
    /\ method # "MPESA" => amount <= invoice[i].total - invoice[i].paid
    /\ Starts(w, Task("pay", k, i, method, amount, invoice[i]))

\* A wallet top-up; also what a gateway payment becomes when its invoice is not payable.
topUpWallet(w, k, method, amount) ==
    /\ "topUp" \in Operations
    /\ ~Recorded(k)
    /\ SameRequest(k, NoInvoice, method, amount)
    /\ Starts(w, Task("topUp", k, NoInvoice, method, amount, NotIssued))

\* Mutant of CanDebit: the debiting update has no condition on the balance.
AlwaysDebit(amount) == TRUE

CanDebit(amount) == amount >= 1 /\ wallet >= amount

appliedTo(seen, amount) ==
    IF amount > seen.total - seen.paid THEN seen.total - seen.paid ELSE amount

paidWith(me) == me.seen.paid + appliedTo(me.seen, me.amount)

CoversTotal(me) == paidWith(me) >= me.seen.total

\* A full payment reconnects what is suspended when no other invoice is unpaid: that is
\* counted, the suspended plans are listed, and each listed is made ACTIVE whatever it has
\* become.  Nothing is reconnected if something is owed.
countUnpaid(w) ==
    LET me == worker[w] IN
    /\ me.pc = "pay" /\ CoversTotal(me)
    /\ ~Recorded(me.key) /\ MayWrite(w, me.invoice)
    /\ worker' = [worker EXCEPT ![w].pc =
          IF \E j \in Invoices \ {me.invoice} : invoice[j].status \in UNPAID THEN "restore" ELSE "list"]
    /\ UNCHANGED accountVars

\* Mutant of Suspended: every plan, a cancelled one included.
AllPlans == Services

Suspended == {s \in Services : service[s].status = "SUSPENDED"}

listSuspended(w) ==
    /\ worker[w].pc = "list"
    /\ worker' = [worker EXCEPT ![w].pc = "restore", ![w].plans = Suspended]
    /\ UNCHANGED accountVars

reactivated(plans) ==
    [s \in Services |-> IF s \in plans THEN [service[s] EXCEPT !.status = "ACTIVE"] ELSE service[s]]

\* All that the transaction wrote takes effect; the wallet's row, which it may have locked
\* since it debited it, is shown as written here.
commitPayment(w) ==
    LET me == worker[w]
        applied == appliedTo(me.seen, me.amount)
        excess == me.amount - applied
        status == IF CoversTotal(me) THEN "PAID" ELSE "PARTIALLY_PAID"
    IN  /\ me.pc = IF CoversTotal(me) THEN "restore" ELSE "pay"
        /\ ~Recorded(me.key) /\ MayWrite(w, me.invoice)
        /\ me.method = "WALLET" => CanDebit(applied)
        /\ wallet' = (IF me.method = "WALLET" THEN wallet - applied ELSE wallet) + excess
        /\ payment' = [payment EXCEPT ![me.key] =
              [status |-> "COMPLETED", method |-> me.method, invoice |-> me.invoice,
               amount |-> applied, gross |-> me.amount, credited |-> excess]]
        /\ SetPaid(me.invoice, paidWith(me), status)
        /\ service' = reactivated(me.plans)
        /\ Rests(w)

commitTopUp(w) ==
    LET me == worker[w] IN
    /\ me.pc = "topUp"
    /\ ~Recorded(me.key)
    /\ wallet' = wallet + me.amount
    /\ payment' = [payment EXCEPT ![me.key] =
          [status |-> "COMPLETED", method |-> me.method, invoice |-> NoInvoice,
           amount |-> me.amount, gross |-> me.amount, credited |-> me.amount]]
    /\ Rests(w)
    /\ UNCHANGED <<invoice, service>>

-------------------------------------------------------------------------------
(* Reversing, matching, voiding. *)

\* The payment is read first, its invoice just before it is written.
refundPayment(w, k) ==
    /\ "reverse" \in Operations
    /\ payment[k].status = "COMPLETED"
    /\ Starts(w, Task("reverse", k, payment[k].invoice, payment[k].method, payment[k].amount,
                      NotIssued))

readInvoiceToReverse(w) ==
    LET me == worker[w] IN
    /\ me.pc = "reverse"
    /\ worker' = [worker EXCEPT ![w] =
          Task("unapply", me.key, me.invoice, me.method, me.amount,
               IF me.invoice = NoInvoice THEN NotIssued ELSE invoice[me.invoice])]
    /\ UNCHANGED accountVars

\* Mutant of walletAfterReversal: a reversed top-up leaves its credit behind.
KeepTopUp(me) == IF me.method = "WALLET" THEN wallet + me.amount ELSE wallet

walletAfterReversal(me) ==
    IF me.method = "WALLET" THEN wallet + me.amount
    ELSE IF me.invoice = NoInvoice THEN wallet - me.amount
    ELSE wallet

\* Mutant of paidAfterReversal: the invoice still counts the payment.
StillPaid(seen, amount) == seen.paid

paidAfterReversal(seen, amount) == IF seen.paid > amount THEN seen.paid - amount ELSE 0

commitReversal(w) ==
    LET me == worker[w]
        paid == paidAfterReversal(me.seen, me.amount)
        status == IF paid <= 0 THEN "PENDING" ELSE IF paid < me.seen.total THEN "PARTIALLY_PAID" ELSE "PAID"
    IN  /\ me.pc = "unapply"
        /\ me.method # "WALLET" /\ me.invoice = NoInvoice => CanDebit(me.amount)
        /\ wallet' = walletAfterReversal(me)
        /\ IF me.invoice = NoInvoice THEN UNCHANGED invoice
           ELSE MayWrite(w, me.invoice) /\ SetPaid(me.invoice, paid, status)
        /\ payment' = [payment EXCEPT ![me.key].status = "REVERSED"]
        /\ Rests(w)
        /\ UNCHANGED service

\* Staff apply a payment that has no invoice, a wallet top-up included.
matchPayment(w, k, i) ==
    /\ "match" \in Operations
    /\ payment[k].status = "COMPLETED" /\ payment[k].invoice = NoInvoice
    /\ invoice[i].status \notin {"NONE", "PAID"}
    /\ Starts(w, Task("match", k, i, payment[k].method, payment[k].amount, invoice[i]))

\* Once committed, a match that paid the invoice restores service as a payment does:
\* the reconnection sweep of Subscription.
commitMatch(w) ==
    LET me == worker[w]
        paid == me.seen.paid + me.amount
    IN  /\ me.pc = "match" /\ MayWrite(w, me.invoice)
        /\ SetPaid(me.invoice, paid, IF paid >= me.seen.total THEN "PAID" ELSE "PARTIALLY_PAID")
        /\ payment' = [payment EXCEPT ![me.key].invoice = me.invoice]
        /\ Rests(w)
        /\ UNCHANGED <<wallet, service>>

voidInvoice(w, i) ==
    /\ "void" \in Operations
    /\ invoice[i].status \notin {"NONE", "PAID", "PARTIALLY_PAID"}
    /\ Starts(w, Task("void", NoKey, i, "CASH", 0, NotIssued))

commitVoid(w) ==
    /\ worker[w].pc = "void" /\ MayWrite(w, worker[w].invoice)
    /\ SetPaid(worker[w].invoice, invoice[worker[w].invoice].paid, "VOID")
    /\ Rests(w)
    /\ UNCHANGED <<payment, wallet, service>>

\* The worker's sweep, for one of the invoices whose due date has passed.
markOverdueInvoices(i) ==
    /\ invoice[i].status \in {"PENDING", "PARTIALLY_PAID"} /\ \A v \in Workers : ~Holds(v, i)
    /\ SetPaid(i, invoice[i].paid, "OVERDUE")
    /\ UNCHANGED <<payment, wallet, service, worker>>

-------------------------------------------------------------------------------

AccountInit ==
    /\ invoice = [i \in Invoices |-> NotIssued]
    /\ payment = [k \in Keys |-> NotPaid]
    /\ wallet = 0
    /\ service = [s \in Services |-> NewService]
    /\ worker = [w \in Workers |-> Resting]

Request(w) ==
    \/ \E k \in Keys, amount \in PaidAmounts :
         \/ \E i \in Invoices, method \in Methods :
              recordPaymentForInvoice(w, k, i, method, amount)
         \/ \E method \in Methods \ {"WALLET"} : topUpWallet(w, k, method, amount)
    \/ \E k \in Keys : refundPayment(w, k)
    \/ \E k \in Keys, i \in Invoices : matchPayment(w, k, i)
    \/ \E i \in Invoices : voidInvoice(w, i)

Commit(w) ==
    \/ countUnpaid(w)
    \/ listSuspended(w)
    \/ commitPayment(w)
    \/ commitTopUp(w)
    \/ readInvoiceToReverse(w)
    \/ commitReversal(w)
    \/ commitMatch(w)
    \/ commitVoid(w)
    \/ rollback(w)

Billing ==
    \E i \in Invoices :
        \/ \E total \in Totals : createInvoice(i, total)
        \/ markOverdueInvoices(i)

AccountNext == Billing \/ \E w \in Workers : Request(w) \/ Commit(w)

AccountSpec == AccountInit /\ [][AccountNext]_paymentVars

-------------------------------------------------------------------------------
(* Properties. *)

InvoiceRecords ==
    [status : {"NONE", "VOID", "PAID"} \cup UNPAID, total : Nat, paid : Nat]

PaymentRecords ==
    [status : {"NONE", "COMPLETED", "REVERSED"}, method : {"CASH", "MPESA", "WALLET"},
     invoice : Invoices \cup {NoInvoice}, amount : Nat, gross : Nat,
     credited : Nat]

ServiceRecords ==
    [status : {"ACTIVE", "SUSPENDED", "CANCELLED"}, autoRenew : BOOLEAN,
     nextBillingAt : Nat, pausedUntil : Nat]

WorkerRecords ==
    [pc : {"idle", "pay", "list", "restore", "topUp", "reverse", "unapply", "match", "void"},
     key : Keys \cup {NoKey}, invoice : Invoices \cup {NoInvoice},
     method : {"CASH", "MPESA", "WALLET"}, amount : Nat, seen : InvoiceRecords,
     plans : SUBSET Services]

\* At work on a payment of an invoice.
PaysInvoice == {"pay", "list", "restore"}

\* The values the account's tables may hold; the wallet is never negative.
AccountTypeOK ==
    /\ invoice \in [Invoices -> InvoiceRecords]
    /\ payment \in [Keys -> PaymentRecords]
    /\ wallet \in Nat
    /\ service \in [Services -> ServiceRecords]
    /\ worker \in [Workers -> WorkerRecords]

\* An invoice that may still be paid owes something, and what a request has read of an
\* invoice still has its total: totals never change once issued.  Hence no request
\* applies less than nothing, whatever was committed since it read.
AccountInv ==
    /\ AccountTypeOK
    /\ \A i \in Invoices :
         /\ invoice[i].status # "NONE" => invoice[i].total > 0
         /\ invoice[i].status \in UNPAID => invoice[i].paid < invoice[i].total
    /\ \A w \in Workers :
         LET me == worker[w] IN
         /\ me.pc \in PaysInvoice \cup {"unapply", "match"} /\ me.invoice # NoInvoice =>
               /\ invoice[me.invoice].status # "NONE"
               /\ me.seen.total = invoice[me.invoice].total
         /\ me.pc \in PaysInvoice => me.seen.paid < me.seen.total
         /\ me.pc \in PaysInvoice \cup {"match", "void"} =>
               me.invoice \in Invoices /\ invoice[me.invoice].status # "NONE"
         /\ me.pc \in PaysInvoice \cup {"topUp", "reverse", "unapply", "match"} => me.key \in Keys
         /\ me.pc = "reverse" /\ me.invoice # NoInvoice => invoice[me.invoice].status # "NONE"
    /\ \A k \in Keys : payment[k].invoice # NoInvoice => invoice[payment[k].invoice].status # "NONE"

CompletedFor(i) == {k \in Keys : payment[k].status = "COMPLETED" /\ payment[k].invoice = i}

AppliedTo(i) == SumFunctionOnSet([k \in Keys |-> payment[k].amount], CompletedFor(i))

\* An invoice's amountPaid is a running total kept beside the payments: after any
\* sequence of payments, reversals, matches and voids it is what the completed payments
\* come to, and the status says whether that covers the total.
InvoiceAgrees ==
    \A i \in Invoices :
        /\ invoice[i].paid = AppliedTo(i)
        /\ invoice[i].status = "PAID" => invoice[i].paid >= invoice[i].total
        /\ invoice[i].status \in UNPAID => invoice[i].paid < invoice[i].total
        /\ invoice[i].status = "PENDING" => invoice[i].paid = 0

Completed(methods) == {k \in Keys : payment[k].status = "COMPLETED" /\ payment[k].method \in methods}

HandedOver == SumFunctionOnSet([k \in Keys |-> payment[k].gross], Completed({"CASH", "MPESA"}))

OnInvoices == SumFunction([i \in Invoices |-> invoice[i].paid])

\* The wallet credits of payments that no longer stand for them: an overpayment that was
\* reversed, a top-up that was matched to an invoice.
LeftInWallet ==
    SumFunctionOnSet([k \in Keys |-> payment[k].credited],
          {k \in Keys : /\ payment[k].invoice # NoInvoice
                        /\ payment[k].status = "REVERSED"
                           \/ payment[k].amount + payment[k].credited > payment[k].gross})

\* Apart from those no shilling appears or disappears: what the customer handed over and
\* was not handed back is in the wallet or on an invoice, in whatever order payments,
\* overpayments, top-ups, wallet payments, matches, voids and reversals come.
MoneyAccounted == wallet + OnInvoices = HandedOver + LeftInWallet

\* Each key moves the wallet once, however callbacks are repeated and requests overlap:
\* the balance is the top-ups and overpayments less the payments made from it.
WalletAgrees ==
    wallet = SumFunctionOnSet([k \in Keys |-> payment[k].credited],
                              {k \in Keys : payment[k].status = "COMPLETED"})
           - SumFunctionOnSet([k \in Keys |-> payment[k].amount], Completed({"WALLET"}))

\* The properties below are what the code says of itself and does not keep.

\* payment.service.ts: "the excess over what the invoice needs is credited to the
\* customer's wallet rather than applied to this invoice".  The payments applied to an
\* invoice never come to more than its total.
ExcessIsCredited == \A i \in Invoices : AppliedTo(i) <= invoice[i].total

\* The route that applies an unmatched payment: "exactly as if the money had matched".
\* A matched payment is on its invoice and no longer in the wallet.
MatchedMoneyMoves == wallet + OnInvoices = HandedOver

===============================================================================
