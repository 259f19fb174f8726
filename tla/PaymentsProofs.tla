---------------------------- MODULE PaymentsProofs ----------------------------
(***************************************************************************)
(* Proofs about Payments, for every finite set of invoices and keys, any   *)
(* number of requests and all amounts.  AccountInv is inductive, whatever  *)
(* the requests read before others committed.  Overlapping requests leave  *)
(* the wallet what the payments come to; requests that do not overlap keep *)
(* every invoice, and all the money, in step with the payments.            *)
(***************************************************************************)
EXTENDS MCAccount, SumTheorems

\* AccountInv in parts: the tables, and what the requests rely on.
TablesOK ==
    /\ invoice \in [Invoices -> InvoiceRecords]
    /\ payment \in [Keys -> PaymentRecords]
    /\ wallet \in Nat
    /\ service \in [Services -> ServiceRecords]

OwingOK ==
    \A i \in Invoices :
        /\ invoice[i].status # "NONE" => invoice[i].total > 0
        /\ invoice[i].status \in UNPAID => invoice[i].paid < invoice[i].total

PaymentsOK ==
    \A k \in Keys : payment[k].invoice # NoInvoice => invoice[payment[k].invoice].status # "NONE"

USE DEF PaysInvoice

\* What one request's record says, given the invoices.
HeldOK(me, invoices) ==
    /\ me.pc \in PaysInvoice \cup {"unapply", "match"} /\ me.invoice # NoInvoice =>
          /\ invoices[me.invoice].status # "NONE"
          /\ me.seen.total = invoices[me.invoice].total
    /\ me.pc \in PaysInvoice => me.seen.paid < me.seen.total
    /\ me.pc \in PaysInvoice \cup {"match", "void"} =>
          me.invoice \in Invoices /\ invoices[me.invoice].status # "NONE"
    /\ me.pc \in PaysInvoice \cup {"topUp", "reverse", "unapply", "match"} => me.key \in Keys
    /\ me.pc = "reverse" /\ me.invoice # NoInvoice => invoices[me.invoice].status # "NONE"

WorkersOK ==
    /\ worker \in [Workers -> WorkerRecords]
    /\ \A w \in Workers : HeldOK(worker[w], invoice)

LEMMA InvInParts ==
  /\ AccountInv <=> TablesOK /\ OwingOK /\ PaymentsOK /\ WorkersOK
  /\ AccountInv' <=> TablesOK' /\ OwingOK' /\ PaymentsOK' /\ WorkersOK'
  BY DEF AccountInv, AccountTypeOK, TablesOK, OwingOK, PaymentsOK, WorkersOK, HeldOK

LEMMA RestingOK == Resting \in WorkerRecords /\ HeldOK(Resting, invoice)
  BY DEF Resting, Task, WorkerRecords, NotIssued, InvoiceRecords, HeldOK

\* Issued invoices stay issued and keep their totals.
TotalsKept ==
    \A i \in Invoices : invoice[i].status # "NONE" =>
        invoice'[i].status # "NONE" /\ invoice'[i].total = invoice[i].total

\* A step that keeps the totals and hands at most one worker a new task keeps WorkersOK.
LEMMA WorkersStep ==
  ASSUME WorkersOK, TotalsKept, NEW w \in Workers, NEW r \in WorkerRecords, HeldOK(r, invoice),
         worker' = [worker EXCEPT ![w] = r]
  PROVE  WorkersOK'
<1>1. worker' \in [Workers -> WorkerRecords]
  BY DEF WorkersOK
<1>2. ASSUME NEW me \in WorkerRecords, HeldOK(me, invoice)
      PROVE  HeldOK(me, invoice')
  BY <1>2 DEF HeldOK, TotalsKept, WorkerRecords
<1>3. ASSUME NEW v \in Workers PROVE HeldOK(worker'[v], invoice')
  BY <1>2 DEF WorkersOK
<1> QED BY <1>1, <1>3 DEF WorkersOK

LEMMA WorkerRests ==
  ASSUME WorkersOK, TotalsKept, NEW w \in Workers, Rests(w)
  PROVE  WorkersOK'
  BY WorkersStep, RestingOK DEF Rests

\* Beginning a request changes no table.
LEMMA Begun ==
  ASSUME AccountInv, NEW w \in Workers, NEW r \in WorkerRecords, HeldOK(r, invoice), Starts(w, r)
  PROVE  AccountInv'
<1>1. TotalsKept BY DEF Starts, accountVars, TotalsKept
<1>2. WorkersOK' BY <1>1, InvInParts, WorkersStep DEF Starts
<1>3. TablesOK' /\ OwingOK' /\ PaymentsOK'
  BY InvInParts DEF Starts, accountVars, TablesOK, OwingOK, PaymentsOK
<1> QED BY <1>2, <1>3, InvInParts

\* Writing an issued invoice's paid amount and a status that fits keeps the tables.
LEMMA InvoiceWritten ==
  ASSUME AccountInv, NEW i \in Invoices, invoice[i].status # "NONE",
         NEW paid \in Nat, NEW status \in {"VOID", "PAID"} \cup UNPAID,
         status \in UNPAID => paid < invoice[i].total,
         SetPaid(i, paid, status)
  PROVE  /\ invoice' \in [Invoices -> InvoiceRecords]
         /\ OwingOK' /\ TotalsKept
<1>1. invoice \in [Invoices -> InvoiceRecords]
  BY InvInParts DEF TablesOK
<1>4. /\ invoice' \in [Invoices -> InvoiceRecords]
      /\ invoice'[i].paid = paid /\ invoice'[i].total = invoice[i].total
      /\ invoice'[i].status = status
      /\ \A j \in Invoices \ {i} : invoice'[j] = invoice[j]
  BY <1>1 DEF InvoiceRecords, SetPaid
<1>5. OwingOK'
  BY <1>4, InvInParts DEF OwingOK, UNPAID
<1>6. TotalsKept
  BY <1>4 DEF TotalsKept, UNPAID
<1> QED BY <1>4, <1>5, <1>6

\* Issued invoices stay issued, so the payments' invoices do.
LEMMA PaymentsKept ==
  ASSUME AccountInv, TotalsKept, UNCHANGED payment
  PROVE  PaymentsOK'
  BY InvInParts DEF PaymentsOK, TotalsKept, TablesOK, PaymentRecords

\* The steps of a request's beginning.
LEMMA RequestStep ==
  ASSUME AccountInv, NEW w \in Workers, Request(w)
  PROVE  AccountInv'
<1> USE DEF Request, Task
<1>0. TablesOK /\ WorkersOK /\ PaymentsOK /\ OwingOK
  BY InvInParts
<1>1. ASSUME NEW k \in Keys, NEW amount \in PaidAmounts, NEW i \in Invoices, NEW method \in Methods,
             recordPaymentForInvoice(w, k, i, method, amount)
      PROVE  AccountInv'
  <2> DEFINE r == Task("pay", k, i, method, amount, invoice[i])
  <2>1. r \in WorkerRecords
    BY <1>0, MethodsAssumption, PaidAmountsAssumption DEF TablesOK, WorkerRecords
  <2>2. HeldOK(r, invoice)
    BY <1>0, <1>1 DEF recordPaymentForInvoice, OwingOK, HeldOK, UNPAID
  <2>3. Starts(w, r)
    BY <1>1 DEF recordPaymentForInvoice
  <2> QED BY <2>1, <2>2, <2>3, Begun
<1>2. ASSUME NEW k \in Keys, NEW amount \in PaidAmounts, NEW method \in Methods \ {"WALLET"},
             topUpWallet(w, k, method, amount)
      PROVE  AccountInv'
  <2> DEFINE r == Task("topUp", k, NoInvoice, method, amount, NotIssued)
  <2>2. r \in WorkerRecords /\ HeldOK(r, invoice)
    BY MethodsAssumption, PaidAmountsAssumption
    DEF WorkerRecords, HeldOK, NotIssued, InvoiceRecords
  <2>3. Starts(w, r)
    BY <1>2 DEF topUpWallet
  <2> QED BY <2>2, <2>3, Begun
<1>3. ASSUME NEW k \in Keys, refundPayment(w, k)
      PROVE  AccountInv'
  <2> DEFINE r == Task("reverse", k, payment[k].invoice, payment[k].method, payment[k].amount, NotIssued)
  <2>1. r \in WorkerRecords
    BY <1>0 DEF TablesOK, PaymentRecords, WorkerRecords, NotIssued, InvoiceRecords
  <2>2. HeldOK(r, invoice)
    BY <1>0 DEF PaymentsOK, HeldOK
  <2>3. Starts(w, r)
    BY <1>3 DEF refundPayment
  <2> QED BY <2>1, <2>2, <2>3, Begun
<1>4. ASSUME NEW k \in Keys, NEW i \in Invoices, matchPayment(w, k, i)
      PROVE  AccountInv'
  <2> DEFINE r == Task("match", k, i, payment[k].method, payment[k].amount, invoice[i])
  <2>1. r \in WorkerRecords
    BY <1>0 DEF TablesOK, PaymentRecords, WorkerRecords
  <2>2. HeldOK(r, invoice)
    BY <1>4 DEF matchPayment, HeldOK
  <2>3. Starts(w, r)
    BY <1>4 DEF matchPayment
  <2> QED BY <2>1, <2>2, <2>3, Begun
<1>5. ASSUME NEW i \in Invoices, voidInvoice(w, i)
      PROVE  AccountInv'
  <2> DEFINE r == Task("void", NoKey, i, "CASH", 0, NotIssued)
  <2>2. r \in WorkerRecords /\ HeldOK(r, invoice)
    BY <1>5 DEF voidInvoice, WorkerRecords, HeldOK, NotIssued, InvoiceRecords
  <2>3. Starts(w, r)
    BY <1>5 DEF voidInvoice
  <2> QED BY <2>2, <2>3, Begun
<1> QED BY <1>1, <1>2, <1>3, <1>4, <1>5

\* What is left of a payment that its invoice does not take is not negative.
LEMMA Applied ==
  ASSUME NEW seen \in InvoiceRecords, seen.paid < seen.total, NEW amount \in Nat
  PROVE  /\ appliedTo(seen, amount) \in 0..amount
         /\ seen.paid + appliedTo(seen, amount) \in Nat
         /\ amount - appliedTo(seen, amount) \in Nat
  BY DEF appliedTo, InvoiceRecords

LEMMA Reconnected ==
  ASSUME TablesOK, NEW plans \in SUBSET Services
  PROVE  reactivated(plans) \in [Services -> ServiceRecords]
  BY DEF TablesOK, reactivated, ServiceRecords

\* A step towards a commit that writes no table yet.
LEMMA Prepared ==
  ASSUME AccountInv, NEW w \in Workers, NEW r \in WorkerRecords, HeldOK(r, invoice),
         worker' = [worker EXCEPT ![w] = r], UNCHANGED accountVars
  PROVE  AccountInv'
<1>1. TablesOK /\ WorkersOK /\ PaymentsOK /\ OwingOK
  BY InvInParts
<1>2. TotalsKept
  BY DEF accountVars, TotalsKept
<1>3. WorkersOK'
  BY <1>1, <1>2, WorkersStep
<1>4. TablesOK' /\ OwingOK' /\ PaymentsOK'
  BY <1>1 DEF accountVars, TablesOK, OwingOK, PaymentsOK
<1> QED BY <1>3, <1>4, InvInParts

LEMMA CountStep ==
  ASSUME AccountInv, NEW w \in Workers, countUnpaid(w)
  PROVE  AccountInv'
<1>1. worker[w] \in WorkerRecords /\ worker[w].pc = "pay" /\ HeldOK(worker[w], invoice)
  BY InvInParts DEF WorkersOK, countUnpaid
<1>2. PICK next \in {"list", "restore"} : worker' = [worker EXCEPT ![w].pc = next]
  BY DEF countUnpaid
<1> DEFINE r == [worker[w] EXCEPT !.pc = next]
<1>3. r \in WorkerRecords /\ HeldOK(r, invoice)
  BY <1>1 DEF WorkerRecords, HeldOK
<1>4. worker' = [worker EXCEPT ![w] = r] /\ UNCHANGED accountVars
  BY <1>2 DEF countUnpaid
<1> HIDE DEF r
<1> QED BY <1>3, <1>4, Prepared

LEMMA ListStep ==
  ASSUME AccountInv, NEW w \in Workers, listSuspended(w)
  PROVE  AccountInv'
<1>1. worker[w] \in WorkerRecords /\ worker[w].pc = "list" /\ HeldOK(worker[w], invoice)
  BY InvInParts DEF WorkersOK, listSuspended
<1> DEFINE r == [worker[w] EXCEPT !.pc = "restore", !.plans = Suspended]
<1>2. r \in WorkerRecords /\ HeldOK(r, invoice)
  BY <1>1 DEF WorkerRecords, HeldOK, Suspended
<1>3. worker' = [worker EXCEPT ![w] = r] /\ UNCHANGED accountVars
  BY DEF listSuspended
<1> HIDE DEF r
<1> QED BY <1>2, <1>3, Prepared

LEMMA PaymentStep ==
  ASSUME AccountInv, NEW w \in Workers, commitPayment(w)
  PROVE  AccountInv'
<1> DEFINE me == worker[w]
           applied == appliedTo(me.seen, me.amount)
           excess == me.amount - applied
           paid == paidWith(me)
           status == IF CoversTotal(me) THEN "PAID" ELSE "PARTIALLY_PAID"
<1>0. TablesOK /\ WorkersOK /\ PaymentsOK /\ OwingOK
  BY InvInParts
<1>1. /\ me \in WorkerRecords /\ me.pc \in PaysInvoice /\ me.key \in Keys /\ me.invoice \in Invoices
      /\ me.seen \in InvoiceRecords /\ me.seen.paid < me.seen.total /\ me.amount \in Nat
      /\ invoice[me.invoice].status # "NONE" /\ me.seen.total = invoice[me.invoice].total
  BY <1>0, NullAssumption DEF WorkersOK, HeldOK, commitPayment, WorkerRecords
<1>2. applied \in 0..me.amount /\ paid \in Nat /\ excess \in Nat
  BY <1>1, Applied DEF paidWith
<1>3. /\ me.method = "WALLET" => applied >= 1 /\ wallet >= applied
      /\ wallet' = (IF me.method = "WALLET" THEN wallet - applied ELSE wallet) + excess
      /\ SetPaid(me.invoice, paid, status)
      /\ payment' = [payment EXCEPT ![me.key] =
              [status |-> "COMPLETED", method |-> me.method, invoice |-> me.invoice,
               amount |-> applied, gross |-> me.amount, credited |-> excess]]
      /\ service' = reactivated(me.plans)
      /\ Rests(w)
  BY DEF commitPayment, CanDebit
<1> HIDE DEF me, applied, excess, paid
<1>4. wallet' \in Nat
  BY <1>0, <1>2, <1>3 DEF TablesOK
<1>5. status \in UNPAID => paid < invoice[me.invoice].total
  BY <1>1, <1>2 DEF UNPAID, InvoiceRecords, CoversTotal, paid
<1>6. status \in {"VOID", "PAID"} \cup UNPAID
  BY DEF UNPAID
<1>7. invoice' \in [Invoices -> InvoiceRecords] /\ OwingOK' /\ TotalsKept
  <2> HIDE DEF status
  <2> QED BY <1>1, <1>2, <1>3, <1>5, <1>6, InvoiceWritten
<1>8. payment' \in [Keys -> PaymentRecords]
  BY <1>0, <1>1, <1>2, <1>3 DEF TablesOK, PaymentRecords, WorkerRecords
<1>9. PaymentsOK'
  BY <1>0, <1>1, <1>3, <1>7 DEF PaymentsOK, TotalsKept, TablesOK, PaymentRecords
<1>10. service' \in [Services -> ServiceRecords]
  BY <1>0, <1>1, <1>3, Reconnected DEF WorkerRecords
<1>11. WorkersOK'
  BY <1>0, <1>3, <1>7, WorkerRests
<1> QED BY <1>4, <1>7, <1>8, <1>9, <1>10, <1>11, InvInParts DEF TablesOK

LEMMA TopUpStep ==
  ASSUME AccountInv, NEW w \in Workers, commitTopUp(w)
  PROVE  AccountInv'
<1> DEFINE me == worker[w]
<1>0. TablesOK /\ WorkersOK /\ PaymentsOK /\ OwingOK
  BY InvInParts
<1>1. me \in WorkerRecords /\ me.key \in Keys
  BY <1>0 DEF WorkersOK, HeldOK, commitTopUp
<1>2. TotalsKept /\ UNCHANGED <<invoice, service>> /\ Rests(w)
  BY DEF commitTopUp, TotalsKept
<1>3. /\ payment' = [payment EXCEPT ![me.key] =
            [status |-> "COMPLETED", method |-> me.method, invoice |-> NoInvoice,
             amount |-> me.amount, gross |-> me.amount, credited |-> me.amount]]
      /\ wallet' = wallet + me.amount
  BY DEF commitTopUp
<1> HIDE DEF me
<1>4. TablesOK'
  BY <1>0, <1>1, <1>2, <1>3 DEF TablesOK, PaymentRecords, WorkerRecords
<1>5. PaymentsOK' /\ OwingOK'
  BY <1>0, <1>1, <1>2, <1>3 DEF PaymentsOK, OwingOK, TablesOK, PaymentRecords
<1>6. WorkersOK'
  BY <1>0, <1>2, WorkerRests
<1> QED BY <1>4, <1>5, <1>6, InvInParts

LEMMA ReadStep ==
  ASSUME AccountInv, NEW w \in Workers, readInvoiceToReverse(w)
  PROVE  AccountInv'
<1> DEFINE me == worker[w]
           seen == IF me.invoice = NoInvoice THEN NotIssued ELSE invoice[me.invoice]
           r == Task("unapply", me.key, me.invoice, me.method, me.amount, seen)
<1>0. TablesOK /\ WorkersOK /\ PaymentsOK /\ OwingOK
  BY InvInParts
<1>1. /\ me \in WorkerRecords /\ me.pc = "reverse" /\ me.key \in Keys
      /\ me.invoice # NoInvoice => invoice[me.invoice].status # "NONE"
  BY <1>0 DEF WorkersOK, HeldOK, readInvoiceToReverse
<1>2. worker' = [worker EXCEPT ![w] = r] /\ UNCHANGED accountVars
  BY DEF readInvoiceToReverse
<1> HIDE DEF me
<1>3. seen \in InvoiceRecords
  BY <1>0, <1>1 DEF TablesOK, WorkerRecords, NotIssued, InvoiceRecords
<1>4. r \in WorkerRecords
  <2> HIDE DEF seen
  <2> QED BY <1>1, <1>3 DEF Task, WorkerRecords
<1>5. HeldOK(r, invoice)
  BY <1>1 DEF Task, HeldOK
<1>6. TotalsKept
  BY <1>2 DEF accountVars, TotalsKept
<1>7. WorkersOK'
  <2> HIDE DEF r
  <2> QED BY <1>0, <1>2, <1>4, <1>5, <1>6, WorkersStep
<1>8. TablesOK' /\ OwingOK' /\ PaymentsOK'
  BY <1>0, <1>2 DEF accountVars, TablesOK, OwingOK, PaymentsOK
<1> QED BY <1>7, <1>8, InvInParts

LEMMA ReversalStep ==
  ASSUME AccountInv, NEW w \in Workers, commitReversal(w)
  PROVE  AccountInv'
<1> DEFINE me == worker[w]
           paid == paidAfterReversal(me.seen, me.amount)
           status == IF paid <= 0 THEN "PENDING"
                     ELSE IF paid < me.seen.total THEN "PARTIALLY_PAID" ELSE "PAID"
<1>0. TablesOK /\ WorkersOK /\ PaymentsOK /\ OwingOK
  BY InvInParts
<1>1. /\ me \in WorkerRecords /\ me.pc = "unapply" /\ me.key \in Keys
      /\ me.seen \in InvoiceRecords /\ me.amount \in Nat
      /\ me.invoice # NoInvoice =>
            /\ me.invoice \in Invoices /\ invoice[me.invoice].status # "NONE"
            /\ me.seen.total = invoice[me.invoice].total
  BY <1>0 DEF WorkersOK, HeldOK, commitReversal, WorkerRecords
<1>2. /\ me.method # "WALLET" /\ me.invoice = NoInvoice => me.amount >= 1 /\ wallet >= me.amount
      /\ wallet' = walletAfterReversal(me)
      /\ IF me.invoice = NoInvoice THEN UNCHANGED invoice ELSE SetPaid(me.invoice, paid, status)
      /\ payment' = [payment EXCEPT ![me.key].status = "REVERSED"]
      /\ Rests(w) /\ UNCHANGED service
  BY DEF commitReversal, CanDebit
<1> HIDE DEF me
<1>3. wallet' \in Nat
  BY <1>0, <1>1, <1>2 DEF walletAfterReversal, TablesOK
<1>4. paid \in Nat
  BY <1>1 DEF paidAfterReversal, InvoiceRecords
<1>5. ASSUME me.invoice # NoInvoice
      PROVE  /\ status \in {"VOID", "PAID"} \cup UNPAID
             /\ status \in UNPAID => paid < invoice[me.invoice].total
  <2>1. me.seen.total > 0
    BY <1>0, <1>1, <1>5 DEF OwingOK
  <2> QED BY <1>1, <1>4, <2>1, <1>5 DEF UNPAID, InvoiceRecords
<1>6. invoice' \in [Invoices -> InvoiceRecords] /\ OwingOK' /\ TotalsKept
  <2>1. CASE me.invoice = NoInvoice
    BY <2>1, <1>0, <1>2 DEF TablesOK, OwingOK, TotalsKept
  <2>2. CASE me.invoice # NoInvoice
    <3> HIDE DEF status, paid
    <3> QED BY <2>2, <1>1, <1>2, <1>4, <1>5, InvoiceWritten
  <2> QED BY <2>1, <2>2
<1>7. payment' \in [Keys -> PaymentRecords] /\ PaymentsOK'
  BY <1>0, <1>1, <1>2, <1>6 DEF TablesOK, PaymentRecords, PaymentsOK, TotalsKept
<1>8. WorkersOK'
  BY <1>0, <1>2, <1>6, WorkerRests
<1>9. service' \in [Services -> ServiceRecords]
  BY <1>0, <1>2 DEF TablesOK
<1> QED BY <1>3, <1>6, <1>7, <1>8, <1>9, InvInParts DEF TablesOK

LEMMA MatchStep ==
  ASSUME AccountInv, NEW w \in Workers, commitMatch(w)
  PROVE  AccountInv'
<1> DEFINE me == worker[w]
           paid == me.seen.paid + me.amount
           status == IF paid >= me.seen.total THEN "PAID" ELSE "PARTIALLY_PAID"
<1>0. TablesOK /\ WorkersOK /\ PaymentsOK /\ OwingOK
  BY InvInParts
<1>1. /\ me \in WorkerRecords /\ me.key \in Keys /\ me.invoice \in Invoices
      /\ me.seen \in InvoiceRecords /\ me.amount \in Nat
      /\ invoice[me.invoice].status # "NONE" /\ me.seen.total = invoice[me.invoice].total
  BY <1>0, NullAssumption DEF WorkersOK, HeldOK, commitMatch, WorkerRecords
<1>2. /\ SetPaid(me.invoice, paid, status)
      /\ payment' = [payment EXCEPT ![me.key].invoice = me.invoice]
      /\ Rests(w) /\ UNCHANGED <<wallet, service>>
  BY DEF commitMatch
<1> HIDE DEF me
<1>3. /\ paid \in Nat
      /\ status \in {"VOID", "PAID"} \cup UNPAID
      /\ status \in UNPAID => paid < invoice[me.invoice].total
  BY <1>1 DEF UNPAID, InvoiceRecords
<1>4. invoice' \in [Invoices -> InvoiceRecords] /\ OwingOK' /\ TotalsKept
  <2> HIDE DEF status, paid
  <2> QED BY <1>1, <1>2, <1>3, InvoiceWritten
<1>5. payment' \in [Keys -> PaymentRecords] /\ PaymentsOK'
  BY <1>0, <1>1, <1>2, <1>4 DEF TablesOK, PaymentRecords, PaymentsOK, TotalsKept
<1>6. WorkersOK'
  BY <1>0, <1>2, <1>4, WorkerRests
<1> QED BY <1>0, <1>2, <1>4, <1>5, <1>6, InvInParts DEF TablesOK

\* A status written over an issued invoice whose paid amount stays.
LEMMA StatusOver ==
  ASSUME AccountInv, NEW i \in Invoices, invoice[i].status # "NONE",
         NEW status \in {"VOID", "OVERDUE"},
         status = "OVERDUE" => invoice[i].status \in UNPAID,
         SetPaid(i, invoice[i].paid, status), UNCHANGED <<payment, wallet, service>>
  PROVE  TablesOK' /\ OwingOK' /\ PaymentsOK' /\ TotalsKept
<1>1. TablesOK /\ OwingOK
  BY InvInParts
<1>2. invoice[i].paid \in Nat
  BY <1>1 DEF TablesOK, InvoiceRecords
<1>3. status \in {"VOID", "PAID"} \cup UNPAID /\ (status \in UNPAID => invoice[i].paid < invoice[i].total)
  BY <1>1 DEF UNPAID, OwingOK
<1>4. invoice' \in [Invoices -> InvoiceRecords] /\ OwingOK' /\ TotalsKept
  BY <1>2, <1>3, InvoiceWritten
<1> QED BY <1>1, <1>4, PaymentsKept DEF TablesOK

LEMMA VoidStep ==
  ASSUME AccountInv, NEW w \in Workers, commitVoid(w)
  PROVE  AccountInv'
<1>0. WorkersOK
  BY InvInParts
<1>1. worker[w].invoice \in Invoices /\ invoice[worker[w].invoice].status # "NONE"
  BY <1>0 DEF WorkersOK, HeldOK, commitVoid
<1>2. TablesOK' /\ OwingOK' /\ PaymentsOK' /\ TotalsKept
  BY <1>1, StatusOver DEF commitVoid
<1>3. WorkersOK'
  BY <1>0, <1>2, WorkerRests DEF commitVoid
<1> QED BY <1>2, <1>3, InvInParts

LEMMA RollbackStep ==
  ASSUME AccountInv, NEW w \in Workers, rollback(w)
  PROVE  AccountInv'
<1>1. TablesOK /\ WorkersOK /\ PaymentsOK /\ OwingOK
  BY InvInParts
<1>2. TablesOK' /\ OwingOK' /\ PaymentsOK' /\ TotalsKept
  BY <1>1 DEF rollback, accountVars, TablesOK, OwingOK, PaymentsOK, TotalsKept
<1>3. WorkersOK'
  BY <1>1, <1>2, WorkerRests DEF rollback
<1> QED BY <1>2, <1>3, InvInParts

\* A step that leaves every request alone.
LEMMA WorkersLeft ==
  ASSUME WorkersOK, TotalsKept, UNCHANGED worker
  PROVE  WorkersOK'
  BY DEF WorkersOK, TotalsKept, HeldOK, WorkerRecords

LEMMA BillingStep ==
  ASSUME AccountInv, Billing
  PROVE  AccountInv'
<1>0. TablesOK /\ WorkersOK /\ PaymentsOK /\ OwingOK
  BY InvInParts
<1>1. ASSUME NEW i \in Invoices, NEW total \in Totals, createInvoice(i, total)
      PROVE  AccountInv'
  <2>1. /\ invoice[i].status = "NONE" /\ total \in Nat /\ total > 0
        /\ invoice' = [invoice EXCEPT ![i] = [status |-> "PENDING", total |-> total, paid |-> 0]]
        /\ UNCHANGED <<payment, wallet, service, worker>>
    BY <1>1, TotalsAssumption DEF createInvoice
  <2>2. invoice' \in [Invoices -> InvoiceRecords]
    BY <1>0, <2>1 DEF TablesOK, InvoiceRecords, UNPAID
  <2>3. TotalsKept
    BY <1>0, <2>1 DEF TablesOK, TotalsKept
  <2>4. OwingOK'
    BY <1>0, <2>1 DEF TablesOK, OwingOK
  <2>5. PaymentsOK'
    BY <2>1, <2>3, PaymentsKept
  <2>6. WorkersOK'
    BY <1>0, <2>1, <2>3, WorkersLeft
  <2> QED BY <1>0, <2>1, <2>2, <2>4, <2>5, <2>6, InvInParts DEF TablesOK
<1>2. ASSUME NEW i \in Invoices, markOverdueInvoices(i)
      PROVE  AccountInv'
  <2>1. TablesOK' /\ OwingOK' /\ PaymentsOK' /\ TotalsKept
    BY <1>2, StatusOver DEF markOverdueInvoices, UNPAID
  <2>2. WorkersOK'
    BY <1>0, <1>2, <2>1, WorkersLeft DEF markOverdueInvoices
  <2> QED BY <2>1, <2>2, InvInParts
<1> QED BY <1>1, <1>2 DEF Billing

\* Every step keeps AccountInv.
LEMMA AccountStep ==
  ASSUME AccountInv, [AccountNext]_paymentVars
  PROVE  AccountInv'
<1>1. CASE Billing
  BY <1>1, BillingStep
<1>2. ASSUME NEW w \in Workers, Request(w) PROVE AccountInv'
  BY <1>2, RequestStep
<1>3. ASSUME NEW w \in Workers, Commit(w) PROVE AccountInv'
  BY <1>3, CountStep, ListStep, PaymentStep, TopUpStep, ReadStep, ReversalStep, MatchStep, VoidStep, RollbackStep
  DEF Commit
<1>4. CASE UNCHANGED paymentVars
  BY <1>4 DEF paymentVars, accountVars, AccountInv, AccountTypeOK
<1> QED BY <1>1, <1>2, <1>3, <1>4 DEF AccountNext

LEMMA AccountStart == AccountInit => AccountInv
  BY NullAssumption, RestingOK
  DEF AccountInit, AccountInv, AccountTypeOK, NotIssued, NotPaid, NewService, InvoiceRecords,
      PaymentRecords, ServiceRecords, Resting, Task, UNPAID

\* Whatever requests overlap and whatever they read before others committed, the
\* wallet never goes below zero, an invoice that may be paid owes something, and the
\* tables hold only well-formed rows.
THEOREM AccountCorrect == AccountSpec => []AccountInv
<1>1. AccountInv /\ [AccountNext]_paymentVars => AccountInv'
  BY AccountStep
<1> QED BY <1>1, AccountStart, PTL DEF AccountSpec

-------------------------------------------------------------------------------
(* Money.  The sums over the payments are taken apart into what each payment *)
(* counts for, so that a step has only its own payment to account for.       *)

\* What one payment counts for in HandedOver, LeftInWallet, AppliedTo(i), and in the
\* wallet's credits and debits.
Handed(p) == IF p.status = "COMPLETED" /\ p.method \in {"CASH", "MPESA"} THEN p.gross ELSE 0

Left(p) ==
    IF p.invoice # NoInvoice /\ (p.status = "REVERSED" \/ p.amount + p.credited > p.gross)
    THEN p.credited ELSE 0

OnTo(p, i) == IF p.status = "COMPLETED" /\ p.invoice = i THEN p.amount ELSE 0

Credit(p) == IF p.status = "COMPLETED" THEN p.credited ELSE 0

Debit(p) == IF p.status = "COMPLETED" /\ p.method = "WALLET" THEN p.amount ELSE 0

WalletCredits ==
    SumFunctionOnSet([k \in Keys |-> payment[k].credited],
                     {k \in Keys : payment[k].status = "COMPLETED"})

WalletDebits == SumFunctionOnSet([k \in Keys |-> payment[k].amount], Completed({"WALLET"}))

\* At most payment k changes.
OnlyPayment(k) ==
    /\ payment \in [Keys -> PaymentRecords] /\ payment' \in [Keys -> PaymentRecords]
    /\ \A j \in Keys \ {k} : payment'[j] = payment[j]

LEMMA HandedMoves ==
  ASSUME NEW k \in Keys, OnlyPayment(k)
  PROVE  HandedOver' = HandedOver - Handed(payment[k]) + Handed(payment'[k])
<1> DEFINE f == [j \in Keys |-> payment[j].gross]
           h == [j \in Keys |-> payment'[j].gross]
           P == Completed({"CASH", "MPESA"})
           Q == {j \in Keys : payment'[j].status = "COMPLETED" /\ payment'[j].method \in {"CASH", "MPESA"}}
<1>1. HandedOver = SumFunctionOnSet(f, P) /\ HandedOver' = SumFunctionOnSet(h, Q)
  BY DEF HandedOver, Completed
<1>2. P \in SUBSET Keys /\ Q \in SUBSET Keys
  BY DEF Completed
<1>3. (\A y \in Keys : f[y] \in Int) /\ h[k] \in Int
  BY DEF OnlyPayment, PaymentRecords
<1>4. \A y \in Keys \ {k} : h[y] = f[y] /\ (y \in Q <=> y \in P)
  BY DEF OnlyPayment, Completed
<1>5. /\ (IF k \in P THEN f[k] ELSE 0) = Handed(payment[k])
      /\ (IF k \in Q THEN h[k] ELSE 0) = Handed(payment'[k])
  BY DEF Completed, Handed
<1> HIDE DEF f, h, P, Q
<1>6. SumFunctionOnSet(h, Q) = SumFunctionOnSet(f, P)
        - (IF k \in P THEN f[k] ELSE 0) + (IF k \in Q THEN h[k] ELSE 0)
  BY <1>2, <1>3, <1>4, FiniteAssumption, SumMoves
<1> QED BY <1>1, <1>5, <1>6

LEMMA LeftMoves ==
  ASSUME NEW k \in Keys, OnlyPayment(k)
  PROVE  LeftInWallet' = LeftInWallet - Left(payment[k]) + Left(payment'[k])
<1> DEFINE f == [j \in Keys |-> payment[j].credited]
           h == [j \in Keys |-> payment'[j].credited]
           P == {j \in Keys : /\ payment[j].invoice # NoInvoice
                              /\ payment[j].status = "REVERSED"
                                 \/ payment[j].amount + payment[j].credited > payment[j].gross}
           Q == {j \in Keys : /\ payment'[j].invoice # NoInvoice
                              /\ payment'[j].status = "REVERSED"
                                 \/ payment'[j].amount + payment'[j].credited > payment'[j].gross}
<1>1. LeftInWallet = SumFunctionOnSet(f, P) /\ LeftInWallet' = SumFunctionOnSet(h, Q)
  BY DEF LeftInWallet
<1>2. P \in SUBSET Keys /\ Q \in SUBSET Keys
  OBVIOUS
<1>3. (\A y \in Keys : f[y] \in Int) /\ h[k] \in Int
  BY DEF OnlyPayment, PaymentRecords
<1>4. \A y \in Keys \ {k} : h[y] = f[y] /\ (y \in Q <=> y \in P)
  BY DEF OnlyPayment
<1>5. /\ (IF k \in P THEN f[k] ELSE 0) = Left(payment[k])
      /\ (IF k \in Q THEN h[k] ELSE 0) = Left(payment'[k])
  BY DEF Left
<1> HIDE DEF f, h, P, Q
<1>6. SumFunctionOnSet(h, Q) = SumFunctionOnSet(f, P)
        - (IF k \in P THEN f[k] ELSE 0) + (IF k \in Q THEN h[k] ELSE 0)
  BY <1>2, <1>3, <1>4, FiniteAssumption, SumMoves
<1> QED BY <1>1, <1>5, <1>6

LEMMA AppliedMoves ==
  ASSUME NEW k \in Keys, OnlyPayment(k), NEW i
  PROVE  AppliedTo(i)' = AppliedTo(i) - OnTo(payment[k], i) + OnTo(payment'[k], i)
<1> DEFINE f == [j \in Keys |-> payment[j].amount]
           h == [j \in Keys |-> payment'[j].amount]
           P == CompletedFor(i)
           Q == {j \in Keys : payment'[j].status = "COMPLETED" /\ payment'[j].invoice = i}
<1>1. AppliedTo(i) = SumFunctionOnSet(f, P) /\ AppliedTo(i)' = SumFunctionOnSet(h, Q)
  BY DEF AppliedTo, CompletedFor
<1>2. P \in SUBSET Keys /\ Q \in SUBSET Keys
  BY DEF CompletedFor
<1>3. (\A y \in Keys : f[y] \in Int) /\ h[k] \in Int
  BY DEF OnlyPayment, PaymentRecords
<1>4. \A y \in Keys \ {k} : h[y] = f[y] /\ (y \in Q <=> y \in P)
  BY DEF OnlyPayment, CompletedFor
<1>5. /\ (IF k \in P THEN f[k] ELSE 0) = OnTo(payment[k], i)
      /\ (IF k \in Q THEN h[k] ELSE 0) = OnTo(payment'[k], i)
  BY DEF CompletedFor, OnTo
<1> HIDE DEF f, h, P, Q
<1>6. SumFunctionOnSet(h, Q) = SumFunctionOnSet(f, P)
        - (IF k \in P THEN f[k] ELSE 0) + (IF k \in Q THEN h[k] ELSE 0)
  BY <1>2, <1>3, <1>4, FiniteAssumption, SumMoves
<1> QED BY <1>1, <1>5, <1>6

LEMMA CreditsMove ==
  ASSUME NEW k \in Keys, OnlyPayment(k)
  PROVE  WalletCredits' = WalletCredits - Credit(payment[k]) + Credit(payment'[k])
<1> DEFINE f == [j \in Keys |-> payment[j].credited]
           h == [j \in Keys |-> payment'[j].credited]
           P == {j \in Keys : payment[j].status = "COMPLETED"}
           Q == {j \in Keys : payment'[j].status = "COMPLETED"}
<1>1. WalletCredits = SumFunctionOnSet(f, P) /\ WalletCredits' = SumFunctionOnSet(h, Q)
  BY DEF WalletCredits
<1>2. P \in SUBSET Keys /\ Q \in SUBSET Keys
  OBVIOUS
<1>3. (\A y \in Keys : f[y] \in Int) /\ h[k] \in Int
  BY DEF OnlyPayment, PaymentRecords
<1>4. \A y \in Keys \ {k} : h[y] = f[y] /\ (y \in Q <=> y \in P)
  BY DEF OnlyPayment
<1>5. /\ (IF k \in P THEN f[k] ELSE 0) = Credit(payment[k])
      /\ (IF k \in Q THEN h[k] ELSE 0) = Credit(payment'[k])
  BY DEF Credit
<1> HIDE DEF f, h, P, Q
<1>6. SumFunctionOnSet(h, Q) = SumFunctionOnSet(f, P)
        - (IF k \in P THEN f[k] ELSE 0) + (IF k \in Q THEN h[k] ELSE 0)
  BY <1>2, <1>3, <1>4, FiniteAssumption, SumMoves
<1> QED BY <1>1, <1>5, <1>6

LEMMA DebitsMove ==
  ASSUME NEW k \in Keys, OnlyPayment(k)
  PROVE  WalletDebits' = WalletDebits - Debit(payment[k]) + Debit(payment'[k])
<1> DEFINE f == [j \in Keys |-> payment[j].amount]
           h == [j \in Keys |-> payment'[j].amount]
           P == Completed({"WALLET"})
           Q == {j \in Keys : payment'[j].status = "COMPLETED" /\ payment'[j].method \in {"WALLET"}}
<1>1. WalletDebits = SumFunctionOnSet(f, P) /\ WalletDebits' = SumFunctionOnSet(h, Q)
  BY DEF WalletDebits, Completed
<1>2. P \in SUBSET Keys /\ Q \in SUBSET Keys
  BY DEF Completed
<1>3. (\A y \in Keys : f[y] \in Int) /\ h[k] \in Int
  BY DEF OnlyPayment, PaymentRecords
<1>4. \A y \in Keys \ {k} : h[y] = f[y] /\ (y \in Q <=> y \in P)
  BY DEF OnlyPayment, Completed
<1>5. /\ (IF k \in P THEN f[k] ELSE 0) = Debit(payment[k])
      /\ (IF k \in Q THEN h[k] ELSE 0) = Debit(payment'[k])
  BY DEF Completed, Debit
<1> HIDE DEF f, h, P, Q
<1>6. SumFunctionOnSet(h, Q) = SumFunctionOnSet(f, P)
        - (IF k \in P THEN f[k] ELSE 0) + (IF k \in Q THEN h[k] ELSE 0)
  BY <1>2, <1>3, <1>4, FiniteAssumption, SumMoves
<1> QED BY <1>1, <1>5, <1>6

\* A step that leaves the payments leaves every sum over them.
LEMMA SumsStay ==
  ASSUME UNCHANGED payment
  PROVE  /\ HandedOver' = HandedOver /\ LeftInWallet' = LeftInWallet
         /\ WalletCredits' = WalletCredits /\ WalletDebits' = WalletDebits
         /\ \A i : AppliedTo(i)' = AppliedTo(i)
<1>1. HandedOver' = HandedOver
  BY DEF HandedOver, Completed
<1>2. LeftInWallet' = LeftInWallet
  BY DEF LeftInWallet
<1>3. WalletCredits' = WalletCredits
  BY DEF WalletCredits
<1>4. WalletDebits' = WalletDebits
  BY DEF WalletDebits, Completed
<1>5. ASSUME NEW i PROVE AppliedTo(i)' = AppliedTo(i)
  BY DEF AppliedTo, CompletedFor
<1> QED BY <1>1, <1>2, <1>3, <1>4, <1>5

\* The sums are numbers.
LEMMA SumsAreNumbers ==
  ASSUME payment \in [Keys -> PaymentRecords]
  PROVE  /\ HandedOver \in Int /\ LeftInWallet \in Int /\ WalletCredits \in Int /\ WalletDebits \in Int
         /\ \A i : AppliedTo(i) \in Nat
<1>1. ASSUME NEW S \in SUBSET Keys, NEW f, \A k \in Keys : f[k] \in Nat
      PROVE  SumFunctionOnSet(f, S) \in Nat
  <2>1. IsFiniteSet(S) /\ \A k \in S : f[k] \in Nat
    BY <1>1, FiniteAssumption, FS_Subset
  <2> QED BY <2>1, SumNat
<1> DEFINE amount == [k \in Keys |-> payment[k].amount]
           gross == [k \in Keys |-> payment[k].gross]
           credited == [k \in Keys |-> payment[k].credited]
<1>2. \A k \in Keys : amount[k] \in Nat /\ gross[k] \in Nat /\ credited[k] \in Nat
  BY DEF PaymentRecords
<1> HIDE DEF amount, gross, credited
<1>3. \A S \in SUBSET Keys : /\ SumFunctionOnSet(amount, S) \in Nat
                             /\ SumFunctionOnSet(gross, S) \in Nat
                             /\ SumFunctionOnSet(credited, S) \in Nat
  BY <1>1, <1>2
<1> USE DEF amount, gross, credited
<1>4. HandedOver \in Nat
  <2>1. Completed({"CASH", "MPESA"}) \in SUBSET Keys
    BY DEF Completed
  <2> QED BY <1>3, <2>1, Zenon DEF HandedOver
<1>5. WalletDebits \in Nat
  <2>1. Completed({"WALLET"}) \in SUBSET Keys
    BY DEF Completed
  <2> QED BY <1>3, <2>1, Zenon DEF WalletDebits
<1>6. LeftInWallet \in Nat
  <2> DEFINE L == {k \in Keys : /\ payment[k].invoice # NoInvoice
                                /\ payment[k].status = "REVERSED"
                                   \/ payment[k].amount + payment[k].credited > payment[k].gross}
  <2>1. L \in SUBSET Keys
    OBVIOUS
  <2> QED BY <1>3, <2>1, Zenon DEF LeftInWallet
<1>7. WalletCredits \in Nat
  <2> DEFINE C == {k \in Keys : payment[k].status = "COMPLETED"}
  <2>1. C \in SUBSET Keys
    OBVIOUS
  <2> QED BY <1>3, <2>1, Zenon DEF WalletCredits
<1>8. ASSUME NEW i PROVE AppliedTo(i) \in Nat
  <2>1. CompletedFor(i) \in SUBSET Keys
    BY DEF CompletedFor
  <2> QED BY <1>3, <2>1, Zenon DEF AppliedTo
<1> QED BY <1>4, <1>5, <1>6, <1>7, <1>8

\* A step that writes one invoice's paid amount moves OnInvoices by as much.
LEMMA PaidMoves ==
  ASSUME invoice \in [Invoices -> InvoiceRecords], invoice' \in [Invoices -> InvoiceRecords],
         NEW i \in Invoices, \A j \in Invoices \ {i} : invoice'[j].paid = invoice[j].paid
  PROVE  OnInvoices' = OnInvoices - invoice[i].paid + invoice'[i].paid
<1> DEFINE f == [j \in Invoices |-> invoice[j].paid]
           h == [j \in Invoices |-> invoice'[j].paid]
<1>1. OnInvoices = SumFunctionOnSet(f, Invoices) /\ OnInvoices' = SumFunctionOnSet(h, Invoices)
  BY DEF OnInvoices, SumFunction
<1>2. /\ \A y \in Invoices : f[y] \in Int
      /\ h[i] \in Int
      /\ \A y \in Invoices \ {i} : h[y] = f[y]
  BY DEF InvoiceRecords
<1>3. f[i] = invoice[i].paid /\ h[i] = invoice'[i].paid
  OBVIOUS
<1> HIDE DEF f, h
<1>4. SumFunctionOnSet(h, Invoices) = SumFunctionOnSet(f, Invoices) - f[i] + h[i]
  BY <1>2, FiniteAssumption, SumUpdate
<1> QED BY <1>1, <1>3, <1>4

LEMMA PaidIsNumber ==
  ASSUME invoice \in [Invoices -> InvoiceRecords]
  PROVE  OnInvoices \in Int
<1> DEFINE f == [j \in Invoices |-> invoice[j].paid]
<1>1. OnInvoices = SumFunctionOnSet(f, Invoices) /\ \A y \in Invoices : f[y] \in Int
  BY DEF OnInvoices, SumFunction, InvoiceRecords
<1> HIDE DEF f
<1> QED BY <1>1, FiniteAssumption, SumType

-------------------------------------------------------------------------------
(* Requests that overlap. *)

\* What AccountInv says of the request whose turn it is.
LEMMA TurnOf ==
  ASSUME AccountInv, NEW w \in Workers
  PROVE  /\ worker[w] \in WorkerRecords
         /\ worker[w].amount \in Nat /\ worker[w].seen \in InvoiceRecords
         /\ worker[w].pc \in PaysInvoice \cup {"topUp", "unapply", "match"} => worker[w].key \in Keys
         /\ worker[w].pc \in PaysInvoice => worker[w].seen.paid < worker[w].seen.total
         /\ payment \in [Keys -> PaymentRecords]
         /\ invoice \in [Invoices -> InvoiceRecords]
         /\ wallet \in Nat
<1>1. TablesOK /\ WorkersOK
  BY InvInParts
<1> QED BY <1>1 DEF TablesOK, WorkersOK, HeldOK, WorkerRecords

\* The rows that a commit writes.
PaidRow(me) ==
    [status |-> "COMPLETED", method |-> me.method, invoice |-> me.invoice,
     amount |-> appliedTo(me.seen, me.amount), gross |-> me.amount,
     credited |-> me.amount - appliedTo(me.seen, me.amount)]

ToppedUpRow(me) ==
    [status |-> "COMPLETED", method |-> me.method, invoice |-> NoInvoice,
     amount |-> me.amount, gross |-> me.amount, credited |-> me.amount]

LEMMA RowWritten ==
  ASSUME AccountInv, AccountInv', NEW k \in Keys, NEW row, payment' = [payment EXCEPT ![k] = row]
  PROVE  OnlyPayment(k) /\ payment'[k] = row
<1>1. payment \in [Keys -> PaymentRecords] /\ payment' \in [Keys -> PaymentRecords]
  BY InvInParts DEF TablesOK
<1> QED BY <1>1 DEF OnlyPayment

\* Requests do not read payments to reverse them, and a top-up is not from the wallet.
NoneReverses ==
    \A w \in Workers : /\ worker[w].pc \notin {"reverse", "unapply"}
                       /\ worker[w].pc = "topUp" => worker[w].method # "WALLET"

BusyInv == overlap => NoneReverses /\ WalletAgrees

LEMMA WalletBalance == WalletAgrees <=> wallet = WalletCredits - WalletDebits
  BY DEF WalletAgrees, WalletCredits, WalletDebits

LEMMA WalletBalanceNext == WalletAgrees' <=> wallet' = WalletCredits' - WalletDebits'
  BY DEF WalletAgrees, WalletCredits, WalletDebits

LEMMA NoneReversesStep ==
  ASSUME AccountInv, NoneReverses, [AccountNext]_paymentVars,
         \A w \in Workers : worker'[w].pc # "reverse"
  PROVE  NoneReverses'
<1>1. worker \in [Workers -> WorkerRecords]
  BY InvInParts DEF WorkersOK
<1>2. CASE Billing
  BY <1>2 DEF Billing, createInvoice, markOverdueInvoices, NoneReverses
<1>3. ASSUME NEW w \in Workers, Request(w) PROVE NoneReverses'
  <2>1. PICK r : /\ worker' = [worker EXCEPT ![w] = r] /\ r.pc # "unapply"
                 /\ r.pc = "topUp" => r.method # "WALLET"
    BY <1>3
    DEF Request, Starts, recordPaymentForInvoice, topUpWallet, refundPayment, matchPayment,
        voidInvoice, Task
  <2> QED BY <1>1, <2>1 DEF NoneReverses
<1>4. ASSUME NEW w \in Workers, Commit(w) PROVE NoneReverses'
  <2>1. ~readInvoiceToReverse(w)
    BY DEF readInvoiceToReverse, NoneReverses
  <2>2. PICK r : /\ worker' = [worker EXCEPT ![w] = r]
                 /\ r.pc \in {"idle", "list", "restore"}
    <3>0. worker[w] \in WorkerRecords
      BY <1>1
    <3>1. CASE countUnpaid(w)
      <4>1. PICK next \in {"list", "restore"} : worker' = [worker EXCEPT ![w].pc = next]
        BY <3>1 DEF countUnpaid
      <4> DEFINE r == [worker[w] EXCEPT !.pc = next]
      <4>2. worker' = [worker EXCEPT ![w] = r] /\ r.pc = next
        BY <3>0, <4>1 DEF WorkerRecords
      <4> QED BY <4>2
    <3>2. CASE listSuspended(w)
      <4> DEFINE r == [worker[w] EXCEPT !.pc = "restore", !.plans = Suspended]
      <4>1. worker' = [worker EXCEPT ![w] = r] /\ r.pc = "restore"
        BY <3>0, <3>2 DEF listSuspended, WorkerRecords
      <4> QED BY <4>1
    <3>3. CASE Rests(w)
      <4>1. Resting.pc = "idle"
        BY DEF Resting, Task
      <4> QED BY <3>3, <4>1 DEF Rests
    <3> QED BY <1>4, <2>1, <3>1, <3>2, <3>3
      DEF Commit, commitPayment, commitTopUp, commitReversal, commitMatch, commitVoid, rollback
  <2> QED BY <1>1, <2>2 DEF NoneReverses
<1>5. CASE UNCHANGED paymentVars
  BY <1>5 DEF paymentVars, NoneReverses
<1> QED BY <1>2, <1>3, <1>4, <1>5 DEF AccountNext

\* A key that is not recorded counts for nothing, and moves the wallet by its own credit
\* less its own debit when it is recorded.
LEMMA WalletMoved ==
  ASSUME AccountInv, WalletAgrees, NEW k \in Keys, OnlyPayment(k), wallet' \in Nat,
         wallet' = wallet - Credit(payment[k]) + Debit(payment[k])
                          + Credit(payment'[k]) - Debit(payment'[k])
  PROVE  WalletAgrees'
<1>1. payment \in [Keys -> PaymentRecords] /\ wallet \in Nat
  BY InvInParts DEF TablesOK
<1>2. WalletCredits \in Int /\ WalletDebits \in Int
  BY <1>1, SumsAreNumbers
<1>3. /\ Credit(payment[k]) \in Int /\ Debit(payment[k]) \in Int
      /\ Credit(payment'[k]) \in Int /\ Debit(payment'[k]) \in Int
  BY DEF OnlyPayment, PaymentRecords, Credit, Debit
<1>4. wallet = WalletCredits - WalletDebits
  BY WalletBalance
<1>5. WalletCredits' = WalletCredits - Credit(payment[k]) + Credit(payment'[k])
  BY CreditsMove
<1>6. WalletDebits' = WalletDebits - Debit(payment[k]) + Debit(payment'[k])
  BY DebitsMove
<1>7. wallet' = WalletCredits' - WalletDebits'
  BY <1>1, <1>2, <1>3, <1>4, <1>5, <1>6
<1> QED BY <1>7, WalletBalanceNext

LEMMA PayMovesWallet ==
  ASSUME AccountInv, AccountInv', WalletAgrees, NEW w \in Workers, commitPayment(w)
  PROVE  WalletAgrees'
<1> DEFINE me == worker[w]
           applied == appliedTo(me.seen, me.amount)
<1>1. me.pc \in PaysInvoice /\ me.key \in Keys /\ me.amount \in Nat /\ me.seen \in InvoiceRecords
  BY TurnOf DEF commitPayment
<1>2. me.seen.paid < me.seen.total
  BY <1>1, TurnOf
<1>3. applied \in Nat /\ me.amount - applied \in Nat
  BY <1>1, <1>2, Applied
<1>4. /\ payment' = [payment EXCEPT ![me.key] = PaidRow(me)]
      /\ wallet' = (IF me.method = "WALLET" THEN wallet - applied ELSE wallet) + (me.amount - applied)
      /\ payment[me.key].status = "NONE"
  BY DEF commitPayment, PaidRow, Recorded
<1>5. OnlyPayment(me.key) /\ payment'[me.key] = PaidRow(me)
  BY <1>1, <1>4, RowWritten
<1>6. wallet' \in Nat /\ wallet \in Nat
  BY InvInParts DEF TablesOK
<1> HIDE DEF me
<1>7. /\ Credit(payment[me.key]) = 0 /\ Debit(payment[me.key]) = 0
      /\ Credit(PaidRow(me)) = me.amount - applied
      /\ Debit(PaidRow(me)) = (IF me.method = "WALLET" THEN applied ELSE 0)
  BY <1>4 DEF Credit, Debit, PaidRow
<1> HIDE DEF applied
<1>8. wallet' = wallet - Credit(payment[me.key]) + Debit(payment[me.key])
                  + Credit(payment'[me.key]) - Debit(payment'[me.key])
  BY <1>1, <1>3, <1>4, <1>5, <1>6, <1>7
<1> QED BY <1>1, <1>5, <1>6, <1>8, WalletMoved

LEMMA TopUpMovesWallet ==
  ASSUME AccountInv, AccountInv', WalletAgrees, NEW w \in Workers, commitTopUp(w),
         worker[w].method # "WALLET"
  PROVE  WalletAgrees'
<1> DEFINE me == worker[w]
<1>1. me.key \in Keys /\ me.amount \in Nat
  BY TurnOf DEF commitTopUp
<1>2. /\ payment' = [payment EXCEPT ![me.key] = ToppedUpRow(me)]
      /\ wallet' = wallet + me.amount
      /\ payment[me.key].status = "NONE"
  BY DEF commitTopUp, ToppedUpRow, Recorded
<1>3. OnlyPayment(me.key) /\ payment'[me.key] = ToppedUpRow(me)
  BY <1>1, <1>2, RowWritten
<1>4. wallet' \in Nat /\ wallet \in Nat /\ me.method # "WALLET"
  BY InvInParts DEF TablesOK
<1> HIDE DEF me
<1>5. /\ Credit(payment[me.key]) = 0 /\ Debit(payment[me.key]) = 0
      /\ Credit(ToppedUpRow(me)) = me.amount /\ Debit(ToppedUpRow(me)) = 0
  BY <1>2, <1>4 DEF Credit, Debit, ToppedUpRow
<1>6. wallet' = wallet - Credit(payment[me.key]) + Debit(payment[me.key])
                  + Credit(payment'[me.key]) - Debit(payment'[me.key])
  BY <1>1, <1>2, <1>3, <1>4, <1>5
<1> QED BY <1>1, <1>3, <1>4, <1>6, WalletMoved

LEMMA MatchLeavesWallet ==
  ASSUME AccountInv, AccountInv', WalletAgrees, NEW w \in Workers, commitMatch(w)
  PROVE  WalletAgrees'
<1> DEFINE k == worker[w].key
           row == [payment[k] EXCEPT !.invoice = worker[w].invoice]
<1>1. k \in Keys /\ payment \in [Keys -> PaymentRecords]
  BY TurnOf DEF commitMatch
<1>2. payment' = [payment EXCEPT ![k] = row] /\ wallet' = wallet
  BY DEF commitMatch
<1>3. /\ row.status = payment[k].status /\ row.method = payment[k].method
      /\ row.amount = payment[k].amount /\ row.credited = payment[k].credited
  BY <1>1 DEF PaymentRecords
<1> HIDE DEF row
<1>4. OnlyPayment(k) /\ payment'[k] = row
  BY <1>1, <1>2, RowWritten
<1>5. wallet' \in Nat /\ wallet \in Nat
  BY InvInParts DEF TablesOK
<1>6. /\ Credit(payment'[k]) = Credit(payment[k]) /\ Debit(payment'[k]) = Debit(payment[k])
      /\ Credit(payment[k]) \in Int /\ Debit(payment[k]) \in Int
  BY <1>1, <1>3, <1>4 DEF Credit, Debit, PaymentRecords
<1>7. wallet' = wallet - Credit(payment[k]) + Debit(payment[k])
                  + Credit(payment'[k]) - Debit(payment'[k])
  BY <1>2, <1>5, <1>6
<1> QED BY <1>1, <1>4, <1>5, <1>7, WalletMoved

LEMMA BusyStep ==
  ASSUME AccountInv, AccountInv', BusyInv, [OverlapNext]_<<paymentVars, overlap>>
  PROVE  BusyInv'
<1> SUFFICES ASSUME overlap' PROVE NoneReverses' /\ WalletAgrees'
  BY DEF BusyInv
<1>1. /\ [AccountNext]_paymentVars /\ overlap
      /\ NoneReverses /\ WalletAgrees
  BY DEF OverlapNext, BusyInv
<1>2. NoneReverses'
  <2>1. ASSUME \A w \in Workers : worker'[w].pc # "reverse" PROVE NoneReverses'
    BY <1>1, <2>1, NoneReversesStep
  <2>2. ASSUME UNCHANGED paymentVars PROVE NoneReverses'
    BY <1>1, <2>2 DEF paymentVars, NoneReverses
  <2> QED BY <1>1, <2>1, <2>2 DEF OverlapNext
<1>3. ASSUME UNCHANGED <<payment, wallet>> PROVE WalletAgrees'
  BY <1>1, <1>3, SumsStay, WalletBalance, WalletBalanceNext
<1>4. ASSUME NEW w \in Workers, Commit(w) PROVE WalletAgrees'
  <2>1. CASE commitPayment(w)
    BY <1>1, <2>1, PayMovesWallet
  <2>2. CASE commitTopUp(w)
    BY <1>1, <2>2, TopUpMovesWallet DEF NoneReverses, commitTopUp
  <2>3. CASE commitMatch(w)
    BY <1>1, <2>3, MatchLeavesWallet
  <2>4. ~commitReversal(w)
    BY <1>1 DEF NoneReverses, commitReversal
  <2>5. CASE \/ countUnpaid(w) \/ listSuspended(w) \/ readInvoiceToReverse(w)
             \/ commitVoid(w) \/ rollback(w)
    BY <1>3, <2>5
    DEF countUnpaid, listSuspended, readInvoiceToReverse, commitVoid, rollback, accountVars
  <2> QED BY <1>4, <2>1, <2>2, <2>3, <2>4, <2>5 DEF Commit
<1>5. ASSUME NEW w \in Workers, Request(w) PROVE UNCHANGED <<payment, wallet>>
  BY <1>5
  DEF Request, Starts, recordPaymentForInvoice, topUpWallet, refundPayment, matchPayment,
      voidInvoice, accountVars
<1>6. Billing => UNCHANGED <<payment, wallet>>
  BY DEF Billing, createInvoice, markOverdueInvoices
<1>7. WalletAgrees'
  BY <1>1, <1>3, <1>4, <1>5, <1>6 DEF AccountNext, paymentVars, accountVars
<1> QED BY <1>2, <1>7

\* The first state has no payments.
LEMMA NothingYet ==
  ASSUME AccountInit
  PROVE  /\ WalletAgrees /\ InvoiceAgrees /\ MoneyAccounted
<1>1. /\ \A k \in Keys : payment[k].status = "NONE" /\ payment[k].invoice = NoInvoice
      /\ \A i \in Invoices : invoice[i] = NotIssued
      /\ wallet = 0
  BY DEF AccountInit, NotPaid
<1>2. HandedOver = 0
  <2>1. Completed({"CASH", "MPESA"}) = {}
    BY <1>1 DEF Completed
  <2> QED BY <2>1, SumEmpty DEF HandedOver
<1>3. LeftInWallet = 0
  <2> DEFINE L == {k \in Keys : /\ payment[k].invoice # NoInvoice
                                /\ payment[k].status = "REVERSED"
                                   \/ payment[k].amount + payment[k].credited > payment[k].gross}
  <2>1. L = {}
    BY <1>1
  <2> QED BY <2>1, SumEmpty DEF LeftInWallet
<1>4. WalletCredits = 0
  <2> DEFINE C == {k \in Keys : payment[k].status = "COMPLETED"}
  <2>1. C = {}
    BY <1>1
  <2> QED BY <2>1, SumEmpty DEF WalletCredits
<1>5. WalletDebits = 0
  <2>1. Completed({"WALLET"}) = {}
    BY <1>1 DEF Completed
  <2> QED BY <2>1, SumEmpty DEF WalletDebits
<1>6. WalletAgrees
  BY <1>1, <1>4, <1>5, WalletBalance
<1>7. OnInvoices = 0
  <2> DEFINE f == [i \in Invoices |-> invoice[i].paid]
             none == [i \in Invoices |-> 0]
  <2>1. f = none
    BY <1>1 DEF NotIssued
  <2>2. OnInvoices = SumFunctionOnSet(f, Invoices)
    BY DEF OnInvoices, SumFunction
  <2>3. SumFunctionOnSet(none, Invoices) = 0
    BY FiniteAssumption, SumZero
  <2> HIDE DEF f, none
  <2> QED BY <2>1, <2>2, <2>3
<1>8. MoneyAccounted
  BY <1>1, <1>2, <1>3, <1>7 DEF MoneyAccounted
<1>9. ASSUME NEW i \in Invoices PROVE AppliedTo(i) = 0
  <2>1. CompletedFor(i) = {}
    BY <1>1 DEF CompletedFor
  <2> QED BY <2>1, SumEmpty DEF AppliedTo
<1>10. InvoiceAgrees
  BY <1>1, <1>9 DEF InvoiceAgrees, NotIssued, UNPAID
<1> QED BY <1>6, <1>8, <1>10

LEMMA OverlapAccount ==
  /\ OverlapInit => AccountInv
  /\ AccountInv /\ [OverlapNext]_<<paymentVars, overlap>> => AccountInv'
<1>1. OverlapInit => AccountInv
  BY AccountStart DEF OverlapInit
<1>2. [OverlapNext]_<<paymentVars, overlap>> => [AccountNext]_paymentVars
  BY DEF OverlapNext
<1> QED BY <1>1, <1>2, AccountStep

\* However requests overlap, and callbacks among them are repeated, the balance is the
\* top-ups and overpayments less the payments made from it: each key moves it once.
THEOREM BusyWallet == OverlapSpec => []BusyWalletAgrees
<1>1. OverlapInit => BusyInv
  BY NothingYet DEF OverlapInit, BusyInv, NoneReverses, AccountInit, Resting, Task
<1>2. AccountInv /\ AccountInv' /\ BusyInv /\ [OverlapNext]_<<paymentVars, overlap>> => BusyInv'
  BY BusyStep
<1>3. BusyInv => BusyWalletAgrees
  BY DEF BusyInv, BusyWalletAgrees
<1> QED BY <1>1, <1>2, <1>3, OverlapAccount, PTL DEF OverlapSpec

-------------------------------------------------------------------------------
(* Requests that do not overlap. *)

\* What a lone request has read is still so when it commits.
TrueTo(me) ==
    /\ me.pc \in PaysInvoice \cup {"topUp"} => payment[me.key].status = "NONE"
    /\ me.pc \in PaysInvoice \cup {"match", "unapply"} /\ me.invoice # NoInvoice =>
          me.seen.paid = invoice[me.invoice].paid
    /\ me.pc \in PaysInvoice /\ me.method # "MPESA" => me.amount <= me.seen.total - me.seen.paid
    /\ me.pc = "topUp" => me.method # "WALLET"
    /\ me.pc \in {"reverse", "unapply", "match"} =>
          payment[me.key].status = "COMPLETED" /\ payment[me.key].amount = me.amount
    /\ me.pc \in {"reverse", "unapply"} =>
          payment[me.key].invoice = me.invoice /\ payment[me.key].method = me.method
    /\ me.pc = "match" => payment[me.key].invoice = NoInvoice

\* A payment is one of: not recorded; reversed; a top-up, all of it in the wallet; a
\* payment of an invoice, its excess in the wallet; a top-up that was matched, which
\* is in the wallet still.
RowOK(p) ==
    /\ p.status = "NONE" => p.invoice = NoInvoice
    /\ p.status = "COMPLETED" /\ p.invoice = NoInvoice =>
          p.method # "WALLET" /\ p.amount = p.gross /\ p.credited = p.gross
    /\ p.status = "COMPLETED" /\ p.invoice # NoInvoice =>
          \/ p.amount + p.credited = p.gross /\ (p.method = "WALLET" => p.credited = 0)
          \/ p.amount = p.gross /\ p.credited = p.gross /\ p.method # "WALLET"

RowsOK == \A k \in Keys : RowOK(payment[k])

Accounts == RowsOK /\ InvoiceAgrees /\ MoneyAccounted

\* InvoiceAgrees and MoneyAccounted with what they rest on: at most one request is in
\* progress, what it has read is still so, and the payments are of the kinds above.
QuietInv ==
    /\ IsFiniteSet(Busy)
    /\ ~overlap => /\ Cardinality(Busy) <= 1
                   /\ \A w \in Workers : TrueTo(worker[w])
                   /\ Accounts

\* The accounts after a step that changes payment k and the paid amounts by as much.
LEMMA AgreesMoved ==
  ASSUME AccountInv, AccountInv', InvoiceAgrees, NEW k \in Keys, OnlyPayment(k),
         \A i \in Invoices :
            /\ invoice'[i].paid = invoice[i].paid - OnTo(payment[k], i) + OnTo(payment'[k], i)
            /\ invoice'[i].status = "PAID" => invoice'[i].paid >= invoice'[i].total
            /\ invoice'[i].status = "PENDING" => invoice'[i].paid = 0
  PROVE  InvoiceAgrees'
<1> SUFFICES ASSUME NEW i \in Invoices
             PROVE  /\ invoice'[i].paid = AppliedTo(i)'
                    /\ invoice'[i].status = "PAID" => invoice'[i].paid >= invoice'[i].total
                    /\ invoice'[i].status \in UNPAID => invoice'[i].paid < invoice'[i].total
                    /\ invoice'[i].status = "PENDING" => invoice'[i].paid = 0
  BY DEF InvoiceAgrees
<1>1. AppliedTo(i)' = AppliedTo(i) - OnTo(payment[k], i) + OnTo(payment'[k], i)
  BY AppliedMoves
<1>2. invoice[i].paid = AppliedTo(i)
  BY DEF InvoiceAgrees
<1>3. invoice'[i].status \in UNPAID => invoice'[i].paid < invoice'[i].total
  BY InvInParts DEF OwingOK
<1> QED BY <1>1, <1>2, <1>3

LEMMA MoneyMoved ==
  ASSUME AccountInv, AccountInv', MoneyAccounted, NEW k \in Keys, OnlyPayment(k),
         NEW d \in Int, OnInvoices' = OnInvoices + d,
         wallet' + d = wallet - Handed(payment[k]) + Handed(payment'[k])
                              - Left(payment[k]) + Left(payment'[k])
  PROVE  MoneyAccounted'
<1>1. /\ payment \in [Keys -> PaymentRecords] /\ wallet \in Nat /\ wallet' \in Nat
      /\ invoice \in [Invoices -> InvoiceRecords]
  BY InvInParts DEF TablesOK
<1>2. HandedOver \in Int /\ LeftInWallet \in Int /\ OnInvoices \in Int
  BY <1>1, SumsAreNumbers, PaidIsNumber
<1>3. /\ Handed(payment[k]) \in Int /\ Handed(payment'[k]) \in Int
      /\ Left(payment[k]) \in Int /\ Left(payment'[k]) \in Int
  BY DEF OnlyPayment, PaymentRecords, Handed, Left
<1>4. HandedOver' = HandedOver - Handed(payment[k]) + Handed(payment'[k])
  BY HandedMoves
<1>5. LeftInWallet' = LeftInWallet - Left(payment[k]) + Left(payment'[k])
  BY LeftMoves
<1>6. wallet + OnInvoices = HandedOver + LeftInWallet
  BY DEF MoneyAccounted
<1>7. wallet' + OnInvoices' = HandedOver' + LeftInWallet'
  BY <1>1, <1>2, <1>3, <1>4, <1>5, <1>6
<1> QED BY <1>7 DEF MoneyAccounted

\* A step that leaves the payments, the wallet and the paid amounts.
LEMMA AccountsKept ==
  ASSUME AccountInv, AccountInv', Accounts, UNCHANGED <<payment, wallet>>,
         \A i \in Invoices :
            /\ invoice'[i].paid = invoice[i].paid
            /\ invoice'[i].status = "PAID" => invoice'[i].paid >= invoice'[i].total
            /\ invoice'[i].status = "PENDING" => invoice'[i].paid = 0
  PROVE  Accounts'
<1>1. RowsOK'
  BY DEF Accounts, RowsOK, RowOK
<1>2. ASSUME NEW i \in Invoices
      PROVE  /\ invoice'[i].paid = AppliedTo(i)'
             /\ invoice'[i].status \in UNPAID => invoice'[i].paid < invoice'[i].total
  <2>1. AppliedTo(i)' = AppliedTo(i) /\ invoice[i].paid = AppliedTo(i)
    BY SumsStay DEF Accounts, InvoiceAgrees
  <2>2. invoice'[i].status \in UNPAID => invoice'[i].paid < invoice'[i].total
    BY InvInParts DEF OwingOK
  <2> QED BY <2>1, <2>2
<1>3. InvoiceAgrees'
  BY <1>2 DEF InvoiceAgrees
<1>4. OnInvoices' = OnInvoices
  <2> DEFINE f == [i \in Invoices |-> invoice[i].paid]
             h == [i \in Invoices |-> invoice'[i].paid]
  <2>1. f = h
    OBVIOUS
  <2>2. OnInvoices = SumFunction(f) /\ OnInvoices' = SumFunction(h)
    BY DEF OnInvoices
  <2> HIDE DEF f, h
  <2> QED BY <2>1, <2>2
<1>5. MoneyAccounted'
  BY <1>4, SumsStay DEF MoneyAccounted, Accounts
<1> QED BY <1>1, <1>3, <1>5 DEF Accounts

\* One invoice's paid amount and status are written.
LEMMA PaidWritten ==
  ASSUME AccountInv, AccountInv', NEW i \in Invoices, NEW paid \in Int, NEW status,
         SetPaid(i, paid, status)
  PROVE  /\ invoice'[i].paid = paid /\ invoice'[i].status = status
         /\ invoice'[i].total = invoice[i].total
         /\ \A j \in Invoices \ {i} : invoice'[j] = invoice[j]
         /\ OnInvoices' = OnInvoices + (paid - invoice[i].paid)
<1>1. invoice \in [Invoices -> InvoiceRecords] /\ invoice' \in [Invoices -> InvoiceRecords]
  BY InvInParts DEF TablesOK
<1>2. /\ invoice'[i].paid = paid /\ invoice'[i].status = status
      /\ invoice'[i].total = invoice[i].total
      /\ \A j \in Invoices \ {i} : invoice'[j] = invoice[j]
  BY <1>1 DEF SetPaid
<1>3. OnInvoices' = OnInvoices - invoice[i].paid + invoice'[i].paid
  BY <1>1, <1>2, PaidMoves
<1>4. OnInvoices \in Int /\ invoice[i].paid \in Int
  BY <1>1, PaidIsNumber DEF InvoiceRecords
<1> QED BY <1>2, <1>3, <1>4

LEMMA RowsMoved ==
  ASSUME RowsOK, NEW k \in Keys, OnlyPayment(k), RowOK(payment'[k])
  PROVE  RowsOK'
<1> SUFFICES ASSUME NEW j \in Keys PROVE RowOK(payment'[j])
  BY DEF RowsOK, RowOK
<1>1. CASE j = k
  BY <1>1
<1>2. CASE j # k
  BY <1>2 DEF OnlyPayment, RowsOK
<1> QED BY <1>1, <1>2

LEMMA QuietPay ==
  ASSUME AccountInv, AccountInv', Accounts, NEW w \in Workers, TrueTo(worker[w]), commitPayment(w)
  PROVE  Accounts'
<1> DEFINE me == worker[w]
           i == me.invoice
           k == me.key
           applied == appliedTo(me.seen, me.amount)
           paid == me.seen.paid + applied
           status == IF paid >= me.seen.total THEN "PAID" ELSE "PARTIALLY_PAID"
           row == PaidRow(me)
<1>1. /\ me.pc \in PaysInvoice /\ k \in Keys /\ me.amount \in Nat /\ me.seen \in InvoiceRecords
      /\ me \in WorkerRecords
  BY TurnOf DEF commitPayment
<1>2. /\ i \in Invoices /\ i # NoInvoice /\ me.seen.total = invoice[i].total
      /\ me.seen.paid = invoice[i].paid /\ me.seen.paid < me.seen.total
      /\ me.method # "MPESA" => me.amount <= me.seen.total - me.seen.paid
  BY <1>1, InvInParts, NullAssumption DEF WorkersOK, HeldOK, TrueTo
<1>3. /\ applied \in Nat /\ me.amount - applied \in Nat /\ paid \in Nat
      /\ me.seen.paid \in Nat /\ me.seen.total \in Nat
  BY <1>1, <1>2, Applied DEF InvoiceRecords
<1>4. /\ payment' = [payment EXCEPT ![k] = row]
      /\ wallet' = (IF me.method = "WALLET" THEN wallet - applied ELSE wallet) + (me.amount - applied)
      /\ payment[k].status = "NONE"
      /\ SetPaid(i, paid, status)
  BY DEF commitPayment, PaidRow, Recorded, paidWith, CoversTotal
<1>5. OnlyPayment(k) /\ payment'[k] = row
  BY <1>1, <1>4, RowWritten
<1>6. me.method # "MPESA" => me.amount - applied = 0
  BY <1>1, <1>2 DEF appliedTo, InvoiceRecords
<1>7. payment[k].invoice = NoInvoice
  BY <1>1, <1>4 DEF Accounts, RowsOK, RowOK
<1>8. /\ row.status = "COMPLETED" /\ row.method = me.method /\ row.invoice = i
      /\ row.amount = applied /\ row.gross = me.amount /\ row.credited = me.amount - applied
  BY DEF PaidRow
<1>9. /\ invoice'[i].paid = paid /\ invoice'[i].status = status
      /\ invoice'[i].total = invoice[i].total
      /\ \A j \in Invoices \ {i} : invoice'[j] = invoice[j]
      /\ OnInvoices' = OnInvoices + (paid - invoice[i].paid)
  <2>1. paid \in Int
    BY <1>3
  <2> HIDE DEF paid, status, i
  <2> QED BY <1>2, <1>4, <2>1, PaidWritten
<1>10. status \in {"PAID", "PARTIALLY_PAID"} /\ (status = "PAID" => paid >= me.seen.total)
  OBVIOUS
<1>11. wallet \in Nat /\ me.method \in {"CASH", "MPESA", "WALLET"}
  BY <1>1, TurnOf DEF WorkerRecords
<1> HIDE DEF me, i, k, applied, status, row
<1>12. RowsOK'
  <2>1. RowOK(row)
    BY <1>1, <1>2, <1>3, <1>6, <1>8 DEF RowOK
  <2> QED BY <1>1, <1>5, <2>1, RowsMoved DEF Accounts
<1>13. InvoiceAgrees'
  <2>1. ASSUME NEW j \in Invoices
        PROVE  /\ invoice'[j].paid = invoice[j].paid - OnTo(payment[k], j) + OnTo(payment'[k], j)
               /\ invoice'[j].status = "PAID" => invoice'[j].paid >= invoice'[j].total
               /\ invoice'[j].status = "PENDING" => invoice'[j].paid = 0
    <3>1. OnTo(payment[k], j) = 0 /\ OnTo(payment'[k], j) = (IF j = i THEN applied ELSE 0)
      BY <1>4, <1>5, <1>8 DEF OnTo
    <3>2. CASE j = i
      BY <3>1, <3>2, <1>2, <1>3, <1>9, <1>10
    <3>3. CASE j # i
      <4>1. invoice'[j] = invoice[j]
        BY <3>3, <1>9
      <4>2. invoice[j].paid \in Nat
        BY TurnOf DEF InvoiceRecords
      <4>3. /\ invoice[j].status = "PAID" => invoice[j].paid >= invoice[j].total
            /\ invoice[j].status = "PENDING" => invoice[j].paid = 0
        BY DEF Accounts, InvoiceAgrees
      <4> QED BY <3>1, <3>3, <4>1, <4>2, <4>3
    <3> QED BY <3>2, <3>3
  <2> QED BY <2>1, <1>1, <1>5, AgreesMoved DEF Accounts
<1>14. MoneyAccounted'
  <2>1. /\ Handed(payment[k]) = 0 /\ Left(payment[k]) = 0
        /\ Handed(payment'[k]) = (IF me.method = "WALLET" THEN 0 ELSE me.amount)
        /\ Left(payment'[k]) = 0
    BY <1>1, <1>3, <1>4, <1>5, <1>7, <1>8, <1>11 DEF Handed, Left
  <2>2. paid - invoice[i].paid = applied
    BY <1>2, <1>3
  <2>3. OnInvoices' = OnInvoices + applied /\ applied \in Int
    BY <1>3, <1>9, <2>2
  <2>4. wallet' + applied = wallet - Handed(payment[k]) + Handed(payment'[k])
                              - Left(payment[k]) + Left(payment'[k])
    BY <2>1, <1>1, <1>3, <1>4, <1>6, <1>11
  <2> QED BY <2>3, <2>4, <1>1, <1>5, MoneyMoved DEF Accounts
<1> QED BY <1>12, <1>13, <1>14 DEF Accounts

LEMMA QuietTopUp ==
  ASSUME AccountInv, AccountInv', Accounts, NEW w \in Workers, TrueTo(worker[w]), commitTopUp(w)
  PROVE  Accounts'
<1> DEFINE me == worker[w]
           k == me.key
           row == ToppedUpRow(me)
<1>1. /\ me.pc = "topUp" /\ k \in Keys /\ me.amount \in Nat
      /\ me.method \in {"CASH", "MPESA"} /\ wallet \in Nat
  BY TurnOf DEF commitTopUp, TrueTo, WorkerRecords
<1>2. /\ payment' = [payment EXCEPT ![k] = row]
      /\ wallet' = wallet + me.amount /\ UNCHANGED invoice
      /\ payment[k].status = "NONE"
  BY DEF commitTopUp, ToppedUpRow, Recorded
<1>3. OnlyPayment(k) /\ payment'[k] = row
  BY <1>1, <1>2, RowWritten
<1>4. payment[k].invoice = NoInvoice
  BY <1>1, <1>2 DEF Accounts, RowsOK, RowOK
<1>5. /\ row.status = "COMPLETED" /\ row.method = me.method /\ row.invoice = NoInvoice
      /\ row.amount = me.amount /\ row.gross = me.amount /\ row.credited = me.amount
  BY DEF ToppedUpRow
<1> HIDE DEF me, k, row
<1>6. RowsOK'
  <2>1. RowOK(row)
    BY <1>1, <1>5 DEF RowOK
  <2> QED BY <1>1, <1>3, <2>1, RowsMoved DEF Accounts
<1>7. InvoiceAgrees'
  <2>1. ASSUME NEW j \in Invoices
        PROVE  /\ invoice'[j].paid = invoice[j].paid - OnTo(payment[k], j) + OnTo(payment'[k], j)
               /\ invoice'[j].status = "PAID" => invoice'[j].paid >= invoice'[j].total
               /\ invoice'[j].status = "PENDING" => invoice'[j].paid = 0
    <3>1. OnTo(payment[k], j) = 0 /\ OnTo(payment'[k], j) = 0
      BY <1>2, <1>3, <1>5, NullAssumption DEF OnTo
    <3>2. invoice[j].paid \in Nat
      BY TurnOf, <1>1 DEF InvoiceRecords
    <3>3. /\ invoice[j].status = "PAID" => invoice[j].paid >= invoice[j].total
          /\ invoice[j].status = "PENDING" => invoice[j].paid = 0
      BY DEF Accounts, InvoiceAgrees
    <3> QED BY <3>1, <3>2, <3>3, <1>2
  <2> QED BY <2>1, <1>1, <1>3, AgreesMoved DEF Accounts
<1>8. MoneyAccounted'
  <2>1. /\ Handed(payment[k]) = 0 /\ Left(payment[k]) = 0
        /\ Handed(payment'[k]) = me.amount /\ Left(payment'[k]) = 0
    BY <1>1, <1>2, <1>3, <1>4, <1>5 DEF Handed, Left
  <2>2. OnInvoices' = OnInvoices + 0
    <3>1. OnInvoices \in Int
      BY TurnOf, PaidIsNumber
    <3>2. OnInvoices' = OnInvoices
      BY <1>2 DEF OnInvoices
    <3> QED BY <3>1, <3>2
  <2>3. wallet' + 0 = wallet - Handed(payment[k]) + Handed(payment'[k])
                              - Left(payment[k]) + Left(payment'[k])
    BY <2>1, <1>1, <1>2
  <2> QED BY <2>2, <2>3, <1>1, <1>3, MoneyMoved DEF Accounts
<1> QED BY <1>6, <1>7, <1>8 DEF Accounts

\* An invoice took at least what each of its payments applied.
LEMMA AppliedCovers ==
  ASSUME payment \in [Keys -> PaymentRecords], NEW i, NEW k \in CompletedFor(i)
  PROVE  payment[k].amount <= AppliedTo(i)
<1> DEFINE f == [j \in Keys |-> payment[j].amount]
           S == CompletedFor(i) \ {k}
<1>1. /\ k \in Keys /\ k \notin S /\ S \in SUBSET Keys /\ S \cup {k} = CompletedFor(i)
      /\ f[k] = payment[k].amount
  BY DEF CompletedFor
<1>2. \A j \in Keys : f[j] \in Nat
  BY DEF PaymentRecords
<1>3. AppliedTo(i) = SumFunctionOnSet(f, CompletedFor(i))
  BY DEF AppliedTo
<1> HIDE DEF f, S
<1>4. IsFiniteSet(S)
  BY <1>1, FiniteAssumption, FS_Subset
<1>5. SumFunctionOnSet(f, S) \in Nat
  <2>1. \A j \in S : f[j] \in Nat
    BY <1>1, <1>2
  <2> QED BY <1>4, <2>1, SumNat
<1>6. SumFunctionOnSet(f, S \cup {k}) = f[k] + SumFunctionOnSet(f, S)
  <2>1. \A j \in S \cup {k} : f[j] \in Int
    BY <1>1, <1>2
  <2> QED BY <1>1, <1>4, <2>1, SumAdd
<1>7. f[k] \in Nat
  BY <1>1, <1>2
<1>8. AppliedTo(i) = f[k] + SumFunctionOnSet(f, S)
  BY <1>1, <1>3, <1>6
<1> QED BY <1>1, <1>5, <1>7, <1>8

\* What every invoice but the one written keeps.
LEMMA OtherInvoice ==
  ASSUME AccountInv, InvoiceAgrees, NEW j \in Invoices, invoice'[j] = invoice[j]
  PROVE  /\ invoice[j].paid \in Nat /\ invoice'[j].paid = invoice[j].paid
         /\ invoice'[j].status = "PAID" => invoice'[j].paid >= invoice'[j].total
         /\ invoice'[j].status = "PENDING" => invoice'[j].paid = 0
<1>1. invoice[j].paid \in Nat
  BY InvInParts DEF TablesOK, InvoiceRecords
<1> QED BY <1>1 DEF InvoiceAgrees

\* The payment that a lone reversal has read.
LEMMA ReversalRead ==
  ASSUME AccountInv, Accounts, NEW w \in Workers, TrueTo(worker[w]), worker[w].pc = "unapply"
  PROVE  LET me == worker[w]
             p == payment[me.key]
         IN  /\ me.key \in Keys /\ me.amount \in Nat /\ p \in PaymentRecords
             /\ p.status = "COMPLETED" /\ p.amount = me.amount
             /\ p.invoice = me.invoice /\ p.method = me.method
             /\ RowOK(p)
             /\ me.invoice # NoInvoice => /\ me.invoice \in Invoices
                                          /\ me.seen.paid = invoice[me.invoice].paid
                                          /\ me.seen.total = invoice[me.invoice].total
                                          /\ me.seen.paid \in Nat /\ me.seen.total \in Nat
                                          /\ me.amount <= me.seen.paid
<1> DEFINE me == worker[w]
           p == payment[me.key]
<1>1. /\ me.key \in Keys /\ me.amount \in Nat /\ me \in WorkerRecords
      /\ payment \in [Keys -> PaymentRecords] /\ me.seen \in InvoiceRecords
  BY TurnOf
<1>2. /\ p.status = "COMPLETED" /\ p.amount = me.amount
      /\ p.invoice = me.invoice /\ p.method = me.method
  BY DEF TrueTo
<1>3. RowOK(p)
  BY <1>1 DEF Accounts, RowsOK
<1>4. ASSUME me.invoice # NoInvoice
      PROVE  /\ me.invoice \in Invoices
             /\ me.seen.paid = invoice[me.invoice].paid
             /\ me.seen.total = invoice[me.invoice].total
             /\ me.seen.paid \in Nat /\ me.seen.total \in Nat
             /\ me.amount <= me.seen.paid
  <2>1. me.invoice \in Invoices
    BY <1>1, <1>4 DEF WorkerRecords
  <2>2. me.seen.paid = invoice[me.invoice].paid
    BY <1>4 DEF TrueTo
  <2>3. me.seen.total = invoice[me.invoice].total
    BY <1>4, InvInParts DEF WorkersOK, HeldOK
  <2>4. me.seen.paid \in Nat /\ me.seen.total \in Nat
    BY <1>1 DEF InvoiceRecords
  <2>5. me.key \in CompletedFor(me.invoice)
    BY <1>1, <1>2 DEF CompletedFor
  <2> HIDE DEF me
  <2>6. payment[me.key].amount <= AppliedTo(me.invoice)
    BY <1>1, <2>5, AppliedCovers
  <2>7. invoice[me.invoice].paid = AppliedTo(me.invoice)
    BY <2>1 DEF Accounts, InvoiceAgrees
  <2> QED BY <1>2, <2>1, <2>2, <2>3, <2>4, <2>6, <2>7
<1> QED BY <1>1, <1>2, <1>3, <1>4

\* A lone reversal writes the payment's row once.
LEMMA ReversalRow ==
  ASSUME AccountInv, AccountInv', Accounts, NEW w \in Workers, TrueTo(worker[w]), commitReversal(w)
  PROVE  /\ OnlyPayment(worker[w].key) /\ RowsOK'
         /\ payment'[worker[w].key].status = "REVERSED"
         /\ payment'[worker[w].key].invoice = payment[worker[w].key].invoice
         /\ payment'[worker[w].key].credited = payment[worker[w].key].credited
<1> DEFINE k == worker[w].key
           row == [payment[k] EXCEPT !.status = "REVERSED"]
<1>1. k \in Keys /\ payment[k] \in PaymentRecords
  BY ReversalRead DEF commitReversal
<1>2. payment' = [payment EXCEPT ![k] = row]
  BY DEF commitReversal
<1>3. /\ row.status = "REVERSED" /\ row.invoice = payment[k].invoice
      /\ row.credited = payment[k].credited
  BY <1>1 DEF PaymentRecords
<1> HIDE DEF row
<1>4. OnlyPayment(k) /\ payment'[k] = row
  BY <1>1, <1>2, RowWritten
<1>5. RowOK(row)
  BY <1>3 DEF RowOK
<1>6. RowsOK'
  BY <1>1, <1>4, <1>5, RowsMoved DEF Accounts
<1> QED BY <1>3, <1>4, <1>6

LEMMA QuietReversal ==
  ASSUME AccountInv, AccountInv', Accounts, NEW w \in Workers, TrueTo(worker[w]), commitReversal(w)
  PROVE  Accounts'
<1> DEFINE me == worker[w]
           i == me.invoice
           k == me.key
           p == payment[k]
           q == payment'[k]
           paid == paidAfterReversal(me.seen, me.amount)
           status == IF paid <= 0 THEN "PENDING"
                     ELSE IF paid < me.seen.total THEN "PARTIALLY_PAID" ELSE "PAID"
<1>1. /\ k \in Keys /\ me.amount \in Nat /\ p \in PaymentRecords
      /\ p.status = "COMPLETED" /\ p.amount = me.amount
      /\ p.invoice = i /\ p.method = me.method
      /\ RowOK(p)
      /\ i # NoInvoice => /\ i \in Invoices
                          /\ me.seen.paid = invoice[i].paid /\ me.seen.total = invoice[i].total
                          /\ me.seen.paid \in Nat /\ me.seen.total \in Nat
                          /\ me.amount <= me.seen.paid
  BY ReversalRead DEF commitReversal
<1>2. /\ OnlyPayment(k) /\ RowsOK'
      /\ q.status = "REVERSED" /\ q.invoice = i /\ q.credited = p.credited
  BY <1>1, ReversalRow
<1>3. /\ wallet' = walletAfterReversal(me)
      /\ i = NoInvoice => UNCHANGED invoice
      /\ i # NoInvoice => SetPaid(i, paid, status)
  BY DEF commitReversal
<1>4. wallet \in Nat /\ p.gross \in Nat /\ p.credited \in Nat /\ p.method \in {"CASH", "MPESA", "WALLET"}
  BY <1>1, TurnOf DEF PaymentRecords
<1>5. /\ Handed(q) = 0
      /\ Left(q) = IF i # NoInvoice THEN p.credited ELSE 0
      /\ \A j \in Invoices : OnTo(q, j) = 0
  BY <1>2 DEF Handed, Left, OnTo
<1>6. /\ Handed(p) = IF p.method = "WALLET" THEN 0 ELSE p.gross
      /\ \A j \in Invoices : OnTo(p, j) = IF j = i THEN me.amount ELSE 0
  BY <1>1, <1>4 DEF Handed, OnTo
<1>7. CASE i = NoInvoice
  <2>1. UNCHANGED invoice /\ p.method # "WALLET" /\ p.amount = p.gross
    BY <1>1, <1>3, <1>7 DEF RowOK
  <2>2. wallet' = wallet - me.amount
    BY <1>1, <1>3, <1>7, <2>1 DEF walletAfterReversal
  <2>3. Left(p) = 0 /\ \A j \in Invoices : OnTo(p, j) = 0
    BY <1>1, <1>6, <1>7, NullAssumption DEF Left
  <2> HIDE DEF me, i, k, p, q
  <2>4. OnInvoices' = OnInvoices + 0
    <3>1. OnInvoices \in Int
      BY TurnOf, PaidIsNumber
    <3>2. OnInvoices' = OnInvoices
      BY <2>1 DEF OnInvoices
    <3> QED BY <3>1, <3>2
  <2>5. wallet' + 0 = wallet - Handed(p) + Handed(q) - Left(p) + Left(q)
    <3>1. Handed(p) = me.amount /\ Handed(q) = 0 /\ Left(p) = 0 /\ Left(q) = 0
      BY <1>1, <1>5, <1>6, <1>7, <2>1, <2>3
    <3> QED BY <1>1, <1>4, <2>2, <3>1
  <2>6. MoneyAccounted'
    BY <1>1, <1>2, <2>4, <2>5, MoneyMoved DEF Accounts, p, q
  <2>7. ASSUME NEW j \in Invoices
        PROVE  /\ invoice'[j].paid = invoice[j].paid - OnTo(p, j) + OnTo(q, j)
               /\ invoice'[j].status = "PAID" => invoice'[j].paid >= invoice'[j].total
               /\ invoice'[j].status = "PENDING" => invoice'[j].paid = 0
    <3>1. invoice'[j] = invoice[j]
      BY <2>1
    <3> QED BY <1>5, <2>3, <3>1, OtherInvoice DEF Accounts
  <2>8. InvoiceAgrees'
    BY <1>1, <1>2, <2>7, AgreesMoved DEF Accounts, p, q
  <2> QED BY <1>2, <2>6, <2>8 DEF Accounts
<1>8. CASE i # NoInvoice
  <2>1. paid = me.seen.paid - me.amount /\ paid \in Nat
    BY <1>1, <1>8 DEF paidAfterReversal
  <2>2. /\ invoice'[i].paid = paid /\ invoice'[i].status = status
        /\ invoice'[i].total = invoice[i].total
        /\ \A j \in Invoices \ {i} : invoice'[j] = invoice[j]
        /\ OnInvoices' = OnInvoices + (paid - invoice[i].paid)
    <3>1. paid \in Int /\ i \in Invoices
      BY <1>1, <1>8, <2>1
    <3> HIDE DEF paid, status, i
    <3> QED BY <1>3, <1>8, <3>1, PaidWritten
  <2>3. /\ status = "PAID" => paid >= me.seen.total
        /\ status = "PENDING" => paid = 0
    BY <1>1, <1>8, <2>1
  <2>4. wallet' = IF p.method = "WALLET" THEN wallet + me.amount ELSE wallet
    BY <1>1, <1>3, <1>8 DEF walletAfterReversal
  <2>5. /\ p.method = "WALLET" => p.credited = 0 /\ Left(p) = 0
        /\ p.method # "WALLET" => me.amount + (p.credited - Left(p)) = p.gross
        /\ Left(p) \in Nat
    BY <1>1, <1>4, <1>8 DEF RowOK, Left
  <2> HIDE DEF me, i, k, p, q, paid, status
  <2>6. paid - invoice[i].paid = 0 - me.amount
    BY <1>1, <1>8, <2>1
  <2>7. OnInvoices' = OnInvoices + (0 - me.amount) /\ 0 - me.amount \in Int
    BY <1>1, <2>2, <2>6
  <2>8. wallet' + (0 - me.amount) = wallet - Handed(p) + Handed(q) - Left(p) + Left(q)
    BY <1>1, <1>4, <1>5, <1>6, <1>8, <2>4, <2>5
  <2>9. MoneyAccounted'
    BY <1>1, <1>2, <2>7, <2>8, MoneyMoved DEF Accounts, p, q
  <2>10. ASSUME NEW j \in Invoices
        PROVE  /\ invoice'[j].paid = invoice[j].paid - OnTo(p, j) + OnTo(q, j)
               /\ invoice'[j].status = "PAID" => invoice'[j].paid >= invoice'[j].total
               /\ invoice'[j].status = "PENDING" => invoice'[j].paid = 0
    <3>1. CASE j = i
      BY <3>1, <1>1, <1>5, <1>6, <1>8, <2>1, <2>2, <2>3
    <3>2. CASE j # i
      <4>1. invoice'[j] = invoice[j]
        BY <3>2, <2>2
      <4>2. OnTo(p, j) = 0 /\ OnTo(q, j) = 0
        BY <3>2, <1>5, <1>6
      <4> QED BY <4>1, <4>2, OtherInvoice DEF Accounts
    <3> QED BY <3>1, <3>2
  <2>11. InvoiceAgrees'
    BY <1>1, <1>2, <2>10, AgreesMoved DEF Accounts, p, q
  <2> QED BY <1>2, <2>9, <2>11 DEF Accounts
<1> QED BY <1>7, <1>8

LEMMA QuietMatch ==
  ASSUME AccountInv, AccountInv', Accounts, NEW w \in Workers, TrueTo(worker[w]), commitMatch(w)
  PROVE  Accounts'
<1> DEFINE me == worker[w]
           i == me.invoice
           k == me.key
           p == payment[k]
           q == payment'[k]
           row == [p EXCEPT !.invoice = i]
           paid == me.seen.paid + me.amount
           status == IF paid >= me.seen.total THEN "PAID" ELSE "PARTIALLY_PAID"
<1>1. /\ me.pc = "match" /\ k \in Keys /\ me.amount \in Nat /\ p \in PaymentRecords
      /\ me.seen \in InvoiceRecords /\ wallet \in Nat
  BY TurnOf DEF commitMatch
<1>2. /\ i \in Invoices /\ i # NoInvoice /\ me.seen.total = invoice[i].total
      /\ me.seen.paid = invoice[i].paid
      /\ p.status = "COMPLETED" /\ p.amount = me.amount /\ p.invoice = NoInvoice
  BY <1>1, InvInParts, NullAssumption DEF WorkersOK, HeldOK, TrueTo
<1>3. p.method # "WALLET" /\ p.amount = p.gross /\ p.credited = p.gross
  BY <1>1, <1>2 DEF Accounts, RowsOK, RowOK
<1>4. payment' = [payment EXCEPT ![k] = row] /\ SetPaid(i, paid, status) /\ UNCHANGED wallet
  BY DEF commitMatch
<1>5. /\ row.status = p.status /\ row.method = p.method /\ row.invoice = i
      /\ row.amount = p.amount /\ row.gross = p.gross /\ row.credited = p.credited
  BY <1>1 DEF PaymentRecords
<1>6. OnlyPayment(k) /\ q = row
  <2> HIDE DEF row
  <2> QED BY <1>1, <1>4, RowWritten
<1>7. /\ paid \in Nat /\ me.seen.paid \in Nat
      /\ p.method \in {"CASH", "MPESA"}
  BY <1>1, <1>3 DEF InvoiceRecords, PaymentRecords
<1>8. /\ invoice'[i].paid = paid /\ invoice'[i].status = status
      /\ invoice'[i].total = invoice[i].total
      /\ \A j \in Invoices \ {i} : invoice'[j] = invoice[j]
      /\ OnInvoices' = OnInvoices + (paid - invoice[i].paid)
  <2>1. paid \in Int
    BY <1>7
  <2> HIDE DEF paid, status, i
  <2> QED BY <1>2, <1>4, <2>1, PaidWritten
<1>9. status \in {"PAID", "PARTIALLY_PAID"} /\ (status = "PAID" => paid >= me.seen.total)
  OBVIOUS
<1>10. paid - invoice[i].paid = me.amount
  BY <1>1, <1>2, <1>7
<1> HIDE DEF me, i, k, p, q, row, paid, status
<1>11. RowsOK'
  <2>1. RowOK(row)
    BY <1>1, <1>2, <1>3, <1>5 DEF RowOK
  <2> QED BY <1>1, <1>6, <2>1, RowsMoved DEF Accounts, q
<1>12. InvoiceAgrees'
  <2>1. ASSUME NEW j \in Invoices
        PROVE  /\ invoice'[j].paid = invoice[j].paid - OnTo(p, j) + OnTo(q, j)
               /\ invoice'[j].status = "PAID" => invoice'[j].paid >= invoice'[j].total
               /\ invoice'[j].status = "PENDING" => invoice'[j].paid = 0
    <3>1. OnTo(p, j) = 0 /\ OnTo(q, j) = (IF j = i THEN me.amount ELSE 0)
      BY <1>2, <1>5, <1>6, NullAssumption DEF OnTo
    <3>2. CASE j = i
      BY <3>1, <3>2, <1>1, <1>2, <1>7, <1>8, <1>9, <1>10
    <3>3. CASE j # i
      <4>1. invoice'[j] = invoice[j]
        BY <3>3, <1>8
      <4> QED BY <3>1, <3>3, <4>1, OtherInvoice DEF Accounts
    <3> QED BY <3>2, <3>3
  <2> QED BY <2>1, <1>1, <1>6, AgreesMoved DEF Accounts, p, q
<1>13. MoneyAccounted'
  <2>1. /\ Handed(p) = me.amount /\ Handed(q) = me.amount
        /\ Left(p) = 0 /\ Left(q) = me.amount
    BY <1>1, <1>2, <1>3, <1>5, <1>6, <1>7 DEF Handed, Left
  <2>2. OnInvoices' = OnInvoices + me.amount /\ me.amount \in Int
    BY <1>1, <1>8, <1>10
  <2>3. wallet' + me.amount = wallet - Handed(p) + Handed(q) - Left(p) + Left(q)
    BY <1>1, <1>4, <2>1
  <2> QED BY <2>2, <2>3, <1>1, <1>6, MoneyMoved DEF Accounts, p, q
<1> QED BY <1>11, <1>12, <1>13 DEF Accounts

\* Writing a status, the paid amount as it is, keeps the accounts.
LEMMA QuietStatus ==
  ASSUME AccountInv, AccountInv', Accounts, NEW i \in Invoices, NEW status \in {"VOID", "OVERDUE"},
         SetPaid(i, invoice[i].paid, status), UNCHANGED <<payment, wallet>>
  PROVE  Accounts'
<1>1. invoice[i].paid \in Int
  BY InvInParts DEF TablesOK, InvoiceRecords
<1>2. /\ invoice'[i].paid = invoice[i].paid /\ invoice'[i].status = status
      /\ \A j \in Invoices \ {i} : invoice'[j] = invoice[j]
  BY <1>1, PaidWritten
<1>3. ASSUME NEW j \in Invoices
      PROVE  /\ invoice'[j].paid = invoice[j].paid
             /\ invoice'[j].status = "PAID" => invoice'[j].paid >= invoice'[j].total
             /\ invoice'[j].status = "PENDING" => invoice'[j].paid = 0
  <2>1. CASE j = i
    BY <1>2, <2>1
  <2>2. CASE j # i
    BY <1>2, <2>2, OtherInvoice DEF Accounts
  <2> QED BY <2>1, <2>2
<1> QED BY <1>3, AccountsKept

\* Nothing is paid on an invoice that was not issued.
LEMMA NothingPaid ==
  ASSUME AccountInv, InvoiceAgrees, NEW i \in Invoices, invoice[i].status = "NONE"
  PROVE  invoice[i].paid = 0
<1>1. CompletedFor(i) = {}
  BY InvInParts, NullAssumption DEF PaymentsOK, CompletedFor
<1>2. AppliedTo(i) = 0
  BY <1>1, SumEmpty DEF AppliedTo
<1> QED BY <1>2 DEF InvoiceAgrees

\* A step of billing keeps the accounts and what the requests have read.
LEMMA QuietBilling ==
  ASSUME AccountInv, AccountInv', Accounts, \A w \in Workers : TrueTo(worker[w]), Billing
  PROVE  Accounts' /\ \A w \in Workers : TrueTo(worker[w])'
<1>1. UNCHANGED <<payment, wallet, worker>>
  BY DEF Billing, createInvoice, markOverdueInvoices
<1>2. invoice \in [Invoices -> InvoiceRecords]
  BY InvInParts DEF TablesOK
<1>3. Accounts' /\ \A j \in Invoices : invoice'[j].paid = invoice[j].paid
  <2>1. ASSUME NEW i \in Invoices, NEW total \in Totals, createInvoice(i, total)
        PROVE  Accounts' /\ \A j \in Invoices : invoice'[j].paid = invoice[j].paid
    <3>1. invoice[i].paid = 0
      BY <2>1, NothingPaid DEF createInvoice, Accounts
    <3>2. /\ invoice'[i].status = "PENDING" /\ invoice'[i].paid = 0
          /\ \A j \in Invoices \ {i} : invoice'[j] = invoice[j]
      BY <1>2, <2>1 DEF createInvoice
    <3>3. ASSUME NEW j \in Invoices
          PROVE  /\ invoice'[j].paid = invoice[j].paid
                 /\ invoice'[j].status = "PAID" => invoice'[j].paid >= invoice'[j].total
                 /\ invoice'[j].status = "PENDING" => invoice'[j].paid = 0
      <4>1. CASE j = i
        BY <3>1, <3>2, <4>1
      <4>2. CASE j # i
        BY <3>2, <4>2, OtherInvoice DEF Accounts
      <4> QED BY <4>1, <4>2
    <3> QED BY <1>1, <3>3, AccountsKept
  <2>2. ASSUME NEW i \in Invoices, markOverdueInvoices(i)
        PROVE  Accounts' /\ \A j \in Invoices : invoice'[j].paid = invoice[j].paid
    <3>1. SetPaid(i, invoice[i].paid, "OVERDUE")
      BY <2>2 DEF markOverdueInvoices
    <3>2. Accounts'
      BY <1>1, <3>1, QuietStatus
    <3>3. \A j \in Invoices : invoice'[j].paid = invoice[j].paid
      BY <1>2, <3>1 DEF SetPaid
    <3> QED BY <3>2, <3>3
  <2> QED BY <2>1, <2>2 DEF Billing
<1>4. ASSUME NEW w \in Workers PROVE TrueTo(worker[w])'
  <2>1. worker[w] \in WorkerRecords /\ TrueTo(worker[w])
    BY TurnOf
  <2>2. worker[w].invoice # NoInvoice => invoice'[worker[w].invoice].paid = invoice[worker[w].invoice].paid
    BY <1>3, <2>1 DEF WorkerRecords
  <2> QED BY <1>1, <2>1, <2>2 DEF TrueTo
<1> QED BY <1>3, <1>4

\* A request that begins alone has read what is there.
LEMMA QuietRequest ==
  ASSUME AccountInv, AccountInv', Accounts, NEW w \in Workers, Request(w)
  PROVE  Accounts' /\ TrueTo(worker[w])'
<1>0. worker \in [Workers -> WorkerRecords] /\ invoice \in [Invoices -> InvoiceRecords]
  BY InvInParts DEF WorkersOK, TablesOK
<1>1. UNCHANGED accountVars
  BY DEF Request, Starts, recordPaymentForInvoice, topUpWallet, refundPayment, matchPayment,
         voidInvoice
<1>2. Accounts'
  <2>1. ASSUME NEW j \in Invoices
        PROVE  /\ invoice'[j].paid = invoice[j].paid
               /\ invoice'[j].status = "PAID" => invoice'[j].paid >= invoice'[j].total
               /\ invoice'[j].status = "PENDING" => invoice'[j].paid = 0
    <3>1. invoice'[j] = invoice[j]
      BY <1>1 DEF accountVars
    <3> QED BY <3>1, OtherInvoice DEF Accounts
  <2> QED BY <1>1, <2>1, AccountsKept DEF accountVars
<1> DEFINE Begins(r) == worker' = [worker EXCEPT ![w] = r]
<1>3. ASSUME NEW r, Begins(r), TrueTo(r) PROVE TrueTo(worker[w])'
  BY <1>0, <1>1, <1>3 DEF TrueTo, accountVars
<1> HIDE DEF Begins
<1>4. ASSUME NEW k \in Keys, NEW amount \in PaidAmounts, NEW i \in Invoices, NEW method \in Methods,
             recordPaymentForInvoice(w, k, i, method, amount)
      PROVE  TrueTo(worker[w])'
  <2>1. Begins(Task("pay", k, i, method, amount, invoice[i]))
    BY <1>4 DEF recordPaymentForInvoice, Starts, Begins
  <2>2. TrueTo(Task("pay", k, i, method, amount, invoice[i]))
    BY <1>0, <1>4, InvInParts DEF recordPaymentForInvoice, Recorded, TrueTo, Task, TablesOK, PaymentRecords
  <2> QED BY <2>1, <2>2, <1>3
<1>5. ASSUME NEW k \in Keys, NEW amount \in PaidAmounts, NEW method \in Methods \ {"WALLET"},
             topUpWallet(w, k, method, amount)
      PROVE  TrueTo(worker[w])'
  <2>1. Begins(Task("topUp", k, NoInvoice, method, amount, NotIssued))
    BY <1>5 DEF topUpWallet, Starts, Begins
  <2>2. TrueTo(Task("topUp", k, NoInvoice, method, amount, NotIssued))
    BY <1>5 DEF topUpWallet, Recorded, TrueTo, Task
  <2> QED BY <2>1, <2>2, <1>3
<1>6. ASSUME NEW k \in Keys, refundPayment(w, k) PROVE TrueTo(worker[w])'
  <2> DEFINE r == Task("reverse", k, payment[k].invoice, payment[k].method, payment[k].amount, NotIssued)
  <2>1. Begins(r)
    BY <1>6 DEF refundPayment, Starts, Begins
  <2>2. TrueTo(r)
    BY <1>6 DEF refundPayment, TrueTo, Task
  <2> HIDE DEF r
  <2> QED BY <2>1, <2>2, <1>3
<1>7. ASSUME NEW k \in Keys, NEW i \in Invoices, matchPayment(w, k, i) PROVE TrueTo(worker[w])'
  <2> DEFINE r == Task("match", k, i, payment[k].method, payment[k].amount, invoice[i])
  <2>1. Begins(r)
    BY <1>7 DEF matchPayment, Starts, Begins
  <2>2. TrueTo(r)
    BY <1>7 DEF matchPayment, TrueTo, Task
  <2> HIDE DEF r
  <2> QED BY <2>1, <2>2, <1>3
<1>8. ASSUME NEW i \in Invoices, voidInvoice(w, i) PROVE TrueTo(worker[w])'
  <2> DEFINE r == Task("void", NoKey, i, "CASH", 0, NotIssued)
  <2>1. Begins(r)
    BY <1>8 DEF voidInvoice, Starts, Begins
  <2>2. TrueTo(r)
    BY DEF TrueTo, Task
  <2> HIDE DEF r
  <2> QED BY <2>1, <2>2, <1>3
<1> QED BY <1>2, <1>4, <1>5, <1>6, <1>7, <1>8 DEF Request

\* A commit keeps the accounts, and leaves its worker idle or about to write what it read.
LEMMA QuietCommit ==
  ASSUME AccountInv, AccountInv', Accounts, NEW w \in Workers, TrueTo(worker[w]), Commit(w)
  PROVE  Accounts' /\ TrueTo(worker[w])'
<1>0. worker \in [Workers -> WorkerRecords]
  BY InvInParts DEF WorkersOK
<1>1. ASSUME Rests(w) PROVE TrueTo(worker[w])'
  BY <1>0, <1>1 DEF Rests, Resting, Task, TrueTo
<1>2. ASSUME UNCHANGED accountVars PROVE Accounts'
  <2>1. ASSUME NEW j \in Invoices
        PROVE  /\ invoice'[j].paid = invoice[j].paid
               /\ invoice'[j].status = "PAID" => invoice'[j].paid >= invoice'[j].total
               /\ invoice'[j].status = "PENDING" => invoice'[j].paid = 0
    <3>1. invoice'[j] = invoice[j]
      BY <1>2 DEF accountVars
    <3> QED BY <3>1, OtherInvoice DEF Accounts
  <2> QED BY <1>2, <2>1, AccountsKept DEF accountVars
<1>3. CASE commitPayment(w)
  BY <1>1, <1>3, QuietPay DEF commitPayment
<1>4. CASE commitTopUp(w)
  BY <1>1, <1>4, QuietTopUp DEF commitTopUp
<1>5. CASE commitReversal(w)
  BY <1>1, <1>5, QuietReversal DEF commitReversal
<1>6. CASE commitMatch(w)
  BY <1>1, <1>6, QuietMatch DEF commitMatch
<1>7. CASE commitVoid(w)
  <2>1. worker[w].invoice \in Invoices
    BY <1>7, InvInParts DEF WorkersOK, HeldOK, commitVoid
  <2>2. SetPaid(worker[w].invoice, invoice[worker[w].invoice].paid, "VOID") /\ UNCHANGED <<payment, wallet>>
    BY <1>7 DEF commitVoid
  <2>3. Accounts'
    BY <2>1, <2>2, QuietStatus
  <2> QED BY <1>1, <1>7, <2>3 DEF commitVoid
<1>8. CASE rollback(w)
  BY <1>1, <1>2, <1>8 DEF rollback
<1>9. CASE readInvoiceToReverse(w)
  <2> DEFINE me == worker[w]
             seen == IF me.invoice = NoInvoice THEN NotIssued ELSE invoice[me.invoice]
             r == Task("unapply", me.key, me.invoice, me.method, me.amount, seen)
  <2>1. worker' = [worker EXCEPT ![w] = r] /\ UNCHANGED accountVars /\ me.pc = "reverse"
    BY <1>9 DEF readInvoiceToReverse
  <2>2. worker'[w] = r
    BY <1>0, <2>1
  <2>3. TrueTo(r)
    BY <2>1 DEF TrueTo, Task
  <2> HIDE DEF r
  <2>4. TrueTo(worker[w])'
    BY <2>1, <2>2, <2>3 DEF TrueTo, accountVars
  <2> QED BY <1>2, <2>1, <2>4
<1>10. CASE countUnpaid(w) \/ listSuspended(w)
  <2> DEFINE me == worker[w]
             r == worker'[w]
  <2>1. me \in WorkerRecords /\ me.pc \in PaysInvoice /\ UNCHANGED accountVars
    BY <1>0, <1>10 DEF countUnpaid, listSuspended
  <2>2. /\ r.pc \in PaysInvoice /\ r.key = me.key /\ r.invoice = me.invoice
        /\ r.method = me.method /\ r.amount = me.amount /\ r.seen = me.seen
    <3>1. CASE countUnpaid(w)
      <4>1. PICK next \in {"list", "restore"} : worker' = [worker EXCEPT ![w].pc = next]
        BY <3>1 DEF countUnpaid
      <4> QED BY <1>0, <2>1, <4>1 DEF WorkerRecords
    <3>2. CASE listSuspended(w)
      BY <1>0, <2>1, <3>2 DEF listSuspended, WorkerRecords
    <3> QED BY <1>10, <3>1, <3>2
  <2> HIDE DEF me, r
  <2>3. TrueTo(r)
    BY <2>1, <2>2 DEF TrueTo, me
  <2>4. TrueTo(worker[w])'
    BY <2>1, <2>3 DEF TrueTo, accountVars, r
  <2> QED BY <1>2, <2>1, <2>4
<1> QED BY <1>3, <1>4, <1>5, <1>6, <1>7, <1>8, <1>9, <1>10 DEF Commit

\* A request begins by recording what it read.
LEMMA RequestStarts ==
  ASSUME NEW w \in Workers, Request(w)
  PROVE  \E pc \in {"pay", "topUp", "reverse", "match", "void"} :
           \E k, i, method, amount, seen : Starts(w, Task(pc, k, i, method, amount, seen))
<1>1. ASSUME NEW k \in Keys, NEW amount \in PaidAmounts, NEW i \in Invoices, NEW method \in Methods,
             recordPaymentForInvoice(w, k, i, method, amount)
      PROVE  Starts(w, Task("pay", k, i, method, amount, invoice[i]))
  BY <1>1 DEF recordPaymentForInvoice
<1>2. ASSUME NEW k \in Keys, NEW amount \in PaidAmounts, NEW method \in Methods,
             topUpWallet(w, k, method, amount)
      PROVE  Starts(w, Task("topUp", k, NoInvoice, method, amount, NotIssued))
  BY <1>2 DEF topUpWallet
<1>3. ASSUME NEW k \in Keys, refundPayment(w, k)
      PROVE  Starts(w, Task("reverse", k, payment[k].invoice, payment[k].method,
                            payment[k].amount, NotIssued))
  BY <1>3 DEF refundPayment
<1>4. ASSUME NEW k \in Keys, NEW i \in Invoices, matchPayment(w, k, i)
      PROVE  Starts(w, Task("match", k, i, payment[k].method, payment[k].amount, invoice[i]))
  BY <1>4 DEF matchPayment
<1>5. ASSUME NEW i \in Invoices, voidInvoice(w, i)
      PROVE  Starts(w, Task("void", NoKey, i, "CASH", 0, NotIssued))
  BY <1>5 DEF voidInvoice
<1> QED BY <1>1, <1>2, <1>3, <1>4, <1>5, Zenon DEF Request

\* A step of a request is of one worker only.
LEMMA OneWorker ==
  ASSUME AccountInv, NEW w \in Workers, Request(w) \/ Commit(w)
  PROVE  /\ \A v \in Workers \ {w} : worker'[v] = worker[v]
         /\ Request(w) => worker'[w].pc # "idle"
         /\ Commit(w) => worker[w].pc # "idle"
<1>0. worker \in [Workers -> WorkerRecords]
  BY InvInParts DEF WorkersOK
<1>1. ASSUME Request(w)
      PROVE  (\A v \in Workers \ {w} : worker'[v] = worker[v]) /\ worker'[w].pc # "idle"
  <2>1. PICK pc \in {"pay", "topUp", "reverse", "match", "void"} :
          \E k, i, method, amount, seen : Starts(w, Task(pc, k, i, method, amount, seen))
    BY <1>1, RequestStarts
  <2> QED BY <1>0, <2>1 DEF Starts, Task
<1>2. ASSUME Commit(w)
      PROVE  (\A v \in Workers \ {w} : worker'[v] = worker[v]) /\ worker[w].pc # "idle"
  <2>1. PICK r : worker' = [worker EXCEPT ![w] = r]
    BY <1>2
    DEF Commit, countUnpaid, listSuspended, commitPayment, commitTopUp, readInvoiceToReverse,
        commitReversal, commitMatch, commitVoid, rollback, Rests
  <2>2. worker[w].pc # "idle"
    BY <1>2
    DEF Commit, countUnpaid, listSuspended, commitPayment, commitTopUp, readInvoiceToReverse,
        commitReversal, commitMatch, commitVoid, rollback
  <2> QED BY <1>0, <2>1, <2>2
<1> QED BY <1>1, <1>2

LEMMA BusyFinite ==
  ASSUME AccountInv, IsFiniteSet(Busy), [AccountNext]_paymentVars
  PROVE  IsFiniteSet(Busy')
<1>1. CASE UNCHANGED worker
  <2>1. Busy' = Busy
    BY <1>1 DEF Busy
  <2> QED BY <2>1
<1>2. ASSUME NEW w \in Workers, Request(w) \/ Commit(w) PROVE IsFiniteSet(Busy')
  <2>1. Busy' \in SUBSET (Busy \cup {w})
    BY <1>2, OneWorker DEF Busy
  <2>2. IsFiniteSet(Busy \cup {w})
    BY FS_AddElement
  <2> QED BY <2>1, <2>2, FS_Subset
<1>3. Billing => UNCHANGED worker
  BY DEF Billing, createInvoice, markOverdueInvoices
<1> QED BY <1>1, <1>2, <1>3 DEF AccountNext, paymentVars

LEMMA QuietStep ==
  ASSUME AccountInv, AccountInv', QuietInv, [OverlapNext]_<<paymentVars, overlap>>
  PROVE  QuietInv'
<1>1. [AccountNext]_paymentVars /\ (overlap' <=> overlap)
  BY DEF OverlapNext
<1>2. IsFiniteSet(Busy) /\ IsFiniteSet(Busy')
  BY <1>1, BusyFinite DEF QuietInv
<1> SUFFICES ASSUME ~overlap
             PROVE  /\ Cardinality(Busy') <= 1
                    /\ \A v \in Workers : TrueTo(worker[v])'
                    /\ Accounts'
  BY <1>1, <1>2, Zenon DEF QuietInv
<1>3. /\ Cardinality(Busy) <= 1 /\ Accounts
      /\ \A v \in Workers : TrueTo(worker[v])
  BY DEF QuietInv
<1>4. CASE UNCHANGED <<paymentVars, overlap>>
  <2>1. UNCHANGED <<accountVars, worker>>
    BY <1>4 DEF paymentVars
  <2>2. Busy' = Busy
    BY <2>1 DEF Busy
  <2>3. \A v \in Workers : TrueTo(worker[v])'
    BY <1>3, <2>1 DEF TrueTo, accountVars
  <2>4. ASSUME NEW j \in Invoices
        PROVE  /\ invoice'[j].paid = invoice[j].paid
               /\ invoice'[j].status = "PAID" => invoice'[j].paid >= invoice'[j].total
               /\ invoice'[j].status = "PENDING" => invoice'[j].paid = 0
    <3>1. invoice'[j] = invoice[j]
      BY <2>1 DEF accountVars
    <3> QED BY <3>1, <1>3, OtherInvoice DEF Accounts
  <2>5. Accounts'
    BY <1>3, <2>1, <2>4, AccountsKept DEF accountVars
  <2> QED BY <1>3, <2>2, <2>3, <2>5
<1>5. CASE OverlapNext
  <2>1. Cardinality(Busy') <= 1
    BY <1>5 DEF OverlapNext
  <2>2. ASSUME NEW w \in Workers, Request(w) \/ Commit(w)
        PROVE  /\ \A v \in Workers : TrueTo(worker[v])'
               /\ Accounts'
    <3>1. Accounts' /\ TrueTo(worker[w])'
      BY <1>3, <2>2, QuietRequest, QuietCommit
    <3>2. ASSUME NEW v \in Workers, v # w PROVE TrueTo(worker[v])'
      <4>1. worker'[v].pc = "idle"
        <5>1. /\ worker'[v] = worker[v]
              /\ Request(w) => worker'[w].pc # "idle"
              /\ Commit(w) => worker[w].pc # "idle"
          BY <2>2, <3>2, OneWorker
        <5>2. CASE Request(w)
          <6>1. w \in Busy'
            BY <5>1, <5>2 DEF Busy
          <6>2. v \notin Busy'
            <7> SUFFICES ASSUME v \in Busy' PROVE FALSE
              OBVIOUS
            <7> HIDE DEF Busy
            <7> QED BY <1>2, <2>1, <3>2, <6>1, CountOne
          <6> QED BY <6>2 DEF Busy
        <5>3. CASE Commit(w)
          <6>1. w \in Busy
            BY <5>1, <5>3 DEF Busy
          <6>2. v \notin Busy
            BY <1>2, <1>3, <3>2, <6>1, CountOne
          <6> QED BY <5>1, <6>2 DEF Busy
        <5> QED BY <2>2, <5>2, <5>3
      <4> QED BY <4>1 DEF TrueTo
    <3> QED BY <3>1, <3>2, Zenon
  <2>3. CASE Billing
    BY <1>3, <2>1, <2>3, QuietBilling
  <2> QED BY <1>5, <2>1, <2>2, <2>3 DEF OverlapNext, AccountNext
<1> QED BY <1>4, <1>5

LEMMA QuietCorrect == OverlapSpec => []QuietInv
<1>1. OverlapInit => QuietInv
  <2> SUFFICES ASSUME OverlapInit PROVE QuietInv
    OBVIOUS
  <2>1. AccountInit
    BY DEF OverlapInit
  <2>2. Busy = {}
    BY <2>1 DEF Busy, AccountInit, Resting, Task
  <2>3. IsFiniteSet(Busy) /\ Cardinality(Busy) = 0
    BY <2>2, FS_EmptySet
  <2>4. \A w \in Workers : TrueTo(worker[w])
    BY <2>1 DEF AccountInit, Resting, Task, TrueTo
  <2>5. RowsOK
    BY <2>1 DEF AccountInit, NotPaid, RowsOK, RowOK
  <2>6. Accounts
    BY <2>1, <2>5, NothingYet DEF Accounts
  <2> QED BY <2>3, <2>4, <2>6 DEF QuietInv
<1>2. AccountInv /\ AccountInv' /\ QuietInv /\ [OverlapNext]_<<paymentVars, overlap>> => QuietInv'
  BY QuietStep
<1> QED BY <1>1, <1>2, OverlapAccount, PTL DEF OverlapSpec

\* While requests do not overlap, after any sequence of payments, overpayments, reversals,
\* matches and voids, what an invoice says was paid is what its completed payments come
\* to, and its status says whether that covers the total.
THEOREM QuietInvoices == OverlapSpec => []QuietInvoiceAgrees
<1>1. QuietInv => QuietInvoiceAgrees
  BY DEF QuietInv, QuietInvoiceAgrees, Accounts
<1> QED BY <1>1, QuietCorrect, PTL

\* While requests do not overlap, no shilling appears or disappears, but for the credits
\* that reversed overpayments and matched top-ups leave behind in the wallet.
THEOREM QuietMoney == OverlapSpec => []QuietMoneyAccounted
<1>1. QuietInv => QuietMoneyAccounted
  BY DEF QuietInv, QuietMoneyAccounted, Accounts
<1> QED BY <1>1, QuietCorrect, PTL

===============================================================================
