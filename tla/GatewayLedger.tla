---------------------------- MODULE GatewayLedger ----------------------------
(***************************************************************************)
(* The money the platform collects for its tenants:                        *)
(*   packages/payments/src/ledger.service.ts          the append-only      *)
(*                                                    tenant ledger        *)
(*   packages/payments/src/gateway/collection.service.ts  step 2: a        *)
(*                                                    verified payment     *)
(*   packages/payments/src/gateway/refund.service.ts  refunds, reversals   *)
(*                                                                         *)
(* Every action is one database transaction.  A gateway transaction is     *)
(* named by the Payment it belongs to (gateway_transactions.paymentId is   *)
(* unique), so Txns stands for both tables.                                *)
(***************************************************************************)
EXTENDS Fees, Sequences, FiniteSetsExt

CONSTANTS
    Tenants,
    Txns,           \* payments the platform may receive
    Grosses,        \* gross amounts a customer may pay, in minor units
    FeeRule,        \* the effective fee rule of every tenant
    RefundAmounts,  \* amounts a super admin may enter for a REFUND
    MaxRefunds,     \* bound: refunds recorded on one transaction
    MaxMinor        \* the largest amount a ledger row holds (a 32-bit column)

ASSUME TenantsAssumption == Tenants # {}
ASSUME GrossesAssumption == Grosses \subseteq 1..MaxMinor
ASSUME FeeRuleAssumption == FeeRule \in FeeRules
ASSUME RefundsAssumption == RefundAmounts \subseteq Nat /\ MaxRefunds \in Nat
ASSUME MaxMinorAssumption == MaxMinor \in Nat

VARIABLES
    ledger,     \* tenant_ledger_entries, a set: the rows are never changed
    gw,         \* gateway_transactions
    refunds,    \* gateway_refunds of each transaction, oldest first
    payment     \* payments.status, as far as the gateway looks at it

gatewayVars == <<ledger, gw, refunds, payment>>

-------------------------------------------------------------------------------
(* The ledger.  (sourceType, sourceId) is the idempotency key of a row. *)

Entry(source, tenant, direction, entryType, amount) ==
    [source |-> source, tenantId |-> tenant, direction |-> direction,
     entryType |-> entryType, amountMinor |-> amount]

Amounts == 1..MaxMinor   \* what appendLedgerEntry accepts; it throws otherwise

HasEntry(L, source) == \E e \in L : e.source = source

appendLedgerEntry(L, e) == IF HasEntry(L, e.source) THEN L ELSE L \cup {e}

Signed(e) == IF e.direction = "CREDIT" THEN e.amountMinor ELSE - e.amountMinor

TotalOf(entries) == SumFunctionOnSet([e \in entries |-> Signed(e)], entries)

availableMinor(t) == TotalOf({e \in ledger : e.tenantId = t})

\* Whole shillings only: M-Pesa has no cents.
settleableMinor(t) ==
    IF availableMinor(t) > 0 THEN (availableMinor(t) \div 100) * 100 ELSE 0

CollectionSource(x) == <<"GatewayTransaction", x>>
FeeSource(x)        == <<"GatewayTransactionFee", x>>
RefundSource(x, k)  == <<"GatewayRefund", x, k>>
RefundFeeSource(x, k) == <<"GatewayRefundFee", x, k>>

-------------------------------------------------------------------------------
(* Step 2: a payment verified by Safaricom and received by the platform.   *)

NoSettlement == 0

Uncollected ==
    [status |-> "NONE", tenantId |-> CHOOSE t \in Tenants : TRUE, grossMinor |-> 0,
     feeMinor |-> 0, refundedMinor |-> 0,
     settlementStatus |-> "UNSETTLED", settlementId |-> NoSettlement]

Open(x) == gw[x].status \in {"COMPLETED", "PARTIALLY_REFUNDED"}

\* The caller records the Payment in the same transaction.  A replayed callback
\* finds the transaction of its Payment and writes nothing.
recordPlatformCollection(x, t, gross) ==
    LET fee == FeeOf(gross, FeeRule)
        credited == appendLedgerEntry(ledger,
            Entry(CollectionSource(x), t, "CREDIT", "CUSTOMER_PAYMENT", gross))
    IN  /\ gw[x].status = "NONE"
        /\ gw' = [gw EXCEPT ![x] = [Uncollected EXCEPT
                    !.status = "COMPLETED", !.tenantId = t,
                    !.grossMinor = gross, !.feeMinor = fee]]
        /\ ledger' = IF fee > 0
                     THEN appendLedgerEntry(credited,
                            Entry(FeeSource(x), t, "DEBIT", "PLATFORM_FEE", fee))
                     ELSE credited
        /\ payment' = [payment EXCEPT ![x] = "COMPLETED"]
        /\ UNCHANGED refunds

-------------------------------------------------------------------------------
(* Refunds and reversals. *)

feesReturned(x) == SumFunction([k \in DOMAIN refunds[x] |-> refunds[x][k].feeReturnedMinor])

\* Mutant of remainingMinor: what was already refunded is forgotten.
WholeGross(x) == gw[x].grossMinor

remainingMinor(x) == gw[x].grossMinor - gw[x].refundedMinor

\* Mutant of refundedAfter: the amount is stored, not added.
OnlyThisRefund(x, amount) == amount

refundedAfter(x, amount) == gw[x].refundedMinor + amount

\* The part both kinds share.  kind is "REVERSAL" or "REFUND"; completed says
\* that Safaricom has already returned the money to the customer.
recordRefundRows(x, kind, amount, completed) ==
    LET t == gw[x].tenantId
        fee == feeShareForRefund(gw[x].grossMinor, gw[x].feeMinor,
                                 gw[x].refundedMinor, feesReturned(x), amount)
        k == Len(refunds[x]) + 1
        total == refundedAfter(x, amount)
        debited == appendLedgerEntry(ledger, Entry(RefundSource(x, k), t, "DEBIT",
                    IF kind = "REVERSAL" THEN "PAYMENT_REVERSAL" ELSE "REFUND", amount))
    IN  /\ Open(x)
        /\ k <= MaxRefunds
        /\ amount \in 1..remainingMinor(x)
        /\ refunds' = [refunds EXCEPT ![x] = Append(@,
              [kind |-> kind, amountMinor |-> amount, feeReturnedMinor |-> fee,
               status |-> IF completed THEN "COMPLETED" ELSE "PENDING_CUSTOMER_PAYOUT"])]
        /\ ledger' = IF fee > 0
                     THEN appendLedgerEntry(debited,
                            Entry(RefundFeeSource(x, k), t, "CREDIT", "FEE_REVERSAL", fee))
                     ELSE debited
        /\ gw' = [gw EXCEPT ![x].refundedMinor = total,
                            ![x].status = IF total < gw[x].grossMinor THEN "PARTIALLY_REFUNDED"
                                          ELSE IF kind = "REVERSAL" THEN "REVERSED"
                                          ELSE "REFUNDED"]

\* A super admin returns part or all of a collection; the invoice is untouched.
recordRefund(x, amount) ==
    /\ recordRefundRows(x, "REFUND", amount, FALSE)
    /\ UNCHANGED payment

\* A super admin reverses what is left; the billing payment is undone with it
\* unless somebody already did.
recordReversal(x, moneyAlreadyReturned) ==
    /\ recordRefundRows(x, "REVERSAL", remainingMinor(x), moneyAlreadyReturned)
    /\ payment' = [payment EXCEPT ![x] = IF @ = "COMPLETED" THEN "REVERSED" ELSE @]

\* Mutant of reversePayment: the gateway transaction is left alone.
ReverseBillingOnly(x) ==
    /\ payment[x] = "COMPLETED"
    /\ payment' = [payment EXCEPT ![x] = "REVERSED"]
    /\ UNCHANGED <<ledger, gw, refunds>>

\* Tenant staff reverse the Payment (POST /payments/:id/refund): the gateway
\* reversal comes off the balance in the same transaction, if any is left.
reversePayment(x) ==
    /\ payment[x] = "COMPLETED"
    /\ payment' = [payment EXCEPT ![x] = "REVERSED"]
    /\ IF Open(x)
       THEN recordRefundRows(x, "REVERSAL", remainingMinor(x), FALSE)
       ELSE UNCHANGED <<ledger, gw, refunds>>

\* A super admin records how a customer was paid back.
completeGatewayRefund(x, k) ==
    /\ k \in 1..Len(refunds[x])
    /\ refunds[x][k].status = "PENDING_CUSTOMER_PAYOUT"
    /\ refunds' = [refunds EXCEPT ![x][k].status = "COMPLETED"]
    /\ UNCHANGED <<ledger, gw, payment>>

-------------------------------------------------------------------------------

GatewayInit ==
    /\ ledger = {}
    /\ gw = [x \in Txns |-> Uncollected]
    /\ refunds = [x \in Txns |-> <<>>]
    /\ payment = [x \in Txns |-> "NONE"]

\* The part that takes the tenant's row lock (lockTenantForBalanceChange).
RefundStep(x) ==
    \/ \E amount \in RefundAmounts : recordRefund(x, amount)
    \/ \E returned \in BOOLEAN : recordReversal(x, returned)
    \/ reversePayment(x)

\* The part that runs without it.
UnlockedStep(x) ==
    \/ \E t \in Tenants, gross \in Grosses : recordPlatformCollection(x, t, gross)
    \/ \E k \in 1..MaxRefunds : completeGatewayRefund(x, k)

GatewayNext == \E x \in Txns : RefundStep(x) \/ UnlockedStep(x)

GatewaySpec == GatewayInit /\ [][GatewayNext]_gatewayVars

-------------------------------------------------------------------------------
(* Properties. *)

TxnRecords ==
    [status : {"NONE", "COMPLETED", "PARTIALLY_REFUNDED", "REVERSED", "REFUNDED"},
     tenantId : Tenants, grossMinor : Nat, feeMinor : Nat, refundedMinor : Nat,
     settlementStatus : {"UNSETTLED", "SETTLEMENT_PENDING", "SETTLED"}, settlementId : Nat]

RefundRecords ==
    [kind : {"REFUND", "REVERSAL"}, amountMinor : Amounts, feeReturnedMinor : Nat,
     status : {"COMPLETED", "PENDING_CUSTOMER_PAYOUT"}]

\* The values the gateway's tables may hold, their money CHECK constraints included.
GatewayTypeOK ==
    /\ gw \in [Txns -> TxnRecords]
    /\ refunds \in [Txns -> Seq(RefundRecords)]
    /\ payment \in [Txns -> {"NONE", "COMPLETED", "REVERSED"}]
    /\ \A x \in Txns : gw[x].feeMinor <= gw[x].grossMinor /\ gw[x].refundedMinor <= gw[x].grossMinor
    /\ \A e \in ledger : e.tenantId \in Tenants /\ e.amountMinor \in Amounts

\* The rows a transaction has written to the ledger, refunds included.
EntriesOf(x) ==
    {e \in ledger : e.source[1] \in {"GatewayTransaction", "GatewayTransactionFee",
                                     "GatewayRefund", "GatewayRefundFee"}
                    /\ e.source[2] = x}

\* Refunds unwind the fee: "across any sequence of partial refunds the tenant gets
\* back exactly the whole fee, never a cent more or less" (fees.ts).  A transaction
\* refunded in full leaves nothing on the tenant's ledger, one never refunded leaves
\* its net amount, and no sequence of refunds returns more fee than was taken.
RefundsUnwindExactly ==
    \A x \in Txns :
        /\ gw[x].status \in {"REVERSED", "REFUNDED"} => TotalOf(EntriesOf(x)) = 0
        /\ gw[x].status = "COMPLETED" =>
              TotalOf(EntriesOf(x)) = gw[x].grossMinor - gw[x].feeMinor
        /\ feesReturned(x) \in 0..gw[x].feeMinor

\* Reconciliation's REVERSED_PAYMENT_STILL_CREDITED: once a payment is reversed, by
\* the tenant or by a super admin and in whatever order with partial refunds, the
\* tenant no longer holds any of it.
ReversedPaymentNotCredited ==
    \A x \in Txns : payment[x] = "REVERSED" =>
        ~Open(x) /\ TotalOf(EntriesOf(x)) = 0

\* The guards the database triggers enforce on the money columns: rows are only
\* appended to the ledger, a refunded amount never shrinks and a transaction that is
\* fully refunded stays as it is.
MoneyRowsOnlyGrow ==
    [][/\ ledger \subseteq ledger'
       /\ \A x \in Txns :
            /\ gw'[x].refundedMinor >= gw[x].refundedMinor
            /\ gw[x].status \in {"REVERSED", "REFUNDED"} => gw'[x].status = gw[x].status
      ]_gatewayVars

===============================================================================
