------------------------------ MODULE StkRequest ------------------------------
(***************************************************************************)
(* The life of an M-Pesa STK push, from the prompt on the customer's phone *)
(* to the recorded payment                                                 *)
(*   packages/payments/src/mpesa/stk.service.ts        push, status query  *)
(*   packages/payments/src/mpesa/callback.service.ts   result              *)
(*   packages/payments/src/mpesa/poll.service.ts       poll and replay     *)
(*   apps/api/src/routes/mpesa.ts                      callback endpoint   *)
(*                                                                         *)
(* Safaricom's callback may come before the row is there, be repeated, or  *)
(* never come; a status query has no receipt number, so it completes the   *)
(* request under a provisional one.  Everything after the row lock is one  *)
(* transaction, so one step.                                               *)
(***************************************************************************)
EXTENDS Integers, FiniteSets

CONSTANTS
    Pushes,         \* CheckoutRequestIDs
    OldFailures,    \* those that may be left over from an older version
    StkWorkers,     \* API requests, callback deliveries and poll jobs at one time
    ReplayLimit,    \* closed requests one pass of the replay looks at (500)
    NoPush          \* the push of a worker that has none

ASSUME StkAssumption ==
    OldFailures \subseteq Pushes /\ NoPush \notin Pushes /\ ReplayLimit \in Nat

VARIABLES
    prompt,     \* Safaricom's side: none, waiting, paid, declined
    stk,        \* mpesa_stk_requests
    paidUnder,  \* idempotency keys of the payments recorded for a push
    reference,  \* payment.reference
    collected,  \* keys of those payments credited to the ISP's ledger
    gatewayRef, \* providerReference of the collection
    journal,    \* payment_webhook_events: callbacks stored, as <<push, code>>
    aged,       \* requests created more than 14 days ago
    stkWorker   \* what a request, delivery or job has read

stkVars == <<prompt, stk, paidUnder, reference, collected, gatewayRef, journal, aged, stkWorker>>

\* Result codes: 0, 1032, 4999, anything else.
Codes == {"ok", "cancelled", "processing", "error"}

\* "PRV-" and Safaricom's own, for each push.
StkReceipts == {"none", "PRV", "REAL"}

NoRow == [status |-> "NONE", code |-> "none", receipt |-> "none", by |-> "OWN"]

\* Rows that an older version left, which took "still under processing" for a failure.
OldFailure == [NoRow EXCEPT !.status = "FAILED", !.code = "processing"]

StkIdle == [pc |-> "idle", push |-> NoPush, code |-> "none", receipt |-> "none", by |-> "OWN"]

isStkRequestOpen(row) ==
    row.status = "PENDING" \/ (row.status = "FAILED" /\ row.code = "processing")

-------------------------------------------------------------------------------
(* Safaricom and the customer. *)

customerAnswers(p) ==
    /\ prompt[p] = "waiting"
    /\ \E answer \in {"paid", "declined"} : prompt' = [prompt EXCEPT ![p] = answer]
    /\ UNCHANGED <<stk, paidUnder, reference, collected, gatewayRef, journal, aged, stkWorker>>

\* Fourteen days go by.
requestAges(p) ==
    /\ stk[p].status # "NONE" /\ p \notin aged
    /\ aged' = aged \cup {p}
    /\ UNCHANGED <<prompt, stk, paidUnder, reference, collected, gatewayRef, journal, stkWorker>>

\* A result for a prompt that was answered.
ResultOf(p) == IF prompt[p] = "paid" THEN {"ok"} ELSE {"cancelled", "error"}

-------------------------------------------------------------------------------
(* The push: the prompt is sent, and the row is inserted afterwards. *)

\* Who collects (the ISP's paybill or the platform's) is decided here.
initiateStkPush(w, p) ==
    /\ stkWorker[w].pc = "idle"
    /\ prompt[p] = "none"
    /\ prompt' = [prompt EXCEPT ![p] = "waiting"]
    /\ \E by \in {"OWN", "PLATFORM"} :
         stkWorker' = [stkWorker EXCEPT ![w] = [StkIdle EXCEPT !.pc = "insert", !.push = p, !.by = by]]
    /\ UNCHANGED <<stk, paidUnder, reference, collected, gatewayRef, journal, aged>>

createStkRequest(w) ==
    LET me == stkWorker[w] IN
    /\ me.pc = "insert"
    /\ stk' = [stk EXCEPT ![me.push] = [NoRow EXCEPT !.status = "PENDING", !.by = me.by]]
    /\ stkWorker' = [stkWorker EXCEPT ![w] = StkIdle]
    /\ UNCHANGED <<prompt, paidUnder, reference, collected, gatewayRef, journal, aged>>

\* A process dies or a transaction is rolled back: what it had read is gone.
stkCrash(w) ==
    /\ stkWorker[w].pc # "idle"
    /\ stkWorker' = [stkWorker EXCEPT ![w] = StkIdle]
    /\ UNCHANGED <<prompt, stk, paidUnder, reference, collected, gatewayRef, journal, aged>>

-------------------------------------------------------------------------------
(* Learning a result. *)

Resolves(w, p, code, receipt) ==
    stkWorker' = [stkWorker EXCEPT ![w] = [StkIdle EXCEPT !.pc = "complete", !.push = p,
                                                          !.code = code, !.receipt = receipt]]

\* A callback is delivered, again or for the first time.  It is stored, unless that
\* fails; one whose row is not there yet is acknowledged and dropped.
handleStkCallback(w, p) ==
    /\ stkWorker[w].pc = "idle"
    /\ prompt[p] \in {"paid", "declined"}
    /\ \E code \in ResultOf(p) :
         /\ journal' \in {journal, journal \cup {<<p, code>>}}
         /\ IF stk[p].status = "NONE"
            THEN UNCHANGED stkWorker
            ELSE Resolves(w, p, code, IF code = "ok" THEN "REAL" ELSE "none")
    /\ UNCHANGED <<prompt, stk, paidUnder, reference, collected, gatewayRef, aged>>

\* The customer's page and the poll ask Safaricom.  While the prompt is open the
\* answer is "still under processing", or a failure that does not hold.
queryAndReconcileStkRequest(w, p) ==
    /\ stkWorker[w].pc = "idle"
    /\ isStkRequestOpen(stk[p])
    /\ \E code \in ResultOf(p) : Resolves(w, p, code, IF code = "ok" THEN "PRV" ELSE "none")
    /\ UNCHANGED <<prompt, stk, paidUnder, reference, collected, gatewayRef, journal, aged>>

pollPendingStkRequests(w, p) == stk[p].status = "PENDING" /\ queryAndReconcileStkRequest(w, p)

\* Mutant of Stranded: requests the customer is said to have cancelled are not asked for.
OnlyFailed == {p \in Pushes \ aged : stk[p].status = "FAILED"}

\* The requests the replay asks for.
Stranded == {p \in Pushes \ aged : stk[p].status \in {"FAILED", "CANCELLED"}}

\* A stored callback that says the customer paid is applied again to a request that was
\* closed without him.  A pass is given ReplayLimit of those requests, in no order: any.
replayStrandedStkCallbacks(w, p) ==
    /\ stkWorker[w].pc = "idle"
    /\ p \in Stranded /\ ReplayLimit > 0
    /\ <<p, "ok">> \in journal
    /\ Resolves(w, p, "ok", "REAL")
    /\ UNCHANGED <<prompt, stk, paidUnder, reference, collected, gatewayRef, journal, aged>>

-------------------------------------------------------------------------------
(* completeStkRequest: one transaction under the row's lock. *)

Closed(me, row, receipt) == [row EXCEPT !.status = "COMPLETED", !.code = "ok", !.receipt = receipt]

paidAfterAll(me, row) == row.status # "COMPLETED" /\ me.code = "ok" /\ me.receipt = "REAL"

\* Mutant of applies: a paid result is applied whatever the request's status.
AnyPaid(me, row) == isStkRequestOpen(row) \/ me.code = "ok"

applies(me, row) == isStkRequestOpen(row) \/ paidAfterAll(me, row)

\* The payment, keyed by the receipt, and, for money the platform took, what is owed.
recordPurchase(p, receipt) ==
    /\ paidUnder' = [paidUnder EXCEPT ![p] = @ \cup {receipt}]
    /\ reference' = [reference EXCEPT ![p] = receipt]
    /\ IF stk[p].by = "PLATFORM"
       THEN /\ collected' = [collected EXCEPT ![p] = @ \cup {receipt}]
            /\ gatewayRef' = [gatewayRef EXCEPT ![p] = receipt]
       ELSE UNCHANGED <<collected, gatewayRef>>

\* Mutant of upgradeReceipt: the collection keeps the provisional receipt.
UpgradeRowOnly(p) ==
    /\ stk' = [stk EXCEPT ![p].receipt = "REAL"]
    /\ reference' = [reference EXCEPT ![p] = "REAL"]
    /\ UNCHANGED <<paidUnder, collected, gatewayRef>>

\* The real receipt replaces the provisional one; the idempotency key stays.
upgradeReceipt(p) ==
    /\ stk' = [stk EXCEPT ![p].receipt = "REAL"]
    /\ reference' = [reference EXCEPT ![p] = "REAL"]
    /\ gatewayRef' = [gatewayRef EXCEPT ![p] = IF @ = "PRV" THEN "REAL" ELSE @]
    /\ UNCHANGED <<paidUnder, collected>>

UnchangedRecords == UNCHANGED <<stk, paidUnder, reference, collected, gatewayRef>>

completeStkRequest(w) ==
    LET me == stkWorker[w]
        p == me.push
        row == stk[p]
        UpgradesReceipt == row.status = "COMPLETED" /\ me.receipt = "REAL" /\ row.receipt = "PRV"
    IN
    /\ me.pc = "complete"
    /\ \/ /\ applies(me, row) /\ me.code = "ok"
          /\ recordPurchase(p, me.receipt)
          /\ stk' = [stk EXCEPT ![p] = Closed(me, row, me.receipt)]
       \/ /\ applies(me, row) /\ me.code # "ok"
          /\ stk' = [stk EXCEPT ![p].status = IF me.code = "cancelled" THEN "CANCELLED" ELSE "FAILED",
                                ![p].code = me.code]
          /\ UNCHANGED <<paidUnder, reference, collected, gatewayRef>>
       \/ ~applies(me, row) /\ UpgradesReceipt /\ upgradeReceipt(p)
       \/ ~applies(me, row) /\ ~UpgradesReceipt /\ UnchangedRecords
    /\ stkWorker' = [stkWorker EXCEPT ![w] = StkIdle]
    /\ UNCHANGED <<prompt, journal, aged>>

-------------------------------------------------------------------------------

StkInit ==
    /\ \E old \in SUBSET OldFailures :
         /\ prompt = [p \in Pushes |-> IF p \in old THEN "waiting" ELSE "none"]
         /\ stk = [p \in Pushes |-> IF p \in old THEN OldFailure ELSE NoRow]
    /\ paidUnder = [p \in Pushes |-> {}]
    /\ reference = [p \in Pushes |-> "none"]
    /\ collected = [p \in Pushes |-> {}]
    /\ gatewayRef = [p \in Pushes |-> "none"]
    /\ journal = {}
    /\ aged = {}
    /\ stkWorker = [w \in StkWorkers |-> StkIdle]

StkNext ==
    \/ \E p \in Pushes : customerAnswers(p) \/ requestAges(p)
    \/ \E w \in StkWorkers :
         \/ \E p \in Pushes :
              \/ initiateStkPush(w, p) \/ handleStkCallback(w, p)
              \/ queryAndReconcileStkRequest(w, p) \/ replayStrandedStkCallbacks(w, p)
         \/ createStkRequest(w) \/ completeStkRequest(w) \/ stkCrash(w)

StkSpec == StkInit /\ [][StkNext]_stkVars

\* While the system runs, the job that polls and replays comes round every two minutes and
\* comes through to Safaricom again and again, and a row that can be locked in the end is.
\* The poll asks for every PENDING request.  The replay comes to a request when its pass has
\* room for all it asks for; which it is given otherwise, nothing says.
StkFairness ==
    /\ \A p \in Pushes :
         /\ SF_stkVars(\E w \in StkWorkers : pollPendingStkRequests(w, p))
         /\ SF_stkVars(\E w \in StkWorkers :
                         Cardinality(Stranded) <= ReplayLimit /\ replayStrandedStkCallbacks(w, p))
         /\ SF_stkVars(\E w \in StkWorkers : stkWorker[w].push = p /\ completeStkRequest(w))
    /\ \A w \in StkWorkers : WF_stkVars(createStkRequest(w))

StkFairSpec == StkSpec /\ StkFairness

-------------------------------------------------------------------------------
(* Properties. *)

StkRows == [status : {"NONE", "PENDING", "COMPLETED", "FAILED", "CANCELLED"},
            code : Codes \cup {"none"}, receipt : StkReceipts, by : {"OWN", "PLATFORM"}]

StkJobs == [pc : {"idle", "insert", "complete"}, push : Pushes \cup {NoPush},
            code : Codes \cup {"none"}, receipt : StkReceipts, by : {"OWN", "PLATFORM"}]

\* The values of the tables and of what workers hold.
StkTypeOK ==
    /\ prompt \in [Pushes -> {"none", "waiting", "paid", "declined"}]
    /\ stk \in [Pushes -> StkRows]
    /\ paidUnder \in [Pushes -> SUBSET {"PRV", "REAL"}]
    /\ reference \in [Pushes -> StkReceipts]
    /\ collected \in [Pushes -> SUBSET {"PRV", "REAL"}]
    /\ gatewayRef \in [Pushes -> StkReceipts]
    /\ journal \subseteq Pushes \X Codes
    /\ aged \subseteq Pushes
    /\ stkWorker \in [StkWorkers -> StkJobs]

\* The request, its payment and its collection tell one story: there is a payment just
\* when the request is COMPLETED, all three bear the same receipt, and the ISP is owed
\* the money just when the platform took it.
RecordsAgree ==
    \A p \in Pushes :
        /\ (stk[p].status = "COMPLETED") = (paidUnder[p] # {})
        /\ reference[p] = stk[p].receipt
        /\ collected[p] = IF stk[p].by = "PLATFORM" THEN paidUnder[p] ELSE {}
        /\ gatewayRef[p] = IF stk[p].by = "PLATFORM" THEN stk[p].receipt ELSE "none"

\* "Idempotent": callbacks, queries and replays of one push, in any number and order,
\* record its transfer once, under one receipt, and only when the customer paid.
Promise == INSTANCE TransferPromise WITH
    Transfers <- Pushes, Receipts <- {"PRV", "REAL"},
    taken <- {p \in Pushes : prompt[p] = "paid"}, recorded <- paidUnder, owed <- collected

KeepsTransferPromise == Promise!PromiseSpec

\* A callback that says the customer paid, once it is stored, leads to a recorded payment:
\* if it came before the row, or was lost half-way, the poll or the replay finishes it ("or
\* the money is taken and nothing is delivered").  What the code promises of it has two
\* limits: closed requests do not outnumber a pass of the replay for ever, and the request
\* is not left closed until it is fourteen days old.
StoredCallbackIsRecorded ==
    []<>(Cardinality(Stranded) <= ReplayLimit) =>
        \A p \in Pushes :
            (<<p, "ok">> \in journal /\ stk[p].status # "NONE")
                ~> \/ stk[p].status = "COMPLETED"
                   \/ p \in aged /\ stk[p].status \in {"FAILED", "CANCELLED"}

===============================================================================
