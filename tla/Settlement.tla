------------------------------ MODULE Settlement ------------------------------
(***************************************************************************)
(* Step 3 of the money flow: paying a tenant what the ledger says they are *)
(* owed (packages/payments/src/gateway/settlement.service.ts), on top of   *)
(* the collections and refunds of GatewayLedger, which share its ledger.   *)
(*                                                                         *)
(*   REQUESTED --dispatch--> PROCESSING --provider result--> SETTLED       *)
(*                                      '--refused, failed--> FAILED       *)
(*   AWAITING_APPROVAL --approve--> REQUESTED or PROCESSING                *)
(*   REQUESTED, AWAITING_APPROVAL --cancel--> CANCELLED                    *)
(*                                                                         *)
(* One action is one database transaction or one statement outside any.    *)
(* What a worker or an API request does between two of them is the state   *)
(* of a caller.  The provider (Safaricom or a bank) is modelled by what it *)
(* does with the money; it answers, late, repeatedly or never.             *)
(***************************************************************************)
EXTENDS GatewayLedger

CONSTANTS
    Callers,            \* API requests and worker ticks running at one time
    MaxSettlements,     \* bound: settlements ever created
    SettlementMinimum   \* platform_settlement_settings.settlementMinimumMinor

ASSUME SettlementAssumption == MaxSettlements \in Nat /\ SettlementMinimum \in Nat

VARIABLES
    payout,         \* tenant_payouts, numbered in the order of creation
    caller,         \* what each request or worker tick has still to do
    provider,       \* what became of each transfer instruction
    failedSince     \* history: tenants whose payout the provider failed, and
                    \* for whom no person has acted since

settlementVars == <<payout, caller, provider, failedSince>>
vars == <<gatewayVars, settlementVars>>

Settlements == 1..MaxSettlements

Triggers == {"AUTOMATIC", "TENANT_REQUEST", "ADMIN"}
QUEUED == {"REQUESTED", "AWAITING_APPROVAL"}
LIVE == QUEUED \cup {"PROCESSING"}
FINAL == {"SETTLED", "FAILED", "CANCELLED"}

SettlementSource(s) == <<"Settlement", s>>
ReversalSource(s)   == <<"SettlementReversal", s>>

AnyTenant == CHOOSE t \in Tenants : TRUE

\* automatic: the destination's provider moves money itself; a bank transfer is
\* made by a person.  answerable: originatorConversationId is stored.
NotCreated ==
    [status |-> "NONE", tenantId |-> AnyTenant, amountMinor |-> 0,
     retryOfId |-> NoSettlement, automatic |-> TRUE, answerable |-> FALSE,
     timedOut |-> FALSE]

Idle ==
    [pc |-> "idle", sid |-> NoSettlement, tenantId |-> AnyTenant,
     trigger |-> "ADMIN", retryOfId |-> NoSettlement]

Exists(s) == payout[s].status # "NONE"

SettlementsOf(t) == {s \in Settlements : Exists(s) /\ payout[s].tenantId = t}

\* Mutant of Locked: requests do not wait for each other.
NeverLocked(t) == FALSE

\* The tenant's row lock: taken by a request, held until its transaction ends.
Locked(t) == \E c \in Callers : caller[c].pc = "reserve" /\ caller[c].tenantId = t

\* The history variable: what the provider fails, a person answers.
ProviderFails(s) == failedSince' = failedSince \cup {payout[s].tenantId}
PersonActs(t) == failedSince' = failedSince \ {t}

Retried(s) == \E r \in Settlements : Exists(r) /\ payout[r].retryOfId = s

-------------------------------------------------------------------------------
(* requestSettlement: under the tenant's lock, look at the other settlements *)
(* (first step), then at the balance, and reserve it (second step).          *)

requestSettlement(c, t, trigger, retryOf) ==
    /\ caller[c].pc = "idle"
    /\ ~Locked(t)
    /\ \A s \in SettlementsOf(t) : payout[s].status \notin QUEUED
    /\ trigger = "AUTOMATIC" =>
         \A s \in SettlementsOf(t) :
            (\A r \in SettlementsOf(t) : r <= s) => payout[s].status # "FAILED"
    /\ caller' = [caller EXCEPT ![c] = [pc |-> "reserve", sid |-> NoSettlement,
                    tenantId |-> t, trigger |-> trigger, retryOfId |-> retryOf]]
    /\ UNCHANGED <<gatewayVars, payout, provider, failedSince>>

\* The person's retry looks at the failed settlement before the lock.
retrySettlement(c, s) ==
    /\ payout[s].status = "FAILED"
    /\ ~Retried(s)
    /\ requestSettlement(c, payout[s].tenantId, "ADMIN", s)

linkCollections(t, s) ==
    [x \in Txns |->
        IF Open(x) /\ gw[x].tenantId = t /\ gw[x].settlementStatus = "UNSETTLED"
        THEN [gw[x] EXCEPT !.settlementStatus = "SETTLEMENT_PENDING", !.settlementId = s]
        ELSE gw[x]]

\* needsApproval: the destination's provider is a person, or the platform is in
\* manual settlement mode; both are settings the tenant and the platform change.
reserveBalance(c, s) ==
    LET me == caller[c]
        t == me.tenantId
        amount == settleableMinor(t)
    IN  /\ me.pc = "reserve"
        /\ ~Exists(s) /\ \A r \in Settlements : r < s => Exists(r)
        /\ amount \in Amounts
        /\ me.trigger # "ADMIN" => amount >= SettlementMinimum
        /\ me.retryOfId # NoSettlement => ~Retried(me.retryOfId)
        /\ \E automatic, manualMode \in BOOLEAN :
             LET needsApproval == ~automatic \/ manualMode IN
             /\ payout' = [payout EXCEPT ![s] = [NotCreated EXCEPT
                    !.status = IF needsApproval THEN "AWAITING_APPROVAL" ELSE "REQUESTED",
                    !.tenantId = t, !.amountMinor = amount,
                    !.retryOfId = me.retryOfId, !.automatic = automatic]]
             /\ caller' = [caller EXCEPT ![c] =
                    IF needsApproval THEN Idle
                    ELSE [Idle EXCEPT !.pc = "claim", !.sid = s]]
        /\ ledger' = appendLedgerEntry(ledger,
                Entry(SettlementSource(s), t, "DEBIT", "SETTLEMENT", amount))
        /\ gw' = linkCollections(t, s)
        /\ IF me.trigger = "AUTOMATIC" THEN UNCHANGED failedSince ELSE PersonActs(t)
        /\ UNCHANGED <<refunds, payment, provider>>

-------------------------------------------------------------------------------
(* Closing a settlement. *)

\* Mutant of restoreReservedBalance: the collections are unlinked, the balance is kept.
UnlinkOnly(s) ==
    /\ gw' = [x \in Txns |->
                IF gw[x].settlementId = s
                THEN [gw[x] EXCEPT !.settlementStatus = "UNSETTLED", !.settlementId = NoSettlement]
                ELSE gw[x]]
    /\ UNCHANGED <<ledger, refunds, payment>>

restoreReservedBalance(s) ==
    /\ ledger' = IF HasEntry(ledger, SettlementSource(s))
                 THEN appendLedgerEntry(ledger,
                        Entry(ReversalSource(s), payout[s].tenantId, "CREDIT",
                              "SETTLEMENT_REVERSAL", payout[s].amountMinor))
                 ELSE ledger
    /\ gw' = [x \in Txns |->
                IF gw[x].settlementId = s
                THEN [gw[x] EXCEPT !.settlementStatus = "UNSETTLED", !.settlementId = NoSettlement]
                ELSE gw[x]]
    /\ UNCHANGED <<refunds, payment>>

failSettlementTx(s) ==
    /\ payout' = [payout EXCEPT ![s].status = "FAILED"]
    /\ restoreReservedBalance(s)

\* Mutant of markSettledTx: a status the table does not have.
MarkPaid(s) ==
    /\ payout' = [payout EXCEPT ![s].status = "PAID"]
    /\ UNCHANGED gatewayVars

markSettledTx(s) ==
    /\ payout' = [payout EXCEPT ![s].status = "SETTLED"]
    /\ gw' = [x \in Txns |->
                IF gw[x].settlementId = s
                THEN [gw[x] EXCEPT !.settlementStatus = "SETTLED"] ELSE gw[x]]
    /\ UNCHANGED <<ledger, refunds, payment>>

-------------------------------------------------------------------------------
(* dispatchSettlement: claim, call the provider, record its answer. *)

Becomes(c, next) == caller' = [caller EXCEPT ![c] = next]

\* Mutant of dispatchClaim: no condition on the status in the claiming update.
ClaimUnconditionally(c) ==
    /\ caller[c].pc = "claim"
    /\ payout' = [payout EXCEPT ![caller[c].sid].status = "PROCESSING"]
    /\ Becomes(c, [caller[c] EXCEPT !.pc = "send"])
    /\ UNCHANGED <<gatewayVars, provider, failedSince>>

dispatchClaim(c) ==
    LET s == caller[c].sid IN
    /\ caller[c].pc = "claim"
    /\ IF payout[s].status = "REQUESTED"
       THEN /\ payout' = [payout EXCEPT ![s].status = "PROCESSING"]
            /\ Becomes(c, [caller[c] EXCEPT !.pc = "send"])
       ELSE /\ Becomes(c, Idle)
            /\ UNCHANGED payout
    /\ UNCHANGED <<gatewayVars, provider, failedSince>>

\* ACCEPTED, refused (SettlementRejectedError), or no definite answer
\* (SettlementOutcomeUnknownError): then the instruction may have arrived or not,
\* and the settlement is only annotated for a person to look at.
initiateSettlement(c) ==
    LET s == caller[c].sid IN
    /\ caller[c].pc = "send"
    /\ \/ /\ provider' = [provider EXCEPT ![s] = "accepted"]
          /\ Becomes(c, [caller[c] EXCEPT !.pc = "store"])
       \/ /\ provider' = [provider EXCEPT ![s] = "dead"]
          /\ Becomes(c, [caller[c] EXCEPT !.pc = "fail"])
       \/ /\ \E fate \in {"accepted", "dead"} : provider' = [provider EXCEPT ![s] = fate]
          /\ Becomes(c, Idle)
    /\ UNCHANGED <<gatewayVars, payout, failedSince>>

storeConversation(c) ==
    /\ caller[c].pc = "store"
    /\ payout' = [payout EXCEPT ![caller[c].sid].answerable = TRUE]
    /\ Becomes(c, Idle)
    /\ UNCHANGED <<gatewayVars, provider, failedSince>>

failSettlement(c) ==
    LET s == caller[c].sid IN
    /\ caller[c].pc = "fail"
    /\ IF payout[s].status \in FINAL
       THEN UNCHANGED <<gatewayVars, payout, failedSince>>
       ELSE failSettlementTx(s) /\ ProviderFails(s)
    /\ Becomes(c, Idle)
    /\ UNCHANGED provider

\* The process dies, or the transaction it is in is rolled back.
crash(c) ==
    /\ caller[c].pc # "idle"
    /\ Becomes(c, Idle)
    /\ UNCHANGED <<gatewayVars, payout, provider, failedSince>>

-------------------------------------------------------------------------------
(* The provider, and the callbacks it sends. *)

\* Safaricom makes the transfer it accepted, or gives up on it.
executeTransfer(s) ==
    /\ provider[s] = "accepted"
    /\ \E fate \in {"moved", "dead"} : provider' = [provider EXCEPT ![s] = fate]
    /\ UNCHANGED <<gatewayVars, payout, caller, failedSince>>

\* A person makes the bank transfer of an approved settlement.
transferByHand(s) ==
    /\ payout[s].status = "PROCESSING" /\ ~payout[s].automatic
    /\ provider[s] = "none"
    /\ provider' = [provider EXCEPT ![s] = "moved"]
    /\ UNCHANGED <<gatewayVars, payout, caller, failedSince>>

\* The result callback.  It is found by the stored conversation id: one that
\* comes before the id is stored is ignored, a repeated one finds a settlement
\* that is not PROCESSING.
applySettlementResult(s) ==
    /\ provider[s] \in {"moved", "dead"}
    /\ payout[s].answerable
    /\ payout[s].status = "PROCESSING"
    /\ IF provider[s] = "moved"
       THEN markSettledTx(s) /\ UNCHANGED failedSince
       ELSE failSettlementTx(s) /\ ProviderFails(s)
    /\ UNCHANGED <<caller, provider>>

\* The queue-timeout callback reads the settlement and flags it without a lock
\* (markSettlementTimedOut); the balance stays reserved.
readTimedOut(c, s) ==
    /\ caller[c].pc = "idle"
    /\ provider[s] # "none"
    /\ payout[s].answerable
    /\ payout[s].status = "PROCESSING" /\ ~payout[s].timedOut
    /\ Becomes(c, [Idle EXCEPT !.pc = "flag", !.sid = s])
    /\ UNCHANGED <<gatewayVars, payout, provider, failedSince>>

\* Mutant of flagTimedOut: a settlement whose answer is late has failed.
FailTimedOut(c) ==
    /\ caller[c].pc = "flag"
    /\ failSettlementTx(caller[c].sid)
    /\ Becomes(c, Idle)
    /\ UNCHANGED <<provider, failedSince>>

flagTimedOut(c) ==
    /\ caller[c].pc = "flag"
    /\ payout' = [payout EXCEPT ![caller[c].sid].timedOut = TRUE]
    /\ Becomes(c, Idle)
    /\ UNCHANGED <<gatewayVars, provider, failedSince>>

-------------------------------------------------------------------------------
(* Super-admin actions, each under the settlement's row lock. *)

\* Mutant of approveSettlement: anything not yet final may be approved.
ApproveLive(c, s) ==
    /\ caller[c].pc = "idle"
    /\ payout[s].status \in LIVE
    /\ payout' = [payout EXCEPT ![s].status =
                    IF payout[s].automatic THEN "REQUESTED" ELSE "PROCESSING"]
    /\ IF payout[s].automatic
       THEN Becomes(c, [Idle EXCEPT !.pc = "claim", !.sid = s])
       ELSE UNCHANGED caller
    /\ PersonActs(payout[s].tenantId)
    /\ UNCHANGED <<gatewayVars, provider>>

approveSettlement(c, s) ==
    /\ caller[c].pc = "idle"
    /\ payout[s].status = "AWAITING_APPROVAL"
    /\ payout' = [payout EXCEPT ![s].status =
                    IF payout[s].automatic THEN "REQUESTED" ELSE "PROCESSING"]
    /\ IF payout[s].automatic
       THEN Becomes(c, [Idle EXCEPT !.pc = "claim", !.sid = s])
       ELSE UNCHANGED caller
    /\ PersonActs(payout[s].tenantId)
    /\ UNCHANGED <<gatewayVars, provider>>

cancelSettlement(s) ==
    /\ payout[s].status \in QUEUED
    /\ payout' = [payout EXCEPT ![s].status = "CANCELLED"]
    /\ restoreReservedBalance(s)
    /\ PersonActs(payout[s].tenantId)
    /\ UNCHANGED <<caller, provider>>

\* "once the provider has been asked directly": the administrator answers what
\* happened to the money, and not while the dispatch is still under way.
UnderDispatch(s) ==
    \E c \in Callers : caller[c].sid = s /\ caller[c].pc \in {"send", "store", "fail"}

\* Mutant of resolveSettlement: only what Safaricom reported as timed out.
ResolveTimedOut(s) ==
    /\ payout[s].status = "PROCESSING" /\ payout[s].timedOut
    /\ ~UnderDispatch(s)
    /\ \/ provider[s] = "moved" /\ markSettledTx(s)
       \/ provider[s] \in {"none", "dead"} /\ failSettlementTx(s)
    /\ PersonActs(payout[s].tenantId)
    /\ UNCHANGED <<caller, provider>>

resolveSettlement(s) ==
    /\ payout[s].status = "PROCESSING"
    /\ ~UnderDispatch(s)
    /\ \/ provider[s] = "moved" /\ markSettledTx(s)
       \/ provider[s] \in {"none", "dead"} /\ failSettlementTx(s)
    /\ PersonActs(payout[s].tenantId)
    /\ UNCHANGED <<caller, provider>>

-------------------------------------------------------------------------------

Init ==
    /\ GatewayInit
    /\ payout = [s \in Settlements |-> NotCreated]
    /\ caller = [c \in Callers |-> Idle]
    /\ provider = [s \in Settlements |-> "none"]
    /\ failedSince = {}

Collecting ==
    /\ \E x \in Txns : UnlockedStep(x) \/ (~Locked(gw[x].tenantId) /\ RefundStep(x))
    /\ UNCHANGED settlementVars

Requesting(c) ==
    \/ \E t \in Tenants, trigger \in Triggers : requestSettlement(c, t, trigger, NoSettlement)
    \/ \E s \in Settlements : retrySettlement(c, s)

\* What a request or tick that has begun still does.
Continuing(c) ==
    \/ \E s \in Settlements : reserveBalance(c, s)
    \/ dispatchClaim(c)
    \/ initiateSettlement(c)
    \/ storeConversation(c)
    \/ failSettlement(c)
    \/ flagTimedOut(c)

Closing(s) ==
    \/ applySettlementResult(s)
    \/ cancelSettlement(s)
    \/ resolveSettlement(s)

Next ==
    \/ Collecting
    \/ \E c \in Callers : Requesting(c) \/ Continuing(c) \/ crash(c)
    \/ \E c \in Callers, s \in Settlements : readTimedOut(c, s) \/ approveSettlement(c, s)
    \/ \E s \in Settlements : executeTransfer(s) \/ transferByHand(s) \/ Closing(s)

Spec == Init /\ [][Next]_vars

\* The runtime finishes the requests it has begun (or the process dies), the
\* provider decides on what it accepted, and a person resolves what is left over:
\* reconciliation's SETTLEMENT_STUCK reports it.  No callback has to arrive, and
\* nobody has to approve, cancel or request anything.
Fairness ==
    /\ \A c \in Callers : WF_vars(Continuing(c) \/ crash(c))
    /\ \A s \in Settlements :
         /\ WF_vars(executeTransfer(s))
         /\ WF_vars(resolveSettlement(s))

FairSpec == Spec /\ Fairness

-------------------------------------------------------------------------------
(* Properties. *)

PayoutRecords ==
    [status : {"NONE"} \cup LIVE \cup FINAL, tenantId : Tenants, amountMinor : Nat,
     retryOfId : 0..MaxSettlements, automatic : BOOLEAN,
     answerable : BOOLEAN, timedOut : BOOLEAN]

CallerRecords ==
    [pc : {"idle", "reserve", "claim", "send", "store", "fail", "flag"},
     sid : 0..MaxSettlements, tenantId : Tenants, trigger : Triggers,
     retryOfId : 0..MaxSettlements]

\* The values the settlement tables, and the requests in progress, may hold.
TypeOK ==
    /\ payout \in [Settlements -> PayoutRecords]
    /\ caller \in [Callers -> CallerRecords]
    /\ provider \in [Settlements -> {"none", "accepted", "moved", "dead"}]
    /\ failedSince \subseteq Tenants
    /\ \A c \in Callers :
         caller[c].pc \notin {"idle", "reserve"} => caller[c].sid \in Settlements

\* The two rows a settlement may have on the ledger.
DebitOf(s) ==
    Entry(SettlementSource(s), payout[s].tenantId, "DEBIT", "SETTLEMENT", payout[s].amountMinor)

ReversalOf(s) ==
    Entry(ReversalSource(s), payout[s].tenantId, "CREDIT", "SETTLEMENT_REVERSAL",
          payout[s].amountMinor)

\* Reconciliation's SETTLEMENT_LEDGER_MISMATCH never fires: a settlement that is
\* live or settled has its own debit, of its own amount, and no reversal; one that
\* failed or was cancelled has both; one that does not exist has neither.
SettlementLedgerAgree ==
    \A s \in Settlements :
        /\ \A e \in ledger : e.source = SettlementSource(s) => Exists(s) /\ e = DebitOf(s)
        /\ \A e \in ledger : e.source = ReversalSource(s) =>
              payout[s].status \in {"FAILED", "CANCELLED"} /\ e = ReversalOf(s)
        /\ Exists(s) => HasEntry(ledger, SettlementSource(s))
        /\ payout[s].status \in {"FAILED", "CANCELLED"} => HasEntry(ledger, ReversalSource(s))

\* "Nothing here marks money as sent on our own say-so", and nothing gives back a
\* balance whose money left: a transfer that was made belongs to a settlement that is
\* PROCESSING or SETTLED, and SETTLED means the transfer was made.  Together with
\* SettlementLedgerAgree no tenant is paid the same balance twice.
MoneyMovedIsReserved ==
    \A s \in Settlements :
        /\ provider[s] = "moved" => payout[s].status \in {"PROCESSING", "SETTLED"}
        /\ payout[s].status = "SETTLED" => provider[s] = "moved"
        /\ provider[s] = "accepted" => payout[s].status = "PROCESSING"

\* What the partial unique index tenant_payouts_one_queued_per_tenant states holds
\* by the row lock and the queued check alone, so the index never has to reject one.
OneQueuedPerTenant ==
    \A r, s \in Settlements :
        /\ {payout[r].status, payout[s].status} \subseteq QUEUED
        /\ payout[r].tenantId = payout[s].tenantId
        => r = s

\* At most one of the requests in progress owns the dispatch of a settlement, so the
\* provider is asked once: "if two workers race only one of them calls M-Pesa".
OneDispatcher ==
    \A c, d \in Callers :
        /\ {caller[c].pc, caller[d].pc} \subseteq {"send", "store", "fail"}
        /\ caller[c].sid = caller[d].sid
        => c = d

\* The row lock does its work: one request at a time reserves from a tenant's balance,
\* and while it does no settlement of the tenant is queued.
LockHeld ==
    \A c \in Callers : caller[c].pc = "reserve" =>
        /\ \A d \in Callers :
             caller[d].pc = "reserve" /\ caller[d].tenantId = caller[c].tenantId => d = c
        /\ \A s \in SettlementsOf(caller[c].tenantId) : payout[s].status \notin QUEUED

\* Nothing is asked of the provider before the claim, and what is asked ends there.
NothingSentEarly ==
    \A s \in Settlements :
        /\ payout[s].status \in {"NONE", "CANCELLED"} \cup QUEUED => provider[s] = "none"
        /\ payout[s].status = "REQUESTED" => payout[s].automatic

\* What a dispatching request relies on between its steps.
DispatchOwned ==
    \A c \in Callers :
        LET s == caller[c].sid IN
        /\ caller[c].pc = "send" =>
             payout[s].status = "PROCESSING" /\ payout[s].automatic /\ provider[s] = "none"
        /\ caller[c].pc \in {"store", "fail"} => payout[s].status \in {"PROCESSING"} \cup FINAL
        /\ caller[c].pc = "fail" => provider[s] = "dead"

\* createSettlementRequest and dispatchSettlement exclude each other: a tenant has at most
\* one settlement on its way, at most one request works on a settlement, only on one it has
\* claimed under the tenant's lock, and nothing is sent before.  It is inductive: its parts
\* hold one another up, and the safety properties follow from it.
DispatchInv ==
    /\ LockHeld
    /\ OneQueuedPerTenant
    /\ NothingSentEarly
    /\ MoneyMovedIsReserved
    /\ DispatchOwned
    /\ OneDispatcher

EarnedBy(t) ==
    TotalOf({e \in ledger : e.tenantId = t /\ e.entryType \in {"CUSTOMER_PAYMENT", "PLATFORM_FEE"}})

TakenBackFrom(t) ==
    - TotalOf({e \in ledger : e.tenantId = t /\
                 e.entryType \in {"PAYMENT_REVERSAL", "REFUND", "FEE_REVERSAL"}})

PaidTo(t) ==
    SumFunctionOnSet([s \in Settlements |-> payout[s].amountMinor],
                     {s \in Settlements : payout[s].tenantId = t /\ provider[s] = "moved"})

\* However settlements, results, cancellations, refunds and collections interleave, a
\* tenant is never sent more than was collected for them net of fees, and their balance
\* is negative only by what was refunded after it had been settled.
NeverOverpaid ==
    \A t \in Tenants :
        /\ PaidTo(t) <= EarnedBy(t)
        /\ availableMinor(t) + TakenBackFrom(t) >= 0

\* A settlement keeps its tenant and amount from creation on, a final state never
\* changes (the trigger mh_guard_settlement), and the balance comes back only in the
\* step that ends the settlement as failed or cancelled.
FinalStatesStand ==
    [][\A s \in Settlements :
        /\ Exists(s) =>
             payout'[s].tenantId = payout[s].tenantId /\ payout'[s].amountMinor = payout[s].amountMinor
        /\ payout[s].status \in FINAL => payout'[s].status = payout[s].status
        /\ ~HasEntry(ledger, ReversalSource(s)) /\ HasEntry(ledger', ReversalSource(s)) =>
             payout[s].status \in LIVE /\ payout'[s].status \in {"FAILED", "CANCELLED"}]_vars

\* What the provider was asked to do ends one way or the other, even when the process
\* died between the claim and the call, or no callback ever arrives.
EveryDispatchEnds ==
    \A s \in Settlements : payout[s].status = "PROCESSING" ~> payout[s].status \in FINAL

\* What the settlements and the ledger implement: a claim is paid when the provider
\* moves the money, whether or not anybody has been told yet.
ClaimState(s) ==
    IF provider[s] = "moved" THEN "paid"
    ELSE IF payout[s].status \in {"FAILED", "CANCELLED"} THEN "returned"
    ELSE IF Exists(s) THEN "reserved" ELSE "absent"

Promise == INSTANCE PayoutPromise WITH
    Claims <- Settlements,
    claim <- [s \in Settlements |-> [state |-> ClaimState(s),
                                     tenant |-> payout[s].tenantId,
                                     amount |-> payout[s].amountMinor]],
    owed <- [t \in Tenants |-> availableMinor(t)]

\* Every settlement is a claim that is reserved out of the balance, then paid once or
\* given back once, in full: the refinement of PayoutPromise.
KeepsPromise == Promise!Spec

\* settlement.service.ts: "After a failed payout, automatic runs stop for this tenant
\* until a person acts (an admin retry or a tenant request)."  Stated as written: no
\* automatic settlement is begun for a tenant whose payout the provider failed when no
\* person has requested, approved, cancelled or resolved any settlement of theirs since.
AutomaticStopsAfterFailure ==
    [][\A c \in Callers :
        /\ caller[c].pc = "idle" /\ caller'[c].pc = "reserve"
        /\ caller'[c].trigger = "AUTOMATIC"
        => caller'[c].tenantId \notin failedSince]_vars

===============================================================================
