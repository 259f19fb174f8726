# Formal models of MashUpKGrid ISP

MashUpKGrid is a multi-tenant platform for internet service providers: a Fastify API
(`src/apps/api`), a BullMQ worker (`src/apps/worker`), web and Android clients, and a set of
packages over one Postgres database and Redis. An ISP is a *tenant*; its *customers* buy
packages, get invoices, pay by M-Pesa and other gateways, and are switched on and off through
RADIUS and MikroTik routers. Customer money that arrives on the platform's own paybill is owed
to the tenant and paid out by *settlements*.

The models concentrate on money, on what switches a customer (or an ISP) on and off, and on the
worker's jobs: that is where the code has protocols (several transactions, several processes, an
external provider, retries) rather than single updates. More than half of the repository is user
interface, script generation and reading; none of that is modelled.

    tlc -workers 2 -config MCSettlement.cfg MCSettlement.tla      # one run
    tlapm SettlementProofs.tla                                    # one proof module

`PROJECT.json` lists the components, the runs, a mutant for every property (a small change of
one definition, as a plausible bug would make it, under which the run finds the property
violated), the source lines of every definition, the hazards and the theorems.

## 1. The system's parts

### Money held for tenants: `packages/payments/src/gateway`, `ledger.service.ts`

| part | state | operations |
|---|---|---|
| ledger | `tenant_ledger_entries`, append only, unique (sourceType, sourceId) | `appendLedgerEntry`, `getTenantBalance` |
| collections | `gateway_transactions` (one per Payment), gross, fee, refunded, settlement link | `recordPlatformCollection` |
| refunds | `gateway_refunds`, fee share returned, customer payout pending or done | `recordGatewayRefundTx`, `completeGatewayRefund`, `reverseGatewayTransactionForPayment` |
| settlements | `tenant_payouts` (REQUESTED, AWAITING_APPROVAL, PROCESSING, SETTLED, FAILED, CANCELLED) | `requestSettlement`, `dispatchSettlement`, `applySettlementResult`, `markSettlementTimedOut`, `failSettlement`, `approve`, `cancel`, `retry`, `resolve` |
| schedule | `platform_settlement_settings.lastScheduledRunAt`, frequency, hour, weekday | `latestScheduledRun`, `runScheduledSettlements` (job every 5 minutes) |
| reconciliation | none (SQL reports) | `SETTLEMENT_LEDGER_MISMATCH`, `SETTLEMENT_STUCK`, `REVERSED_PAYMENT_STILL_CREDITED` ... |
| destinations, providers | where and by whom a settlement is paid | `initiateSettlement` of Daraja B2C/B2B or of a person making a bank transfer |

Hard behaviour: two requests reserve the same balance; two dispatchers call the provider; the
process dies between the claim and the call, or before the conversation id is stored; the
provider answers late, twice, never or not definitely; a refund takes back what has been
settled; an administrator resolves what a callback is about to resolve. Correct means: the
ledger is exact, nobody is paid twice, the balance of money that may have moved stays reserved,
and every settlement handed over ends.

### The customer's account: `packages/billing/src/{payment,wallet,invoice}.service.ts`

State: `invoices` (status, total, amountPaid), `payments` (unique idempotency key, status,
invoice), `wallets.balanceMinor` with `wallet_transactions`. Operations: record a payment
(staff, wallet, or a gateway callback with `allowOverpayment`), top up, reverse, match an
unmatched payment by hand (`routes/payments.ts`), void, mark overdue. All run in READ COMMITTED
transactions that read rows without locks. Hard behaviour: overlapping requests, replayed
callbacks, long mixed sequences in which a running total must not drift. Correct means:
`amountPaid` and status agree with the payments, the wallet with its movements, every shilling
is somewhere, once.

### Subscriptions over time: `billing-cycle`, `pause`, `subscription` services

State: `customer_services` (status, nextBillingAt, pausedUntil, autoRenew), `service_pauses`,
due dates. Operations: the worker's sweeps (renew, mark overdue, suspend, reconnect, resume due
pauses) and requests (pause, resume, suspend, reactivate, cancel, extend), plus payments, which
reconnect too. Sweeps run one at a time (the billing queue has concurrency 1), requests beside
them; nothing takes a lock. Hard behaviour: a row read before another request moved it, a RADIUS
failure half-way, a crash between two writes. Correct means: each period is billed once and no
paused day is; who has paid comes back; who owes is cut off; cancelled stays cancelled.

### Payment channels: `packages/payments/src/{mpesa,paystack,pesapal}`

| part | state | operations |
|---|---|---|
| STK push | `mpesa_stk_requests`, `payment_webhook_events` | prompt then row, callback under a row lock, status query, poll, replay of stored callbacks |
| paybill (C2B) | `mpesa_c2b_transactions` | confirmation of the ISP's or the platform's paybill, match by staff, assignment by an administrator |
| card gateways | `paystack_transactions` (Pesapal too) | checkout page then row, webhook, verification |
| platform plan | `tenant_subscriptions`, `tenant_subscription_payments` | renewal, callback, choice of a plan, what staff record, hourly sweep |

They end in `recordPaymentForInvoiceCore`, `topUpWallet` and `recordPlatformCollection`. Hard
behaviour: a callback before the row, twice, late or never; a status query that completes a push
without its receipt number; two handlers that read a row as open; a stranded callback replayed.
Correct means: money that left the customer is recorded once, under one receipt, and owed to the
right ISP.

### Field agents, add-ons, campaigns: `packages/billing`, `apps/worker/src/jobs`

State: `agent_sales`, vouchers, `addon_purchases`, `campaigns` with recipients and a Redis lock.
Operations: sell a voucher, collect cash for invoices, start, prolong, end and cancel a boost,
send a batch. Hard behaviour: the same request again, a sweep beside a payment page, a lock that
expires under its holder, a death between a message and its record.

### What is done to routers: `packages/radius`, `packages/network`, `apps/worker/src/jobs`

State: `provisioning_jobs`, the status of the subscriber on the network, rollouts and their
targets. Operations: enqueue (with a deduplication key), the worker's pass, retry by staff; start,
pass over and cancel a rollout. Hard behaviour: a router that applies half of an operation, a
worker that dies holding a job, passes that overlap. Correct means: a status says what a device
confirmed, no router is updated twice, none before the canary, and a rollout ends.

### Everything else

Referrals, vouchers and hotspot sessions, IP pools, RADIUS sync (`packages/radius`); router
health, WireGuard, backups (`packages/network`); sessions and login (`packages/auth`); store
orders, maintenance mode, messaging, support, AI, reports, clients. Each is a component in
`PROJECT.json` with the reason it is left out; see section 6.

### How they interact

    StkRequest, PaybillC2B, CardGateway, AgentSales
           |  callback, confirmation, webhook, cash
           v
    payment, wallet, invoice  (Payments) --> AddOns start
           |  same transaction                |  full payment reconnects
           v                                  v
    collection --> ledger (GatewayLedger)   customer_services (Subscription) <-- sweeps, requests
                     ^       |
     refunds --------'       v  reserve / give back
     (undo the Payment)   settlements (Settlement) --> provider --> result, timeout callbacks
                             ^
              schedule (SettlementSchedule), tenants, administrators

    customer_services --> ProvisioningJobs --> routers <-- RouterRollouts
    TenantPlan: the ISP itself pays the platform by the same M-Pesa callback endpoint

## 2. The modules

| module | models | built on |
|---|---|---|
| `Fees` | fee of a collection, fee share of a refund | |
| `GatewayLedger` | ledger, collections, refunds, reversals | `Fees` |
| `PayoutPromise` | abstract: a claim is reserved, then paid once or given back once | |
| `Settlement` | settlements, their callers and the provider, beside collections and refunds; implements `PayoutPromise` | `GatewayLedger` |
| `SettlementSchedule` | slot arithmetic, and which tick runs a slot | |
| `Payments` | invoices, payments, wallet | |
| `Subscription` | sweeps and requests over time, beside payments | `Payments` |
| `TransferPromise` | abstract: money taken is recorded at most once, and owed in the same step | |
| `StkRequest` | STK pushes, callbacks, status queries, poll and replay; implements `TransferPromise` | |
| `PaybillC2B` | paybill confirmations, matching, assignment; implements `TransferPromise` | |
| `CardGateway` | Paystack and Pesapal transactions and hotspot vouchers sold by them | |
| `AgentSales` | an agent's collections and voucher sales | |
| `TenantPlan` | an ISP's trial, plan and renewals | |
| `ProvisioningJobs` | the queue of operations on routers, with failures half-way | |
| `RouterRollouts` | an update of several routers behind a canary | |
| `AddOns` | speed boosts and the rate in RADIUS | |
| `Campaigns` | one message campaign under its lock | |
| `SumTheorems` | facts about sums and counts over finite sets | |
| `SettlementProofs`, `GatewayLedgerProofs`, `PaymentsProofs` | theorems about the module they are named after (`GatewayLedgerProofs` has those about `Fees` too) | `SumTheorems` |
| `CollectionProofs` | theorems about `StkRequest`, `PaybillC2B`, `CardGateway` and `AgentSales` | `GatewayLedgerProofs` |
| `BackgroundProofs` | theorems about `SettlementSchedule`, `AddOns` and `Campaigns` | `NetworkProofs`, `SumTheorems` |
| `NetworkProofs` | theorems about `ProvisioningJobs` and `RouterRollouts` | |
| `SubscriptionProofs` | theorems about `Subscription` and `TenantPlan` | `PaymentsProofs` |
| `MCCollections`, `MCBackground`, `MCSubscription` | several modules side by side, one of them moving in each behaviour | |
| `MCAccount`, `MCPayments`, `MCSettlement` | constants, symmetry and regimes | |

### GatewayLedger

One action is one database transaction, which the row locks of the code make serial. `Txns`
stands both for payments and for gateway transactions (`paymentId` is unique). The ledger is a
set of rows with their `source`, the idempotency key. `payment` is the billing Payment as far as
the gateway looks at it: a full reversal by the platform marks it reversed, and a reversal by the
tenant reverses the gateway transaction in the same transaction. Amounts are bounded by the
`Int` columns (`MaxMinor`).

### Settlement

A caller is an API request, a worker tick or a webhook handler. `requestSettlement` is two steps
under the tenant's row lock (`Locked`): the checks on other settlements, then the balance, the
insert, the debit row and the linking of collections. `dispatchSettlement` is a claim (a
conditional update), the provider call outside any transaction, and the write that records its
answer; a crash may end a caller between any two. `provider[s]` is what really happened to the
instruction: `accepted`, then `moved` or `dead`; a call without a definite answer leaves either.
Result callbacks may come at any time after, repeatedly, or never; one that precedes the stored
conversation id finds nothing. The timeout callback reads and flags in two steps without a lock.
`failSettlement` does not take the tenant lock and neither does the collection of payments.

Abstracted: which destination is chosen and its verification (a choice `automatic` or not);
`mode` and `destination` settings (chosen at each request); the sandbox; texts, audit rows and
notifications; the trigger stored on a payout, which nothing reads back. Assumed of people:
`resolveSettlement` is used as its route says, truthfully ("once the provider has been asked
directly") and not while a dispatch of the same settlement is still running.

### SettlementSchedule

Time is in hours from a Monday 00:00 UTC, the offset of Nairobi is 3. A tick reads time, settings
and `lastScheduledRunAt`, then claims with an update conditional on what it read. The clock may
jump (worker down), the settings may change at any time. What a run then asks for each tenant is
`requestSettlement`.

### Payments

Each request is a worker that reads in one step and commits in a later one; in between others
commit. Only what the database itself guarantees is atomic: the unique key, and the wallet's
conditional update (`CanDebit` is evaluated at commit). The writes of one transaction are
collapsed into its commit: READ COMMITTED shows none of them before. A payment that covers its
invoice has three steps more, as its transaction reads again after it has written: it counts what
else is unpaid (`countUnpaid`), lists the suspended plans (`listSuspended`), and at commit sets
those ACTIVE by their ids, whatever they have become (`reactivated`). From the first of these on
its invoice's row is locked (`Holds`, `MayWrite`). The count sees only what is committed: of two
payments that each clear one of the last two invoices, each may count the other's as unpaid, and
neither reconnects; the reconnection sweep of `Subscription` does. `gross` is what the customer
handed over (`gateway_transactions.grossMinor`), `credited` the row in `wallet_transactions`. A
key names one request (`SameRequest`): repetitions carry the same data. Left out: CANCELLED
invoices (add-ons only), zero totals, receipts and numbering. Here an invoice becomes overdue at
any time; `Subscription` has the dates.

### Subscription

`Payments` with a clock in days, due dates, pauses, a `Sweeper` (the one billing worker) and
`Staff` requests. An actor's record holds the row it read. `pauseSubscription` is three writes
(switch off, RADIUS, stamp) with its undo path. `Overlap = FALSE` describes a quiet system, in
which a request or sweep about subscriptions starts only when no other runs; payments always
interleave, and may have listed a plan that is cancelled before they write it (section 5). The count
of unpaid invoices and the update that follows it in the reconnection sweep are one step, and so are
the reading and the write of `suspendSubscription` inside a pause
(`switchOff`), on which no property depends. `restoreServiceAfterPayment` is that sweep, started
early.

### StkRequest

A push is its CheckoutRequestID. `prompt` is the customer's phone, `journal` the callbacks that
`recordWebhookEvent` stored, which the replay reads again. Everything after the row lock of
`completeStkRequest` is one transaction, hence one step; what precedes it (reading the result,
the old row, the credentials) is another, so handlers overlap, die in between, and arrive before
the row is inserted. A status query has no receipt number: it completes the row under a
provisional receipt (`PRV`), and the callback that follows renames row, payment and collection
(`upgradeReceipt`). `OldFailures` are rows an older version failed too early, which the code still
accepts a success for. Only M-Pesa's data are abstracted: result codes are `ok`, `cancelled`,
`processing`, `error`. The texts to the buyer are left out.

The replay has two limits (`poll.service.ts:69-75`): a request created more than fourteen days ago
is not looked at again (`aged`), and a pass takes 500 of the closed requests without an order
(`ReplayLimit`), whether they were paid or not. Where closed requests of those days outnumber a
pass, nothing says that a paid one is ever among the 500. Recovery is therefore promised, and
checked, only with those two exceptions.

### PaybillC2B

A confirmation looks for its row outside the transaction and inserts it inside, where the unique
`transactionId` decides. `meant` is whom the account number names; staff match what is unmatched
and an administrator assigns what came to the platform's paybill without a reference.

### CardGateway

Paystack and Pesapal share a table and a way of completing. Nothing locks the row, so a worker
keeps what it read (`cardWorker`) and may commit it late; what protects a sale is the unique key
of the payment. The row itself is *not* protected (section 5).

### AgentSales

One agent, one customer with a list of open invoices, vouchers in stock. The look-up of a
collection's request id is outside its transaction. That transaction lists the open invoices
(`listBills`), then reads each again without a lock (`readBill`, the first half of
`recordPaymentForInvoiceCore`) and writes what it then computes, visible when it commits
(`collectAgentPayment`); a row it has written makes others wait (`MayWrite`). Two collections that
overlap may thus both see an invoice as owing, both be put on it, and the later `amountPaidMinor`
hide the earlier: payments and bills part, in the same way as in run `excess`. What holds all the
same is that each request's cash is recorded once, under one sale, and that no bill shows more as
paid than was put on it; that the excess goes to the wallet does not hold (section 5).
`RetryWhileBusy` says whether the agent's phone sends a request again while the first still runs:
even the first of these needs that it does not, and run `agent_twice` shows what happens when it
does. Reconnection after a collection is left out; it is the one of `Payments`.

### TenantPlan

The three dates of `tenant_subscriptions` in days, the renewals with their prompts, up to two
requests that each hold what they read (`planDesk`), and the hourly sweep between its list and its
write (`planSweep`). `givenUntil` is the end of the last period staff recorded or gave. The trial
date that the tenant's own form edits (`trialEndsAt`) is not kept: where `assignPlan` reads it,
any date may be found. Prices, billing cycles and the one-off onboarding fee are left out.

### ProvisioningJobs

The queue is a sequence in order of creation, the worker one pass that takes `BatchSize` jobs.
`enabled` is what the router really has: an operation that fails may have done its work or not.
`resetting` are finished jobs that a request has read and will make PENDING again (the
deduplication key is the service, operation and plan). One pass runs at a time, which the deployment
gives (`docker-compose.prod.yml` has one worker, its queue has concurrency 1) and the code does not
enforce: nothing in `provisioning.service.ts:222-230` claims a job. Two pairs of writes without anybody in
between are collapsed: the start of a job (job, then service) and a failed enqueue.

### RouterRollouts

Passes of several workers over targets in position order; a pass looks, claims conditionally,
works on the router, and records. `overdue` are targets that have been RUNNING for 15 minutes and
are given up even when their pass is only slow.

### AddOns

Purchases of one boost of one plan; a purchase page, the sweep and staff each read in one step and
write in a later one. `boosted` is the rate RADIUS has, recomputed from a reading that may be
stale. Data bonuses are a sum at the time of reading and left out.

### Campaigns

One campaign, its recipients, and passes that take the Redis lock (which expires under a slow
pass, and which a pass deletes whoever holds it), send and record one message at a time, and may
die anywhere.

## 3. What the runs check

| run | properties | bounds | states |
|---|---|---|---|
| `collections` | gateway: `RefundsUnwindExactly`, `ReversedPaymentNotCredited`, `MoneyRowsOnlyGrow`; STK: `RecordsAgree`, `KeepsTransferPromise`, `StoredCallbackIsRecorded`; paybill: `ReconciledIsCredited`, `C2BKeepsPromise`; cards: `SaleIsWhole`; agents: `AgentAccountAgrees`; all: `CollectionsTypeOK` | 2 transactions of 7 or 150, refunds of 1, 49, 100 and full ones, up to 3 each, fee 10 % + 3; 1 push, 2 workers, and 2 pushes, 1 worker, passes of 1; 2 transfers, 2 ISPs, 2 confirmations; 2 references, 2 workers; 2 bills, 2 requests, 2 vouchers, 2 buyers | 144 k |
| `settlement` | `TypeOK`, `SettlementLedgerAgree`, `MoneyMovedIsReserved`, `DispatchInv`, `FinalStatesStand`, `EveryDispatchEnds` | 2 callers, 2 settlements, 2 collections | 62 k |
| `settlement_refunds` | `NeverOverpaid`, `KeepsPromise` | 1 caller, 2 settlements, 2 collections, each refunded or reversed | 404 k |
| `background` | schedule: `NoSlotTwice`, `LatestIsLatest`, `DueIsRun`; provisioning: `StatusIsConfirmed`; rollouts: `CanaryGoesFirst`, `RolloutEnds`; add-ons: `StartsOnceForItsHours`; campaigns: `MessagesRepeatOnlyByFaults`; all: `BackgroundTypeOK` | 2 workers, 8 days in jumps of 67 and 101 hours; 1 service, 2 operations, 2 rows, 2 attempts; 2 routers, 2 passes, 1 death; 2 purchases of 1 hour, 2 workers; 3 recipients in batches of 2, 2 passes, 1 fault | 321 k |
| `payments` | `QuietInvoiceAgrees`, `QuietMoneyAccounted`, `BusyWalletAgrees`, `AccountInv` | 3 keys, every operation; one request at a time and 2 invoices, or two at a time and 1 invoice | 420 k |
| `subscription` | `BillingDateAgrees`, `OnlyListedPlansRevive`; ISP: `ActiveWasPaid`, `PaidPeriodStands`; all: `PlansTypeOK` | 3 cycles of 2 days, 2 pauses, crashes, quiet system; 2 requests of an ISP, 1 renewal, 3 days | 2.19 M |
| `subscription_live` | `PaidUpReconnects`, `OverdueIsCutOff`; ISP: `UnpaidPlanEnds` | overlapping requests, 4 days; 1 request beside the sweep, no M-Pesa, 5 days | 112 k |

and five runs that show the code not doing what it says (section 5).

Three runs put modules side by side that share no variable: the first state chooses a `focus`, only
that module moves, and every property is checked of all. Such a run checks what one run for each
module would. (Fairness is added for what may move in the focus: a component that stands still with
an enabled fair action would make every behaviour unfair.) STK pushes have two focuses, `stk` (one push,
two workers) and `replay` (two pushes, one worker, the ISP's own paybill, passes of one). `payments` chooses in the same way
whether requests `overlap`: two regimes of one module, as the agreements of the quiet one do not
survive the overlap the code allows (section 5).

What they show:

- *gateway part of collections*: in every order of partial refunds, reversals from either side and
  completions, a fully refunded transaction leaves nothing on the tenant's ledger and the fee
  comes back exactly: rounding never gains or loses a cent. 7 and 49 make every share round.
- *STK and paybill*: both refine `TransferPromise`, through repeated, early and late callbacks,
  status queries, replays, staff and administrators: a transfer is recorded at most once, under
  one receipt, after it was taken, and owed to the ISP exactly when the platform took it. A stored
  callback that reports success leads to a recorded payment, by callback, poll or replay, within
  the limits of the replay (focus `replay`: two requests compete for a pass of one).
- *cards*: however webhook and verification overlap, one voucher is issued for one paid
  reference. *agents*: each request's cash is on the account once and owed by the agent once, no
  bill shows more as paid than was put on it and no voucher has two buyers, however collections
  overlap, as long as a request is not repeated while it runs.
- *settlement*: two settlements and two callers are the smallest system with a race for the
  balance, a race for the dispatch, and an older settlement closing after a newer one was
  created. `SettlementLedgerAgree` is what reconciliation reports when it fails; it never fails.
  The partial unique index on queued settlements never has to reject anything.
- *settlement_refunds*: money sent to a tenant never exceeds what was collected for them net of
  fees; a refund after settlement may make the balance negative by that refund only.
  `KeepsPromise` is the refinement of `PayoutPromise`: a claim is `paid` when the provider moves
  the money, whether or not anybody was told.
- *background*: a restart, an extra tick, two workers or a changed schedule never run a slot twice
  or out of order, and the arithmetic finds the latest slot by its definition, across a week's end
  and Nairobi midnight; a network status is what a router confirmed; a rollout respects its canary
  and ends; a boost starts once and is never cut short; only deaths and expired locks repeat
  messages, and only so many.
- *payments*: `amountPaid` is the sum of the completed payments and the status agrees.
  `QuietMoneyAccounted` is a conservation law that also names the two leaks the code has: credits
  of overpayments that were reversed, and of top-ups that were matched. Replayed callbacks and
  overlapping payments move the wallet once per key and never below zero.
- *subscription*: the billing date is exactly one cycle per invoice plus the days really paused,
  through early resumption, RADIUS failures, crashes after any write, and cancellation. A cancelled
  plan comes back only by a payment that had listed it before (which happens: section 5). An ISP's
  plan is ACTIVE only for a period that was paid or recorded, and a running period is taken away
  only by a request or sweep that had read the plan before the payment (which happens: section 5).
- *subscription_live*: with everything overlapping, a suspended customer who owes nothing comes
  back and a customer overdue beyond the grace period is cut off, unless paid or moved first; an
  ISP whose trial, period or grace is over does not keep its plan for ever.

Bounds. Two of everything that races is enough for every pairwise interleaving; the third key
in `Payments` allows an excess, a wallet payment from it and a reversal of either. Amounts are
chosen for their relation: below, equal to and above what is owed; below and above a whole
shilling. Three recipients in batches of two make a second batch; two routers are a canary and
one that waits. Larger instances that passed once: `settlement` with two tenants (1.9 million
states; tenants share nothing but the callers), `AddOns` with four hours and boosts of two
(1.2 million), `RouterRollouts` with three routers and two deaths (1.1 million, with the inductive
invariant of its proof). A `PlanGrace` of 0 days still separates the end of a period from the end
of its grace, as each is looked for on a later day. Bounds that cap counters: `MaxJobs`, `MaxDeaths`, `MaxFaults`, `MaxRefunds`, `MaxSettlements`, `MaxPauses`, and the ends of
the clocks `Horizon`, `LastDay`, `LastHour`, `LastPlanDay`. Deadlock checking is off everywhere
because the bounds stop the systems (no more settlements, keys or days); nothing in the code waits
for ever, and what must not stop is stated as liveness. `ReplayLimit` is the code's own 500, as 1:
enough that two stranded requests outnumber a pass.

Fairness. `Settlement`: callers finish or die (weak); the provider decides what it accepted
(weak); a person resolves what is left over (weak, because `SETTLEMENT_STUCK` in
`reconciliation.service.ts:237-257` keeps reporting it). No callback, approval or request is fair.
`SettlementSchedule`: the repeatable job ticks (weak). `StkRequest`: the job that polls and replays
comes round every two minutes. The poll comes to every PENDING request (strong, as between two
passes a push may be taken up by another worker); the replay comes to a request only when all that
are stranded fit into a pass (strong, of the replay together with `Cardinality(Stranded) <=
ReplayLimit`), and the property says the same: it is about behaviours in which they fit again and
again. A completion does not die every time (strong); no callback of Safaricom is fair.
`RouterRollouts`: a pass that was begun goes on or dies, passes begin again, and 15 minutes pass
(weak). `Subscription`: what was begun goes on (weak); each sweep comes round again (strong: it is
a repeatable job in a FIFO queue whose turn is interleaved with the others, and a crash of one run
is followed by the next; `packages/shared/src/automation.ts` has the intervals). `TenantPlan`: the
hourly sweep takes its steps (weak) and does not die each time before it writes (strong). Nobody has to
pay, ask or answer a prompt.

## 4. What is proved

Every safety invariant and every action property the passing runs check, and all three
refinements, are theorems for every value of the constants, under the `ASSUME`s in the modules:
tenants exist, amounts are positive and fit the column, null values are not members of the sets
they extend, schedule hours and weekdays are in range; ids and keys are finite sets (UUIDs, texts in
an indexed column), as are an agent's bills, a campaign's recipients and its passes; the customer has
a subscription, and each was made with an invoice of its own (`ServicesAssumption`:
`subscribeCustomerToPackage` creates both). Five theorems have a hypothesis that describes a regime, the one their run has: `~Overlap`
(`OnlyListedRevive`, `BillingDates`, `NotBilledSooner`, `PlansTyped`), also `"extend" \notin Asked`
(`BillingDates`), and `~RetryWhileBusy` (`AgentAccount`). The regimes of `MCAccount` are values of
its variable `overlap`. Section 5 says what happens outside them.

Sums and counts. Most money properties compare a running total with a sum over rows, and the
provers have no induction rule that takes a predicate. `SumTheorems` therefore states induction over
sets: a set of numbers, or of parts of a finite set, that is closed under one step holds all of them
(`NumberSets`, `FiniteSetInduction`; both come from the least element of a set of numbers). With it
a sum (`SumFunctionOnSet`, whose definition is a recursive function) is shown to add up (`SumAdd`),
and everything else follows: what one changed term does to a sum (`SumUpdate`), a sum that splits
(`SumSplit`), one over a part (`SumOfPart`), one whose set changes with the step (`SumMoves`), and how
a set that gains or loses a member is counted.

Gateway and settlements:

- `FeeWithinGross`, `ShareWithinFee`: a fee is between nothing and the payment, and a refund
  returns between nothing and what is left of the fee, all of it when it completes the refund.
- `MoneyRows`: `GatewaySpec => MoneyRowsOnlyGrow`. The invariant it needs is `ColumnsOK`: the
  refunded amount of a transaction is within its gross amount. The first three theorems rest on
  `FeeRuleAssumption` and the range of the amounts only.
- `RefundsUnwind`, `ReversedNotCredited`, `GatewayTypes`: that nothing is left after the last of
  many refunds is not inductive; `GatewayInv` says what is left after each. For every transaction the
  rows on the ledger come to the net amount less what was refunded plus the fee returned
  (`MoneyOK`), and no row has a key that a later step will write (`KeysFree`), so that a step adds
  its rows to the sum and never replaces one.
- `TypeCorrect`: `Spec => []TypeOK`, settlement by settlement and caller by caller.
- `DispatchCorrect`: `Spec => []DispatchInv`. `MoneyMovedIsReserved` is not inductive: that a
  refused call may fail the settlement depends on nobody else having sent it, which depends on
  the claim, which depends on a REQUESTED settlement not having been sent. `DispatchInv` adds
  `LockHeld`, `NothingSentEarly` and `DispatchOwned` (what a caller relies on between two of its
  steps) to `OneQueuedPerTenant` and `OneDispatcher` and is inductive; `PayoutSafety` takes the
  property out of it.
- `LedgerCorrect`: `Spec => []SettlementLedgerAgree`, from the two above and that no other part
  writes rows under a settlement's sources (`GatewayRows`).
- `FinalStates`: `Spec => FinalStatesStand`, an action property: final statuses stay, tenant and
  amount never change, the balance returns only in the step that fails or cancels.
- `BalanceCorrect`, `NoOverpayment`: `BalanceInv` splits a tenant's ledger into what was earned,
  what was taken back and what settlements hold (`TotalBy` over three kinds of sources). What is
  held is the sum of the settlements that are under way or settled; the reservation's check of the
  balance, under the tenant's lock, keeps it within what was earned. `TypeOK`, `DispatchInv` and `SettlementLedgerAgree` are
  used as invariants already proved.
- `SettlementImplements`: `Spec => KeepsPromise`. Each step is a step of `PayoutPromise` or a
  stutter: a reservation is covered by the balance `BalanceInv` speaks of; the provider moves money
  only for a settlement that is reserved (`MoneyMovedIsReserved`); a balance is given back only
  for one whose money cannot move any more.

Accounts:

- `AccountCorrect`: `AccountSpec => []AccountInv`. Whatever overlaps, the wallet is never
  negative and no request applies less than nothing. The strengthening is that totals never
  change once issued, so what a request read is stale in `paid` only.
- `BusyWallet`: with requests that overlap, the wallet is the credits of completed payments less
  what was paid from it. Only the unique key and the conditional update are needed, besides that
  nobody reverses (`NoneReverses`): two overlapping reversals do move the wallet twice (section 5).
- `QuietInvoices`, `QuietMoney`: while requests do not overlap, what the one request has read is
  still true when it commits (`TrueTo`), at most one is in progress (a count, `OneWorker`), and
  each commit moves the four sums of the accounts by the same amounts. The two leaks are sums too.
- `AgentAccount`, `AgentTyped`: `AgentInv` says of every collection that it was sold once and what it
  put on the bills and in the wallet is its cash (`RequestOK`), of every bill that it shows no more
  as paid than all the requests put on it (`BillOK`), and of every desk at work that this was so of
  what it has read (`ReadOK`): payments are only added, so what a stale reading shows as paid is
  still covered when it is written, together with the payment that goes with it. It needs that no
  two desks hold one request (`TillsOK`), which is what `~RetryWhileBusy` gives and the route's
  look-up does not.
- `BillingDates`, `NotBilledSooner`: `DateInv` says that a billing date is at least a cycle for each
  invoice plus the days of its pauses, and exactly that where nobody asks for an extension; that a
  plan with a `pausedUntil` has an open pause; and that what the one request or sweep in progress
  has read of the dates is still so (`StillSo`). It includes `AccountInv`, because what is billed
  is counted by invoices that payments, voids and matches write beside it. The date never goes below
  zero when unused days are taken back, since those days are among the days counted
  (`DaysShortened`): this is what the type needs (`PlansTyped`).

The worker, and what is collected:

- `ScheduleCorrect`, `SlotsRunOnce`: a tick that may still claim has seen the last run, and the
  last run is no older than any slot run, hence no slot twice; with the lemmas that the daily and
  weekly slot are not after now.
- `LatestCorrect`: `Spec => []LatestIsLatest`. `latestScheduledRun` finds a slot that is not after
  now and after which no other slot lies before now, at any time and under any settings; beside
  `TypeOK` this needs only the arithmetic of days and weeks.
- `StkTyped`, `PushRecordsAgree`: the invariant is `StkInv`, which adds to `RecordsAgree` what a
  row that is not yet there or not yet paid looks like (`RowInv`) and what a worker between two of
  its steps relies on (`WorkerInv`: an answer "paid" it holds is true, and no other worker inserts the
  same row).
- `PushRecordedOnce`: `StkRequest` refines `TransferPromise`. From `StkInv`, each step takes the
  money of one push, records one, or is a stutter of the abstract specification; the renaming of a
  provisional receipt is the one that needs care, as `recorded` must stay a single receipt.
- `ReconciledRows`, `TransferCreditedOnce`: the same for the paybill, from `C2BInv`.
- `CardSaleIsWhole`: `CardInv` adds to `SaleIsWhole` that the answer "COMPLETED" a worker holds is
  still true when it commits, as a checkout that is paid stays paid. What it read of the row may be
  stale; the unique key of the payment, not the row, refuses the second voucher.
- `BoostRunsItsHours`: `AddOnInv` adds what every worker read and still relies on (`SweepInv`), and
  that a purchase's start never moves (`AddOnsGrow`), so that hours found to be up stay up and a
  purchase that is prolonged never loses hours, however stale the end another worker read.
- `OnlyListedRevive`: `~Overlap => (Spec => OnlyListedPlansRevive)`, from `CancelInv`: one request
  or sweep at a time is half done, and one that will write a status without another look works on a
  plan that is not cancelled; and from `ListedInv`: only a payment that is about to restore plans
  holds a list of them, made while they were suspended. With overlapping requests it does not hold,
  as `writeStatus` and `reconnect` do not look again.
- `ActivePlanWasPaid`, `RunningPeriodStands`: `PlanInv` adds that a prompt has one request that will
  insert its row (`DesksInv`) and that a row is COMPLETED only when the phone paid (`RenewalsInv`);
  a callback that comes again finds the same answer, which is what keeps a COMPLETED row so.
- `JobTyped`, `StatusConfirmed`: `JobInv` adds to the property what the pass relies on while it
  works on a router (`RunnerInv`: while it works the service's status claims nothing of the
  router, and an operation that succeeded left the account as the operation says).
- `RolloutTyped`, `UpdatesOnceAfterCanary`: `RolloutInv` adds `TargetsInv` (a target nobody has
  claimed is unchanged) and `ClaimsInv` (a pass that works holds a target no other pass holds, and
  the canary is over unless it is the canary). That a target given up while its pass is slow is
  never claimed again is what makes it inductive.

- `RepeatsAreFaults`: `CampaignInv` counts passes: there are at most one more than locks that expired
  (`PassesOK`); each message to a recipient nobody has recorded is of a pass about to record it or
  of one that died, and after that only passes that had read the recipient by then send another
  (`TextedOK`). While no lock has expired a pass sends to nobody who was tried (`AloneOK`), and while
  there was no fault at all nobody is forgotten (`FaultlessOK`).
- `BackgroundTyped`, `CollectionsTyped`: the modules side by side. A step of the composition is a step
  of each part or leaves its variables alone, so each part keeps what was proved of it alone
  (`EachAlone`, `EachWayAlone`).

Only model-checked: all liveness (`EveryDispatchEnds`, `StoredCallbackIsRecorded`, `DueIsRun`,
`RolloutEnds`, `PaidUpReconnects`, `OverdueIsCutOff`, `UnpaidPlanEnds`), as it needs `ENABLED`; and the
five disagreements of section 5, which are violations that a counterexample shows.

## 5. Where code and text disagree

Shown by a run:

| run | what happens | what the code says |
|---|---|---|
| `automatic_pause` | settlement 1 fails by a late callback after settlement 2 was created: automatic runs go on | `settlement.service.ts:115` "After a failed payout, automatic runs stop for this tenant until a person acts" |
| `excess` | two overlapping payments both apply in full to one invoice; the later write hides the earlier in `amountPaid`, no excess is credited | `payment.service.ts:46` "the excess over what the invoice needs is credited to the customer's wallet" |
| `matched_top_up` | a matched top-up pays the invoice and stays in the wallet | `routes/payments.ts:133` "exactly as if the money had matched" |
| `pause_holds` | a full payment sets every suspended plan ACTIVE, paused ones too | `billing-cycle.service.ts:136` "A plan the customer paused stays off until its pause ends" |
| `agent_twice` | a collection sent again while the first request runs passes the look-up of its id; the invoice it paid is no longer listed, and the cash is recorded a second time | `apps/web/src/components/agent-app.tsx:270` "a retry after a dropped connection can't record it twice" |

Found in the same models while they were written, not kept as runs. Money:

- two overlapping reversals of one payment both move the wallet (`payment.service.ts:259` reads
  the status without a lock, and the final update is unconditional);
- reversing an overpaid payment leaves its excess in the wallet (`payment.service.ts:266`; it is
  the first half of `LeftInWallet`);
- a paid request that is left closed for fourteen days, or never among the 500 a pass is given,
  is not recovered (`poll.service.ts:69-75`; the exceptions of `StoredCallbackIsRecorded`);
- two collections for one customer that overlap are both put on the same bill, and what is over what
  it owes is in neither the wallet nor `amountPaid`: the race of `excess`, in
  `agent.service.ts:118-140`, whose line 107 says "anything over what is owed goes to the customer's
  wallet";
- two overlapping matches apply one payment to two invoices (`routes/payments.ts:145`);
- a partly paid invoice that became OVERDUE may be voided, and so may one paid between the check
  and the update (`invoice.service.ts:150`);
- a voucher message may be sent twice (read in the code; texts are not modelled):
  `routes/mpesa.ts:420` "Notifications only for the first delivery", but being first is decided by a
  reading before the transaction;
- a card transaction that is COMPLETED can be overwritten with FAILED or ABANDONED by a handler
  that read it as PENDING (`paystack/webhook.service.ts:67`); the payment and the voucher stay;
- the comment at `stk.service.ts:206-211` describes less than lines 232-244 do about a
  provisional receipt.

Plans:

- a payment lists the suspended plans and then sets each ACTIVE by its id, so a plan that staff cancel
  in between comes back (`payment.service.ts:136-144`; even with `Overlap = FALSE`, and the exception
  that `OnlyListedPlansRevive` names);
- a plan cancelled while the reconnection sweep handles it comes back ACTIVE
  (`billing-cycle.service.ts:148`; `OnlyListedPlansRevive` fails with `Overlap = TRUE`);
- a pause that overlaps a renewal or an extension loses one of the two moves of the billing date
  (`pause.service.ts:59`; `BillingDateAgrees` fails with `Overlap = TRUE`);
- `expire-trials.ts:13-15` and `schema.prisma:1626` say the tenant is SUSPENDED after its grace
  period; the code sets the subscription EXPIRED only, and after a first payment `trialEndsAt` is
  null, so `resolveTenant` (`plugins/tenant.ts:40-44`) does not lock it either;
- the hourly sweep writes PAST_DUE over a plan renewed after it was listed, and choosing a plan or
  changing a trial by an older reading ends a period just paid for (the exceptions that
  `PaidPeriodStands` names; `tenant-billing.ts:76` "a paid period is never silently swapped");
- a renewal whose callback is lost stays PENDING and blocks `/renew` and `/choose-plan` for ever
  (`subscription-billing.service.ts:130`; nothing polls this table);
- an early renewal by M-Pesa starts its period today and loses the days already paid, unlike the
  one staff record (`routes/tenants.ts:601` "an early payment loses nothing");
- a cancelled add-on purchase may be one that was just paid and started (`addon.service.ts:192`),
  two overlapping starts of purchases of one boost lose hours, and a sweep that dies between
  ending a boost and refreshing the rate leaves the speed.

Worker and devices:

- a provisioning job that was PROCESSING when the worker restarted is listed by nobody and cannot
  be retried (`provisioning.service.ts:480` "This job is already queued — it will run on its own.");
- a job that waits for its retry runs after a newer, opposite one of the same service and undoes it
  (`provisioning.service.ts:492`);
- a campaign pass deletes a lock another pass has taken meanwhile, and one that dies between its
  claim and the list of recipients leaves a campaign that is marked SENT and was sent to nobody;
- a voucher extended after it expired is "back to ACTIVE so the phone can log in again"
  (`routes/vouchers.ts:335`), but the expiry sweep has deleted its RADIUS rows; the sweep also
  overwrites an extension made between its list and its write (`voucher.service.ts:256-288`);
- two devices of one voucher overwrite each other's counted usage (`radius-server.ts:445-491`);
- two allocations of an IP address read the same free one (`ip-pool.service.ts`);
- a store order's re-sent prompt overwrites the request id an earlier payment would be found by;
  the onboarding fee does the same and may go from COMPLETED back to PENDING;
- the cached maintenance flag is filled from a reading that may precede the change and is then
  served for up to 30 seconds (`maintenance-state.ts` "for the very next request").

Behaviours modelled but promised nowhere, so no property is about them: a process that
dies after committing a REQUESTED settlement leaves the balance reserved until a person cancels
it, and a worker that dies after claiming a slot leaves that slot unrun (at most once, on purpose).

## 6. Not modelled, and why

- *Vouchers in use, hotspot sessions, RADIUS server*: what matters there depends on accounting
  packets that the code overwrites without an order and on clocks of routers; the voucher's sale is
  in `CardGateway` and `AgentSales`.
- *RADIUS users and sync*: each write replaces what is there by what the subscription says, and a
  retry repeats it. Where its failure matters it is a branch of `pauseSubscription` and of `AddOns`.
- *IP pools, store orders, maintenance flag, onboarding fee*: read; one update each without the guard
  that a property would rest on, as listed above.
- *Sessions, login*: account access, not the protocol of billing and network.
- *Referrals, dunning, win-back, reports, VAT, analytics, PDF, messaging, AI, support*: read-only, one
  guarded update, or messages.
- *Routers, WireGuard, backups, VLAN and setup scripts*: I/O with devices and generation of text. A
  device is an environment that does all, part or none of an operation.
- *Web and Android clients*: user interface, except for the retry of the agent's screen.

In the modelled parts: commissions and remittances of agents, price and cycle of an ISP's plan,
package changes, invoice numbering and tax, credentials, formats, audit rows.

## 7. Plan

Done, in this order: `Fees`, `GatewayLedger`, `Settlement` with `PayoutPromise`, `Payments`,
`Subscription`, `SettlementSchedule`, with their proofs; then `StkRequest` and `PaybillC2B` with
`TransferPromise`, `CardGateway`, `ProvisioningJobs`, `RouterRollouts`, `AgentSales`, `AddOns`,
`Campaigns`, `TenantPlan`; then the proofs of every safety property of all of them.

What could follow: vouchers in use, with usage reported in order; invariants of `Subscription` for
requests that overlap (what survives of the billing date when a pause loses a renewal's move); the
non-temporal half of the liveness arguments, that each step a fair action takes lowers a measure.
