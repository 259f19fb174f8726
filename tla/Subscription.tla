----------------------------- MODULE Subscription -----------------------------
(***************************************************************************)
(* A customer's subscriptions over time: renewal, suspension for debt,     *)
(* reconnection, pausing, extension and cancellation                       *)
(*   packages/billing/src/billing-cycle.service.ts   the worker's sweeps   *)
(*   packages/billing/src/pause.service.ts           pauses                *)
(*   packages/billing/src/subscription.service.ts    staff actions         *)
(*   apps/api/src/routes/subscriptions.ts            extend                *)
(* on top of the invoices and payments of Payments, whose full payments    *)
(* reconnect a service too.                                                *)
(*                                                                         *)
(* The sweeps run one at a time (the billing queue has concurrency 1), the *)
(* API requests beside them.  Nothing locks a row: each reads it first and *)
(* writes single columns of it later.                                      *)
(***************************************************************************)
EXTENDS Payments, Sequences

CONSTANTS
    Sweeper,        \* the billing queue's worker
    Staff,          \* API requests about subscriptions running at one time
    Overlap,        \* FALSE: a request or sweep begins only when no other runs
    Asked,          \* the requests about subscriptions that arrive
    Cycle,          \* the package's cycle, in days
    Grace,          \* gracePeriodDays
    MinPause,       \* the ISP's minDays
    MaxPauseDays,   \* the ISP's maxDaysPerYear
    PauseDays,      \* lengths of the pauses asked for
    MaxPauses,      \* bound: pauses of one subscription
    LastDay         \* bound: the clock stops here, and so do extensions

\* The customer has a subscription, and each was made with an invoice of its own.
ASSUME ServicesAssumption ==
    /\ Services # {}
    /\ \E f \in [Services -> Invoices] : \A r, s \in Services : f[r] = f[s] => r = s
ASSUME ActorsAssumption == Sweeper \notin Staff /\ Overlap \in BOOLEAN
ASSUME AskedAssumption ==
    Asked \subseteq {"pause", "resume", "cancel", "suspend", "reactivate", "extend"}
ASSUME DaysAssumption ==
    /\ Cycle \in Nat \ {0} /\ Grace \in Nat /\ LastDay \in Nat
    /\ MinPause \in Nat /\ MaxPauseDays \in Nat /\ PauseDays \subseteq Nat \ {0}
    /\ MaxPauses \in Nat

VARIABLES
    today,      \* the clock, in days since the customer subscribed
    bill,       \* what an invoice bills: its subscription and due date
    pauses,     \* service_pauses of each subscription, oldest first
    actor       \* what each request or sweep has read and still has to do

planVars == <<today, bill, pauses, actor>>
vars == <<paymentVars, planVars>>

NoService == CHOOSE s \in Services : TRUE

Free == [pc |-> "idle", svc |-> NoService, row |-> NewService, days |-> 0]

Actors == {Sweeper} \cup Staff

\* A request or sweep that has read its row and goes on to do "pc" with it.
Begins(a, s, pc, days) ==
    /\ actor[a].pc = "idle"
    /\ Overlap \/ \A b \in Actors : actor[b].pc = "idle"
    /\ actor' = [actor EXCEPT ![a] = [pc |-> pc, svc |-> s, row |-> service[s], days |-> days]]
    /\ UNCHANGED <<paymentVars, today, bill, pauses>>

Requests(a, kind) == a \in Staff /\ kind \in Asked

Goes(a, pc) == actor' = [actor EXCEPT ![a].pc = pc]
Ends(a) == actor' = [actor EXCEPT ![a] = Free]

SetStatus(s, status) == service' = [service EXCEPT ![s].status = status]

UnpaidInvoices == {i \in Invoices : invoice[i].status \in UNPAID}
OverdueInvoices == {i \in Invoices : invoice[i].status = "OVERDUE"}

Greater(a, b) == IF a >= b THEN a ELSE b

-------------------------------------------------------------------------------
(* The sweeps. *)

\* The row is read again inside the transaction that bills it.  (Invoices is a bound
\* on what is ever billed.)
generateDueRenewalInvoices(s) ==
    /\ service[s].status = "ACTIVE" /\ service[s].autoRenew
    /\ service[s].nextBillingAt <= today
    /\ \E i \in Invoices : invoice[i].status = "NONE"
    /\ Begins(Sweeper, s, "renew", 0)

\* Mutant of billedUntil: the billing date does not move.
SameDate(row) == row.nextBillingAt

billedUntil(row) == row.nextBillingAt + Cycle

createRenewalInvoice ==
    LET me == actor[Sweeper] IN
    /\ me.pc = "renew"
    /\ \E i \in Invoices, total \in Totals :
         /\ invoice[i].status = "NONE"
         /\ invoice' = [invoice EXCEPT ![i] = [status |-> "PENDING", total |-> total, paid |-> 0]]
         /\ bill' = [bill EXCEPT ![i] = [svc |-> me.svc, due |-> me.row.nextBillingAt]]
    /\ service' = [service EXCEPT ![me.svc].nextBillingAt = billedUntil(me.row)]
    /\ Ends(Sweeper)
    /\ UNCHANGED <<payment, wallet, worker, today, pauses>>

markOverdue(i) ==
    /\ bill[i].due < today
    /\ markOverdueInvoices(i)
    /\ UNCHANGED planVars

OverdueBeyondGrace(i) == invoice[i].status = "OVERDUE" /\ bill[i].due + Grace < today

\* Mutant of suspendOverdueSubscriptions: the grace period is counted twice.
SuspendTooLate(s) ==
    /\ \E i \in Invoices :
         invoice[i].status = "OVERDUE" /\ bill[i].due + 2 * Grace < today /\ bill[i].svc = s
    /\ service[s].status = "ACTIVE"
    /\ Begins(Sweeper, s, "cutOff", 0)

suspendOverdueSubscriptions(s) ==
    /\ \E i \in Invoices : OverdueBeyondGrace(i) /\ bill[i].svc = s
    /\ service[s].status = "ACTIVE"
    /\ Begins(Sweeper, s, "cutOff", 0)

cutOff ==
    LET s == actor[Sweeper].svc IN
    /\ actor[Sweeper].pc = "cutOff"
    /\ IF service[s].status = "ACTIVE" THEN SetStatus(s, "SUSPENDED") ELSE UNCHANGED service
    /\ Ends(Sweeper)
    /\ UNCHANGED <<invoice, payment, wallet, worker, today, bill, pauses>>

MayReconnect(row) == row.pausedUntil = 0 \/ row.pausedUntil <= today

\* The sweep, and restoreServiceAfterPayment, which does the same after a payment.
reactivateClearedSubscriptions(s) ==
    /\ service[s].status = "SUSPENDED"
    /\ MayReconnect(service[s])
    /\ Begins(Sweeper, s, "reconnect", 0)

\* Mutant of reconnect: a paid invoice keeps the service off.
ReconnectUnbilled ==
    LET s == actor[Sweeper].svc IN
    /\ actor[Sweeper].pc = "reconnect"
    /\ IF \A i \in Invoices : invoice[i].status = "NONE" THEN SetStatus(s, "ACTIVE") ELSE UNCHANGED service
    /\ Ends(Sweeper)
    /\ UNCHANGED <<invoice, payment, wallet, worker, today, bill, pauses>>

reconnect ==
    LET s == actor[Sweeper].svc IN
    /\ actor[Sweeper].pc = "reconnect"
    /\ IF UnpaidInvoices = {} THEN SetStatus(s, "ACTIVE") ELSE UNCHANGED service
    /\ Ends(Sweeper)
    /\ UNCHANGED <<invoice, payment, wallet, worker, today, bill, pauses>>

-------------------------------------------------------------------------------
(* Pausing and resuming. *)

usedDays(s) == SumFunction([k \in DOMAIN pauses[s] |-> pauses[s][k].days])

\* The customer has an allowance; staff do not.
pauseSubscription(a, s, days, byCustomer) ==
    /\ Requests(a, "pause")
    /\ service[s].status = "ACTIVE"
    /\ days >= MinPause
    /\ byCustomer => days <= MaxPauseDays - usedDays(s)
    /\ OverdueInvoices = {}
    /\ Len(pauses[s]) < MaxPauses
    /\ Begins(a, s, "switchOff", days)

\* Mutant of switchOff: a status the table does not have.
MarkPaused(a) ==
    /\ actor[a].pc = "switchOff"
    /\ SetStatus(actor[a].svc, "PAUSED") /\ Goes(a, "stamp")
    /\ UNCHANGED <<invoice, payment, wallet, worker, today, bill, pauses>>

\* suspendSubscription, its read and its write as one step, then the pause; when it fails,
\* the plan is switched back on if it is off without a pause.
switchOff(a) ==
    LET s == actor[a].svc IN
    /\ actor[a].pc = "switchOff"
    /\ IF service[s].status = "ACTIVE"
       THEN SetStatus(s, "SUSPENDED") /\ Goes(a, "stamp")
       ELSE UNCHANGED service /\ Goes(a, "undo")
    /\ UNCHANGED <<invoice, payment, wallet, worker, today, bill, pauses>>

radiusFails(a) ==
    /\ actor[a].pc = "stamp"
    /\ Goes(a, "undo")
    /\ UNCHANGED <<paymentVars, today, bill, pauses>>

undoSwitchOff(a) ==
    LET s == actor[a].svc IN
    /\ actor[a].pc = "undo"
    /\ IF service[s].status = "SUSPENDED" /\ service[s].pausedUntil = 0
       THEN SetStatus(s, "ACTIVE") ELSE UNCHANGED service
    /\ Ends(a)
    /\ UNCHANGED <<invoice, payment, wallet, worker, today, bill, pauses>>

stampPause(a) ==
    LET me == actor[a] IN
    /\ me.pc = "stamp"
    /\ service' = [service EXCEPT ![me.svc].pausedUntil = today + me.days,
                                  ![me.svc].nextBillingAt = me.row.nextBillingAt + me.days]
    /\ pauses' = [pauses EXCEPT ![me.svc] =
                    Append(@, [days |-> me.days, startsAt |-> today, resumed |-> FALSE])]
    /\ Ends(a)
    /\ UNCHANGED <<invoice, payment, wallet, worker, today, bill>>

OpenPauses(s) == {k \in DOMAIN pauses[s] : ~pauses[s][k].resumed}

unusedPauseDays(planned, startsAt, now) == Greater(0, planned - Greater(0, now - startsAt))

resumeSubscription(a, s) ==
    /\ service[s].pausedUntil # 0
    /\ Requests(a, "resume") \/ (a = Sweeper /\ service[s].pausedUntil <= today)
    /\ Begins(a, s, "resume", 0)

\* The latest open pause, if there is one, says how many days were not used.  Then
\* reactivateSubscription, unless the plan was not suspended or something is overdue.
endPause(a) ==
    LET me == actor[a]
        s == me.svc
        open == OpenPauses(s)
        k == CHOOSE n \in open : \A m \in open : m <= n
        unused == IF open # {}
                  THEN unusedPauseDays(pauses[s][k].days, pauses[s][k].startsAt, today)
                  ELSE Greater(0, me.row.pausedUntil - today)
        ended == [pauses[s][k] EXCEPT !.resumed = TRUE, !.days = Greater(0, @ - unused)]
    IN  /\ me.pc = "resume"
        /\ service' = [service EXCEPT ![s].pausedUntil = 0,
                                      ![s].nextBillingAt = me.row.nextBillingAt - unused]
        /\ pauses' = IF open = {} THEN pauses
                     ELSE [pauses EXCEPT ![s][k] = ended]
        /\ IF /\ me.row.status = "SUSPENDED" /\ OverdueInvoices = {}
              /\ service[s].status = "SUSPENDED"
           THEN Goes(a, "activate") ELSE Ends(a)
        /\ UNCHANGED <<invoice, payment, wallet, worker, today, bill>>

-------------------------------------------------------------------------------
(* Staff actions. *)

reactivateSubscription(a, s) ==
    /\ Requests(a, "reactivate")
    /\ service[s].status = "SUSPENDED"
    /\ Begins(a, s, "activate", 0)

suspendSubscription(a, s) ==
    /\ Requests(a, "suspend")
    /\ service[s].status = "ACTIVE"
    /\ Begins(a, s, "suspend", 0)

cancelSubscription(a, s) ==
    /\ Requests(a, "cancel")
    /\ service[s].status # "CANCELLED"
    /\ Begins(a, s, "cancel", 0)

writeStatus(a) ==
    LET s == actor[a].svc IN
    /\ \/ actor[a].pc = "activate" /\ SetStatus(s, "ACTIVE")
       \/ actor[a].pc = "suspend" /\ SetStatus(s, "SUSPENDED")
       \/ /\ actor[a].pc = "cancel"
          /\ service' = [service EXCEPT ![s].status = "CANCELLED", ![s].autoRenew = FALSE]
    /\ Ends(a)
    /\ UNCHANGED <<invoice, payment, wallet, worker, today, bill, pauses>>

extendSubscription(a, s, days) ==
    /\ Requests(a, "extend")
    /\ service[s].status # "CANCELLED"
    /\ service[s].nextBillingAt <= LastDay
    /\ Begins(a, s, "extend", days)

\* Every open invoice of the subscription is due later, and PENDING again.
moveDates(a) ==
    LET me == actor[a]
        moved == {i \in UnpaidInvoices : bill[i].svc = me.svc}
    IN  /\ me.pc = "extend" /\ \A i \in moved, w \in Workers : ~Holds(w, i)
        /\ service' = [service EXCEPT ![me.svc].nextBillingAt =
                          Greater(me.row.nextBillingAt, today) + me.days]
        /\ invoice' = [i \in Invoices |-> IF i \in moved THEN [invoice[i] EXCEPT !.status = "PENDING"]
                                          ELSE invoice[i]]
        /\ bill' = [i \in Invoices |-> IF i \in moved
                        THEN [bill[i] EXCEPT !.due = Greater(@, today) + me.days] ELSE bill[i]]
        /\ IF me.row.status = "SUSPENDED" /\ service[me.svc].status = "SUSPENDED"
           THEN Goes(a, "activate") ELSE Ends(a)
        /\ UNCHANGED <<payment, wallet, worker, today, pauses>>

-------------------------------------------------------------------------------

crash(a) ==
    /\ actor[a].pc # "idle"
    /\ Ends(a)
    /\ UNCHANGED <<paymentVars, today, bill, pauses>>

\* Days pass while no sweep, of those that run every minute or hour, is half done.
dayPasses ==
    /\ today < LastDay
    /\ actor[Sweeper].pc = "idle"
    /\ today' = today + 1
    /\ UNCHANGED <<paymentVars, bill, pauses, actor>>

\* subscribeCustomerToPackage has made each subscription and its first invoice.
FirstInvoice == CHOOSE f \in [Services -> Invoices] :
                    \A r, s \in Services : f[r] = f[s] => r = s

Init ==
    /\ payment = [k \in Keys |-> NotPaid]
    /\ wallet = 0
    /\ worker = [w \in Workers |-> Resting]
    /\ service = [s \in Services |-> [NewService EXCEPT !.nextBillingAt = Cycle]]
    /\ \E total \in Totals : invoice = [i \in Invoices |->
            IF \E s \in Services : FirstInvoice[s] = i
            THEN [status |-> "PENDING", total |-> total, paid |-> 0] ELSE NotIssued]
    /\ bill = [i \in Invoices |->
            [svc |-> IF \E s \in Services : FirstInvoice[s] = i
                     THEN CHOOSE s \in Services : FirstInvoice[s] = i ELSE NoService,
             due |-> Cycle]]
    /\ today = 0
    /\ pauses = [s \in Services |-> <<>>]
    /\ actor = [a \in Actors |-> Free]

Sweeping(s) ==
    \/ generateDueRenewalInvoices(s)
    \/ suspendOverdueSubscriptions(s)
    \/ reactivateClearedSubscriptions(s)
    \/ resumeSubscription(Sweeper, s)

Asking(a, s) ==
    \/ \E days \in PauseDays, byCustomer \in BOOLEAN : pauseSubscription(a, s, days, byCustomer)
    \/ \E days \in PauseDays : extendSubscription(a, s, days)
    \/ resumeSubscription(a, s)
    \/ reactivateSubscription(a, s)
    \/ suspendSubscription(a, s)
    \/ cancelSubscription(a, s)

Continuing(a) ==
    \/ switchOff(a) \/ undoSwitchOff(a) \/ stampPause(a) \/ radiusFails(a)
    \/ endPause(a) \/ writeStatus(a) \/ moveDates(a)
    \/ a = Sweeper /\ (createRenewalInvoice \/ cutOff \/ reconnect)

Paying == \E w \in Workers : Request(w) \/ Commit(w)

Next ==
    \/ dayPasses
    \/ \E i \in Invoices : markOverdue(i)
    \/ \E s \in Services : Sweeping(s) \/ \E a \in Staff : Asking(a, s)
    \/ \E a \in Actors : Continuing(a) \/ crash(a)
    \/ Paying /\ UNCHANGED planVars

Spec == Init /\ [][Next]_vars

\* Each sweep comes round again and again (a job repeated every minute or hour, taken in
\* turn from one queue) and does not die every time; what was begun is finished or dies.
\* Nobody has to pay or ask.
Fairness ==
    /\ \A a \in Actors : WF_vars(Continuing(a))
    /\ SF_vars(reconnect) /\ SF_vars(cutOff)
    /\ \A s \in Services :
         /\ SF_vars(reactivateClearedSubscriptions(s))
         /\ SF_vars(suspendOverdueSubscriptions(s))
         /\ SF_vars(resumeSubscription(Sweeper, s))

FairSpec == Spec /\ Fairness

-------------------------------------------------------------------------------
(* Properties. *)

\* The values of the subscription's tables and of the requests in progress.
TypeOK ==
    /\ AccountTypeOK
    /\ today \in 0..LastDay
    /\ bill \in [Invoices -> [svc : Services, due : Nat]]
    /\ pauses \in [Services -> Seq([days : Nat, startsAt : Nat, resumed : BOOLEAN])]
    /\ actor \in [Actors -> [pc : {"idle", "renew", "cutOff", "reconnect", "switchOff", "undo",
                                   "stamp", "resume", "activate", "suspend", "cancel", "extend"},
                             svc : Services, row : ServiceRecords, days : Nat]]

BillsOf(s) == {i \in Invoices : invoice[i].status # "NONE" /\ bill[i].svc = s}

\* No period is billed twice and no paused day is billed: while requests do not overlap,
\* the billing date is a cycle after the subscription began for each invoice, plus the
\* days it was paused, whatever was renewed, resumed early or crashed in between.
BillingDateAgrees ==
    \A s \in Services : service[s].nextBillingAt = Cycle * Cardinality(BillsOf(s)) + usedDays(s)

\* A cancelled plan does not come back by itself, whatever is paid, swept or resumed after
\* it ("Only a SUSPENDED subscription can be reactivated"): what brings it back is a payment
\* that had listed it before it was cancelled, and no other payment lists it.
OnlyListedPlansRevive ==
    [][\A s \in Services : service[s].status = "CANCELLED" =>
        /\ \A w \in Workers : s \in worker'[w].plans => s \in worker[w].plans
        /\ \/ service'[s].status = "CANCELLED"
           \/ \E w \in Workers : worker[w].pc = "restore" /\ s \in worker[w].plans]_vars

\* A service that is off for no reason comes back: nothing owed and no pause left.
Cleared(s) ==
    /\ service[s].status = "SUSPENDED" /\ MayReconnect(service[s])
    /\ UnpaidInvoices = {}

PaidUpReconnects == \A s \in Services : Cleared(s) ~> ~Cleared(s)

\* A service whose invoice is overdue beyond the grace period is cut off, unless it is
\* paid or moved first.
CutOffDue(s) ==
    /\ service[s].status = "ACTIVE"
    /\ \E i \in Invoices : OverdueBeyondGrace(i) /\ bill[i].svc = s

OverdueIsCutOff == \A s \in Services : CutOffDue(s) ~> ~CutOffDue(s)

\* The property below is what the code says of itself and does not keep.

\* reactivateClearedSubscriptions: "A plan the customer paused stays off until its pause
\* ends, even with nothing owing."  (Where nobody asks for it to be switched on.)
PauseHolds ==
    [][\A s \in Services :
        service[s].status = "SUSPENDED" /\ service[s].pausedUntil > today
        => service'[s].status # "ACTIVE"]_vars

===============================================================================
