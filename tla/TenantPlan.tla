------------------------------- MODULE TenantPlan -------------------------------
(***************************************************************************)
(* What one ISP owes the platform: its trial, its plan and its renewals    *)
(*   packages/payments/src/mpesa/subscription-billing.service.ts renewals  *)
(*   apps/api/src/routes/tenant-billing.ts           the ISP chooses, pays *)
(*   apps/api/src/routes/tenants.ts                  the platform's staff  *)
(*   apps/worker/src/jobs/expire-trials.ts           the hourly sweep      *)
(*                                                                         *)
(* No handler locks the plan: each reads it and writes it later.  The      *)
(* tenant's own trial date, which a form edits at will, is any date.       *)
(***************************************************************************)
EXTENDS Integers

CONSTANTS
    Renewals,       \* rows of tenant_subscription_payments, each with its prompt
    PlanDesks,      \* requests and callbacks handled at one time
    NoRenewal,      \* no row
    PlanPeriod,     \* days that a renewal buys (30 or 365 in the code)
    PlanGrace,      \* GRACE_PERIOD_DAYS, 3 in the code
    LastPlanDay     \* bound: the clock stops here

ASSUME TenantPlanAssumption ==
    NoRenewal \notin Renewals /\ PlanPeriod \in Nat \ {0} /\ PlanGrace \in Nat /\ LastPlanDay \in Nat \ {0}

VARIABLES
    planDay,    \* the clock, in days from 1; 0 is a date that is not set
    plan,       \* tenant_subscriptions: status, currentPeriodEnd, gracePeriodEndsAt
    renewal,    \* tenant_subscription_payments
    ownerPrompt, \* what the owner's phone answered
    givenUntil,  \* end of the last period that the platform's staff gave or sold
    planDesk,   \* what a request has read and still has to write
    planSweep   \* the hourly sweep: its stage, and whether it listed this ISP

tenantPlanVars == <<planDay, plan, renewal, ownerPrompt, givenUntil, planDesk, planSweep>>

NoDate == 0

NoPlan == [status |-> "NONE", ends |-> NoDate, graceEnds |-> NoDate]

Glance == [status |-> plan.status, ends |-> plan.ends]

DeskFree == [pc |-> "idle", row |-> NoRenewal, seen |-> [status |-> "NONE", ends |-> NoDate]]

TrialUntil(day) == [status |-> "TRIALING", ends |-> day, graceEnds |-> NoDate]

\* A renewal and what staff record leave the same.
ActiveUntil(day) == [status |-> "ACTIVE", ends |-> day, graceEnds |-> NoDate]

\* A request takes milliseconds: no day passes meanwhile.
AllFree == planSweep.stage = 0 /\ \A d \in PlanDesks : planDesk[d] = DeskFree

planDayPasses ==
    /\ planDay < LastPlanDay /\ AllFree
    /\ planDay' = planDay + 1
    /\ UNCHANGED <<plan, renewal, ownerPrompt, givenUntil, planDesk, planSweep>>

Turns(d, pc, r) == planDesk' = [planDesk EXCEPT ![d].pc = pc, ![d].row = r]

Frees(d) == planDesk' = [planDesk EXCEPT ![d] = DeskFree]

-------------------------------------------------------------------------------
(* Renewing by M-Pesa. *)

assertNoUnpaidSubscriptionCharge == \A r \in Renewals : renewal[r].status # "PENDING"

\* The prompt is sent before there is a row for it.
initiateSubscriptionCharge(d, r) ==
    /\ planDesk[d] = DeskFree /\ plan.status # "NONE"
    /\ assertNoUnpaidSubscriptionCharge
    /\ ownerPrompt[r] = "none"
    /\ ownerPrompt' = [ownerPrompt EXCEPT ![r] = "asked"]
    /\ Turns(d, "insert", r)
    /\ UNCHANGED <<planDay, plan, renewal, givenUntil, planSweep>>

createSubscriptionPayment(d) ==
    /\ planDesk[d].pc = "insert"
    /\ renewal' = [renewal EXCEPT ![planDesk[d].row] = [status |-> "PENDING", ends |-> planDay + PlanPeriod]]
    /\ Frees(d)
    /\ UNCHANGED <<planDay, plan, ownerPrompt, givenUntil, planSweep>>

ownerAnswers(r) ==
    /\ ownerPrompt[r] = "asked"
    /\ \E answer \in {"paid", "refused"} : ownerPrompt' = [ownerPrompt EXCEPT ![r] = answer]
    /\ UNCHANGED <<planDay, plan, renewal, givenUntil, planDesk, planSweep>>

\* Safaricom's callback, once or more often; without a PENDING row it is dropped.
tryCompleteSubscriptionPaymentCallback(d, r) ==
    /\ planDesk[d] = DeskFree
    /\ ownerPrompt[r] \in {"paid", "refused"} /\ renewal[r].status = "PENDING"
    /\ Turns(d, "complete", r)
    /\ UNCHANGED <<planDay, plan, renewal, ownerPrompt, givenUntil, planSweep>>

\* Mutant of Succeeded: the result code is not looked at.
AnyAnswer(r) == ownerPrompt[r] # "none"

Succeeded(r) == ownerPrompt[r] = "paid"

\* The transaction, which does not look at the row again.
completeSubscriptionPayment(d) ==
    LET r == planDesk[d].row IN
    /\ planDesk[d].pc = "complete"
    /\ renewal' = [renewal EXCEPT ![r].status = IF Succeeded(r) THEN "COMPLETED" ELSE "FAILED"]
    /\ plan' = IF Succeeded(r) THEN ActiveUntil(renewal[r].ends) ELSE plan
    /\ Frees(d)
    /\ UNCHANGED <<planDay, ownerPrompt, givenUntil, planSweep>>

-------------------------------------------------------------------------------
(* Choosing a plan, and what the platform's staff may do. *)

Reads(d, pc) ==
    /\ planDesk[d] = DeskFree
    /\ planDesk' = [planDesk EXCEPT ![d].pc = pc, ![d].seen = Glance]
    /\ UNCHANGED <<planDay, plan, renewal, ownerPrompt, givenUntil, planSweep>>

\* Mutant of MayChoose: a plan that is paid up is swapped too.
ChooseAnytime == TRUE

MayChoose == plan.status # "ACTIVE"

choosePlan(d) ==
    /\ MayChoose /\ assertNoUnpaidSubscriptionCharge
    /\ Reads(d, "choose")

\* "A running trial keeps its status and end date".  An ISP has one plan: a second is
\* refused by the unique index.
writeChosenPlan(d) ==
    LET seen == planDesk[d].seen
        trialRuns == seen.status = "TRIALING" /\ seen.ends > planDay
    IN
    /\ planDesk[d].pc = "choose"
    /\ plan' = CASE seen.status = "NONE" /\ plan.status = "NONE" ->
                        [status |-> "EXPIRED", ends |-> planDay, graceEnds |-> NoDate]
                 [] seen.status # "NONE" /\ ~trialRuns -> [plan EXCEPT !.status = "EXPIRED", !.ends = planDay]
                 [] OTHER -> plan
    /\ Frees(d)
    /\ UNCHANGED <<planDay, renewal, ownerPrompt, givenUntil, planSweep>>

\* The ISP paid outside M-Pesa.  The row of that payment is written after, and read by none.
activateSubscription(d) == Reads(d, "activate")

writeActivation(d) ==
    LET seen == planDesk[d].seen
        from == IF seen.status = "ACTIVE" /\ seen.ends > planDay THEN seen.ends ELSE planDay
    IN
    /\ planDesk[d].pc = "activate"
    /\ from <= LastPlanDay     \* bound
    /\ IF seen.status = "NONE" /\ plan.status # "NONE"
       THEN UNCHANGED <<plan, givenUntil>>
       ELSE plan' = ActiveUntil(from + PlanPeriod) /\ givenUntil' = from + PlanPeriod
    /\ Frees(d)
    /\ UNCHANGED <<planDay, renewal, ownerPrompt, planSweep>>

changeTrial(d) == Reads(d, "trial")

\* Extended to a later date, or ended today.
writeTrial(d) ==
    /\ planDesk[d].pc = "trial"
    /\ \E until \in planDay .. LastPlanDay :
         plan' = IF planDesk[d].seen.status \in {"TRIALING", "EXPIRED"}
                 THEN [plan EXCEPT !.status = IF until = planDay THEN "EXPIRED" ELSE "TRIALING",
                                   !.ends = until]
                 ELSE plan
    /\ Frees(d)
    /\ UNCHANGED <<planDay, renewal, ownerPrompt, givenUntil, planSweep>>

\* Staff give a plan to an ISP without one; for another they change only its price.
assignPlan ==
    /\ plan.status = "NONE"
    /\ \/ /\ \E until \in planDay + 1 .. LastPlanDay : plan' = TrialUntil(until)
          /\ UNCHANGED givenUntil
       \/ plan' = ActiveUntil(planDay + PlanPeriod) /\ givenUntil' = planDay + PlanPeriod
    /\ UNCHANGED <<planDay, renewal, ownerPrompt, planDesk, planSweep>>

\* Elsewhere it is as if the request had not come.
renewalDies(d) ==
    /\ planDesk[d].pc = "insert"
    /\ Frees(d)
    /\ UNCHANGED <<planDay, plan, renewal, ownerPrompt, givenUntil, planSweep>>

-------------------------------------------------------------------------------
(* The hourly sweep: trials, then periods, then grace periods that are over. *)

\* Mutant of TrialOver: only trials that ended the day before.
TrialJustOver == plan.status = "TRIALING" /\ plan.ends = planDay - 1

TrialOver == plan.status = "TRIALING" /\ plan.ends < planDay

PeriodOver == plan.status = "ACTIVE" /\ plan.ends < planDay
GraceOver == plan.status = "PAST_DUE" /\ plan.graceEnds # NoDate /\ plan.graceEnds < planDay

Listed(stage) == CASE stage = 1 -> TrialOver [] stage = 2 -> PeriodOver [] OTHER -> GraceOver

listStage(stage) ==
    /\ planSweep = [stage |-> stage - 1, found |-> FALSE]
    /\ planSweep' = [stage |-> stage, found |-> Listed(stage)]
    /\ UNCHANGED <<planDay, plan, renewal, ownerPrompt, givenUntil, planDesk>>

\* What was listed is written without another look at it.
writeStage ==
    /\ planSweep.found
    /\ plan' = IF planSweep.stage = 2
               THEN [plan EXCEPT !.status = "PAST_DUE", !.graceEnds = planDay + PlanGrace]
               ELSE [plan EXCEPT !.status = "EXPIRED"]
    /\ planSweep' = [planSweep EXCEPT !.found = FALSE]
    /\ UNCHANGED <<planDay, renewal, ownerPrompt, givenUntil, planDesk>>

\* The worker dies, and the sweep comes again the next hour.  Between two stages, dying
\* leaves what finding nothing in the later ones does.
planSweepDies ==
    /\ planSweep.found
    /\ planSweep' = [stage |-> 0, found |-> FALSE]
    /\ UNCHANGED <<planDay, plan, renewal, ownerPrompt, givenUntil, planDesk>>

planSweepEnds ==
    /\ planSweep = [stage |-> 3, found |-> FALSE]
    /\ planSweep' = [stage |-> 0, found |-> FALSE]
    /\ UNCHANGED <<planDay, plan, renewal, ownerPrompt, givenUntil, planDesk>>

\* A new ISP is on a trial; where no plan was the default one it has none.
PlanInit ==
    /\ planDay = 1
    /\ plan \in {NoPlan} \cup {TrialUntil(day) : day \in 2..LastPlanDay}
    /\ renewal = [r \in Renewals |-> [status |-> "NONE", ends |-> NoDate]]
    /\ ownerPrompt = [r \in Renewals |-> "none"]
    /\ givenUntil = NoDate
    /\ planDesk = [d \in PlanDesks |-> DeskFree]
    /\ planSweep = [stage |-> 0, found |-> FALSE]

DeskStep(d) ==
    \/ \E r \in Renewals : initiateSubscriptionCharge(d, r) \/ tryCompleteSubscriptionPaymentCallback(d, r)
    \/ createSubscriptionPayment(d) \/ completeSubscriptionPayment(d)
    \/ choosePlan(d) \/ writeChosenPlan(d)
    \/ activateSubscription(d) \/ writeActivation(d)
    \/ changeTrial(d) \/ writeTrial(d)
    \/ renewalDies(d)

planSweepStep == (\E stage \in 1..3 : listStage(stage)) \/ writeStage \/ planSweepEnds

PlanNext ==
    \/ planDayPasses \/ assignPlan
    \/ \E r \in Renewals : ownerAnswers(r)
    \/ \E d \in PlanDesks : DeskStep(d)
    \/ planSweepStep \/ planSweepDies

\* The sweep comes every hour, does its three stages, and does not always die before it writes.
PlanFairness == WF_tenantPlanVars(planSweepStep) /\ SF_tenantPlanVars(writeStage)

PlanSpec == PlanInit /\ [][PlanNext]_tenantPlanVars /\ PlanFairness

-------------------------------------------------------------------------------
(* Properties. *)

\* The values of the tables and of the requests.
PlanTypeOK ==
    LET Dates == 0 .. LastPlanDay + PlanPeriod + PlanGrace
        Statuses == {"NONE", "TRIALING", "ACTIVE", "PAST_DUE", "EXPIRED"}
    IN
    /\ planDay \in 1..LastPlanDay
    /\ plan \in [status : Statuses, ends : Dates, graceEnds : Dates] /\ givenUntil \in Dates
    /\ renewal \in [Renewals -> [status : {"NONE", "PENDING", "COMPLETED", "FAILED"}, ends : Dates]]
    /\ ownerPrompt \in [Renewals -> {"none", "asked", "paid", "refused"}]
    /\ planDesk \in [PlanDesks -> [pc : {"idle", "insert", "complete", "choose", "activate", "trial"},
                                   row : Renewals \cup {NoRenewal}, seen : [status : Statuses, ends : Dates]]]
    /\ planSweep \in [stage : 0..3, found : BOOLEAN]

\* "only ever moved to COMPLETED/FAILED by the verified callback": a plan is ACTIVE only for
\* a period that the owner's phone paid for or that staff gave last, whichever requests,
\* repeated callbacks and sweeps overlap or die.
ActiveWasPaid ==
    plan.status = "ACTIVE" =>
        \/ plan.ends = givenUntil
        \/ \E r \in Renewals : renewal[r].status = "COMPLETED" /\ renewal[r].ends = plan.ends /\ ownerPrompt[r] = "paid"

\* "so a paid period is never silently swapped": only a request or a sweep that read the
\* plan before it was paid for takes a running period away.
PaidPeriodStands ==
    [][plan.status = "ACTIVE" /\ planDay <= plan.ends /\ plan'.status # "ACTIVE" =>
            \/ planSweep.found
            \/ \E d \in PlanDesks : planDesk[d].pc \in {"choose", "trial"} /\ planDesk[d].seen.status # "ACTIVE"
      ]_tenantPlanVars

\* An ISP whose trial, period or grace period is over does not go on for ever, whatever
\* the sweep overwrote or was overwritten by.
Unpaid ==
    /\ plan.status \in {"TRIALING", "ACTIVE", "PAST_DUE"} /\ plan.ends < planDay
    /\ plan.status = "PAST_DUE" => plan.graceEnds < planDay

UnpaidPlanEnds == Unpaid ~> ~Unpaid

===============================================================================
