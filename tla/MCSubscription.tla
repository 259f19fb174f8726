---------------------------- MODULE MCSubscription ----------------------------
(* The two kinds of plan, a customer's with the ISP and the ISP's with the     *)
(* platform: a behaviour chooses one at the start, the focus, and the other    *)
(* stands still.  They share no state.                                         *)
EXTENDS Subscription, TenantPlan, TLC

VARIABLE focus

KeySymmetry == Permutations(Keys)

PlansInit ==
    /\ focus \in {"customer", "isp"}
    /\ Init /\ PlanInit
    /\ focus = "customer" => plan = NoPlan

CustomerTurn == focus = "customer" /\ Next /\ UNCHANGED tenantPlanVars

IspTurn == focus = "isp" /\ PlanNext /\ UNCHANGED vars

PlansNext == (CustomerTurn \/ IspTurn) /\ UNCHANGED focus

PlansSpec == PlansInit /\ [][PlansNext]_<<focus, vars, tenantPlanVars>>

\* Fairness and PlanFairness, the latter only where the sweep may take a step at all: the
\* first asks nothing of a customer's account that stays as it began.
PlansFairSpec ==
    /\ PlansSpec /\ Fairness
    /\ WF_tenantPlanVars(focus = "isp" /\ planSweepStep) /\ SF_tenantPlanVars(writeStage)

\* The values of both kinds of plan, of their payments and of the requests in progress.
PlansTypeOK == TypeOK /\ PlanTypeOK
===============================================================================
