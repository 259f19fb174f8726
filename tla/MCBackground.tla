----------------------------- MODULE MCBackground -----------------------------
(* The jobs a worker repeats, checked side by side: a behaviour chooses one of  *)
(* them at the start, the focus, and the others stand still, with nothing to    *)
(* do.  They share no state, so this is what a run for each would check.        *)
EXTENDS SettlementSchedule, ProvisioningJobs, RouterRollouts, AddOns, Campaigns

VARIABLE focus

BackgroundInit ==
    /\ focus \in {"schedule", "jobs", "rollout", "addOns", "campaign"}
    /\ Init /\ JobInit /\ RolloutInit /\ AddOnInit /\ CampaignInit
    /\ focus # "schedule" => settings = [frequency |-> "MANUAL", hour |-> 9, weekday |-> 1]
    /\ focus # "jobs" => \A s \in Services : configured[s] = Unconfigured

ScheduleTurn == focus = "schedule" /\ Next /\ UNCHANGED <<jobVars, rolloutVars, addOnVars, campaignVars>>

JobTurn == focus = "jobs" /\ JobNext /\ UNCHANGED <<vars, rolloutVars, addOnVars, campaignVars>>

RolloutTurn == focus = "rollout" /\ RolloutNext /\ UNCHANGED <<vars, jobVars, addOnVars, campaignVars>>

AddOnTurn == focus = "addOns" /\ AddOnNext /\ UNCHANGED <<vars, jobVars, rolloutVars, campaignVars>>

CampaignTurn == focus = "campaign" /\ CampaignNext /\ UNCHANGED <<vars, jobVars, rolloutVars, addOnVars>>

BackgroundNext ==
    (ScheduleTurn \/ JobTurn \/ RolloutTurn \/ AddOnTurn \/ CampaignTurn) /\ UNCHANGED focus

BackgroundSpec ==
    /\ BackgroundInit
    /\ [][BackgroundNext]_<<focus, vars, jobVars, rolloutVars, addOnVars, campaignVars>>
    /\ ScheduleFairness /\ RolloutFairness

\* The tables of all five hold what their columns may.  (The schedule's are in ScheduleInv.)
BackgroundTypeOK == JobTypeOK /\ RolloutTypeOK /\ AddOnTypeOK /\ CampaignTypeOK
===============================================================================
