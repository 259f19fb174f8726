------------------------------- MODULE Campaigns -------------------------------
(***************************************************************************)
(* One message campaign: apps/worker/src/jobs/campaigns.ts, with           *)
(* snapshotRecipients of packages/billing/src/campaign.service.ts and the  *)
(* cancellation of apps/api/src/routes/campaigns.ts.                       *)
(*                                                                         *)
(* A pass holds a Redis lock for 55 seconds and may run for longer.  It    *)
(* deletes the lock when it ends, whoever holds it by then.                *)
(***************************************************************************)
EXTENDS Integers, FiniteSetsExt

CONSTANTS
    Recipients,
    CampaignWorkers,
    Batch,       \* messages in one pass; 150 in the code
    MaxFaults    \* bound: deaths, and locks that expire under a pass

\* The customers are rows of a table, the workers processes that run.
ASSUME CampaignAssumption ==
    /\ Batch \in Nat \ {0} /\ MaxFaults \in Nat
    /\ IsFiniteSet(Recipients) /\ IsFiniteSet(CampaignWorkers)

VARIABLES
    campaign,   \* its status
    campaignLock,
    message,    \* campaign_recipients
    texted,     \* messages that left for each
    mailing,    \* what each worker is doing
    mailerDeaths,
    overruns    \* locks that expired under a pass

campaignVars == <<campaign, campaignLock, message, texted, mailing, mailerDeaths, overruns>>

NotMailing == [pc |-> "idle", batch |-> {}, to |-> {}, delivered |-> FALSE]

At(w, step) == mailing[w].pc = step

GoesTo(w, step) == mailing' = [mailing EXCEPT ![w].pc = step]

\* Mutant of LockIsFree: a pass does not look whether another one runs.
LockIsIgnored == TRUE

LockIsFree == ~campaignLock

\* Until the lock is gone no other pass starts; afterwards it starts the campaign if it is due.
takeCampaignLock(w) ==
    /\ At(w, "idle") /\ LockIsFree
    /\ campaignLock' = TRUE
    /\ GoesTo(w, "claim")
    /\ UNCHANGED <<campaign, message, texted, mailerDeaths, overruns>>

claimCampaign(w) ==
    /\ At(w, "claim")
    /\ IF campaign = "SCHEDULED"
       THEN campaign' = "SENDING" /\ GoesTo(w, "snapshot")
       ELSE UNCHANGED campaign /\ GoesTo(w, "list")
    /\ UNCHANGED <<campaignLock, message, texted, mailerDeaths, overruns>>

snapshotRecipients(w) ==
    /\ At(w, "snapshot")
    /\ message' = [r \in Recipients |-> IF message[r] = "NONE" THEN "PENDING" ELSE message[r]]
    /\ GoesTo(w, "list")
    /\ UNCHANGED <<campaign, campaignLock, texted, mailerDeaths, overruns>>

Waiting == {r \in Recipients : message[r] = "PENDING"}

listSending(w) ==
    /\ At(w, "list")
    /\ GoesTo(w, IF campaign = "SENDING" THEN "batch" ELSE "unlock")
    /\ UNCHANGED <<campaign, campaignLock, message, texted, mailerDeaths, overruns>>

readBatch(w) ==
    /\ At(w, "batch")
    /\ \E batch \in SUBSET Waiting :
         /\ Cardinality(batch) = IF Cardinality(Waiting) < Batch THEN Cardinality(Waiting) ELSE Batch
         /\ mailing' = [mailing EXCEPT ![w].pc = "send", ![w].batch = batch]
    /\ UNCHANGED <<campaign, campaignLock, message, texted, mailerDeaths, overruns>>

\* sendTenantSms or sendWhatsAppMessage; the campaign's status is not read again.
sendOne(w, r) ==
    /\ At(w, "send") /\ r \in mailing[w].batch
    /\ \E delivered \in BOOLEAN :
         /\ texted' = [texted EXCEPT ![r] = IF delivered THEN @ + 1 ELSE @]
         /\ mailing' = [mailing EXCEPT ![w].pc = "record", ![w].to = {r}, ![w].delivered = delivered]
    /\ UNCHANGED <<campaign, campaignLock, message, mailerDeaths, overruns>>

recordOne(w) ==
    LET me == mailing[w] IN
    /\ At(w, "record")
    /\ message' = [r \in Recipients |-> IF r \notin me.to THEN message[r]
                                        ELSE IF me.delivered THEN "SENT" ELSE "FAILED"]
    /\ mailing' = [mailing EXCEPT ![w] = [NotMailing EXCEPT !.pc = "send", !.batch = me.batch \ me.to]]
    /\ UNCHANGED <<campaign, campaignLock, texted, mailerDeaths, overruns>>

\* Done once nothing is left waiting.
countWaiting(w) ==
    /\ At(w, "send") /\ mailing[w].batch = {}
    /\ GoesTo(w, IF Waiting = {} THEN "finish" ELSE "unlock")
    /\ UNCHANGED <<campaign, campaignLock, message, texted, mailerDeaths, overruns>>

\* Whatever it has become.
finishCampaign(w) ==
    /\ At(w, "finish")
    /\ campaign' = "SENT"
    /\ GoesTo(w, "unlock")
    /\ UNCHANGED <<campaignLock, message, texted, mailerDeaths, overruns>>

unlockCampaigns(w) ==
    /\ At(w, "unlock")
    /\ campaignLock' = FALSE
    /\ mailing' = [mailing EXCEPT ![w] = NotMailing]
    /\ UNCHANGED <<campaign, message, texted, mailerDeaths, overruns>>

-------------------------------------------------------------------------------
(* What happens beside a pass. *)

cancelCampaign ==
    /\ campaign \in {"SCHEDULED", "SENDING"}
    /\ campaign' = "CANCELLED"
    /\ UNCHANGED <<campaignLock, message, texted, mailing, mailerDeaths, overruns>>

campaignLockExpires ==
    /\ campaignLock
    /\ campaignLock' = FALSE
    /\ IF \A w \in CampaignWorkers : At(w, "idle")
       THEN UNCHANGED overruns
       ELSE mailerDeaths + overruns < MaxFaults /\ overruns' = overruns + 1
    /\ UNCHANGED <<campaign, message, texted, mailing, mailerDeaths>>

mailerDies(w) ==
    /\ ~At(w, "idle") /\ mailerDeaths + overruns < MaxFaults
    /\ mailerDeaths' = mailerDeaths + 1
    /\ mailing' = [mailing EXCEPT ![w] = NotMailing]
    /\ UNCHANGED <<campaign, campaignLock, message, texted, overruns>>

CampaignInit ==
    /\ campaign = "SCHEDULED" /\ campaignLock = FALSE
    /\ message = [r \in Recipients |-> "NONE"]
    /\ texted = [r \in Recipients |-> 0]
    /\ mailing = [w \in CampaignWorkers |-> NotMailing]
    /\ mailerDeaths = 0 /\ overruns = 0

CampaignNext ==
    \/ cancelCampaign \/ campaignLockExpires
    \/ \E w \in CampaignWorkers :
         \/ takeCampaignLock(w) \/ claimCampaign(w) \/ snapshotRecipients(w) \/ listSending(w)
         \/ readBatch(w) \/ (\E r \in Recipients : sendOne(w, r)) \/ recordOne(w)
         \/ countWaiting(w) \/ finishCampaign(w) \/ unlockCampaigns(w) \/ mailerDies(w)

CampaignSpec == CampaignInit /\ [][CampaignNext]_campaignVars

-------------------------------------------------------------------------------
(* Properties. *)

\* The values of the tables, the lock and what workers hold.
CampaignTypeOK ==
    /\ campaign \in {"SCHEDULED", "SENDING", "SENT", "CANCELLED"} /\ campaignLock \in BOOLEAN
    /\ message \in [Recipients -> {"NONE", "PENDING", "SENT", "FAILED"}]
    /\ texted \in [Recipients -> Nat]
    /\ mailing \in [CampaignWorkers ->
          [pc : {"idle", "claim", "snapshot", "list", "batch", "send", "record", "finish", "unlock"},
           batch : SUBSET Recipients, to : SUBSET Recipients, delivered : BOOLEAN]]
    /\ mailerDeaths \in Nat /\ overruns \in Nat

\* campaigns.ts:17 "More than one worker process must never send the same batch twice": a
\* process that dies repeats at most one message in all, a lock that expires under a pass at
\* most one to each customer; and while neither has happened, a campaign marked SENT has
\* been tried on every recipient.
MessagesRepeatOnlyByFaults ==
    /\ \A r \in Recipients : texted[r] <= 1 + mailerDeaths + overruns
    /\ overruns = 0 => SumFunctionOnSet(texted, Recipients) <= Cardinality(Recipients) + mailerDeaths
    /\ campaign = "SENT" /\ mailerDeaths + overruns = 0 => \A r \in Recipients : message[r] \in {"SENT", "FAILED"}

===============================================================================
