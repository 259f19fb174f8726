----------------------------- MODULE RouterRollouts -----------------------------
(***************************************************************************)
(* An update of several routers, one after another                         *)
(*   apps/worker/src/jobs/router-rollouts.ts      the pass of a worker     *)
(*   apps/api/src/routes/router-updates.ts        starting and cancelling  *)
(*   packages/network/src/ota.service.ts          what is done to a router *)
(*                                                                         *)
(* Passes may overlap, die while a router is being updated, or run out of  *)
(* their 40 seconds; a router that has been "running" for 15 minutes is    *)
(* given up by the next pass, even if the first is only slow.              *)
(***************************************************************************)
EXTENDS Integers

CONSTANTS
    Routers,        \* how many routers the rollout has, in position order
    RolloutWorkers,
    MaxDeaths       \* bound: passes that die

ASSUME RolloutAssumption == Routers \in Nat \ {0} /\ MaxDeaths \in Nat

Positions == 1..Routers

VARIABLES
    canaryFirst,    \* the rollout's options
    rollout,        \* its status
    target,         \* status of each target
    changed,        \* how often each router was changed
    overdue,        \* targets that have been RUNNING for 15 minutes
    cancelling,     \* a cancellation that has skipped the targets
    pass,           \* what each worker's pass is doing
    deaths

rolloutVars == <<canaryFirst, rollout, target, changed, overdue, cancelling, pass, deaths>>

NoRollout == [pc |-> "idle", at |-> 0, result |-> "SKIPPED"]

-------------------------------------------------------------------------------
(* Staff, and the clock. *)

createRollout ==
    /\ rollout = "NONE"
    /\ rollout' \in {"SCHEDULED", "RUNNING"}
    /\ canaryFirst' \in {first \in BOOLEAN : first => Routers > 1}
    /\ UNCHANGED <<target, changed, overdue, cancelling, pass, deaths>>

\* "Stops a rollout: routers not yet updated are left alone."
cancelRollout ==
    /\ rollout \in {"SCHEDULED", "RUNNING"} /\ ~cancelling
    /\ target' = [i \in Positions |-> IF target[i] = "PENDING" THEN "SKIPPED" ELSE target[i]]
    /\ cancelling' = TRUE
    /\ UNCHANGED <<canaryFirst, rollout, changed, overdue, pass, deaths>>

writeCancelled ==
    /\ cancelling /\ rollout' = "CANCELLED" /\ cancelling' = FALSE
    /\ UNCHANGED <<canaryFirst, target, changed, overdue, pass, deaths>>

quarterHourPasses(i) ==
    /\ target[i] = "RUNNING" /\ i \notin overdue
    /\ overdue' = overdue \cup {i}
    /\ UNCHANGED <<canaryFirst, rollout, target, changed, cancelling, pass, deaths>>

-------------------------------------------------------------------------------
(* A pass: handleRouterRollouts. *)

\* Mutant of GivenUp: an update that was interrupted is waited for.
NeverGivenUp == {}

GivenUp == overdue

\* Updates interrupted by a restart are given up.
closeInterrupted(w) ==
    /\ pass[w].pc = "idle" /\ rollout \in {"SCHEDULED", "RUNNING"}
    /\ target' = [i \in Positions |-> IF i \in GivenUp THEN "FAILED" ELSE target[i]]
    /\ overdue' = {}
    /\ pass' = [pass EXCEPT ![w].pc = "start"]
    /\ UNCHANGED <<canaryFirst, rollout, changed, cancelling, deaths>>

\* A scheduled rollout starts when its time has come.
takeRollout(w) ==
    /\ pass[w].pc = "start"
    /\ rollout' \in IF rollout = "SCHEDULED" THEN {"SCHEDULED", "RUNNING"} ELSE {rollout}
    /\ pass' = [pass EXCEPT ![w].pc = IF rollout' = "RUNNING" THEN "look" ELSE "idle"]
    /\ UNCHANGED <<canaryFirst, target, changed, overdue, cancelling, deaths>>

\* Mutant of MustWait: a pass does not wait for the first router.
NeverWait(first) == FALSE

MustWait(first) == canaryFirst /\ first = "RUNNING"

\* The targets are read; a first router that failed stops the rest.  The next router is
\* chosen among those that were PENDING when read.
lookForNext(w) ==
    LET pending == {i \in Positions : target[i] = "PENDING"} IN
    /\ pass[w].pc = "look"
    /\ IF ~MustWait(target[1]) /\ pending # {}
       THEN \E i \in pending :
              /\ \A j \in pending : i <= j
              /\ pass' = [pass EXCEPT ![w].pc = "claim", ![w].at = i]
       ELSE pass' = [pass EXCEPT ![w].pc = "count"]
    /\ target' = IF canaryFirst /\ target[1] = "FAILED"
                 THEN [i \in Positions |-> IF i \in pending THEN "SKIPPED" ELSE target[i]]
                 ELSE target
    /\ UNCHANGED <<canaryFirst, rollout, changed, overdue, cancelling, deaths>>

\* Mutant of Claimable: the claim has no condition.
AnyClaim(i) == TRUE

Claimable(i) == target[i] = "PENDING"

claimTarget(w) ==
    LET i == pass[w].at IN
    /\ pass[w].pc = "claim"
    /\ IF Claimable(i)
       THEN /\ target' = [target EXCEPT ![i] = "RUNNING"]
            /\ pass' = [pass EXCEPT ![w].pc = "work"]
       ELSE /\ UNCHANGED target
            /\ \E pc \in {"look", "count"} : pass' = [pass EXCEPT ![w].pc = pc]
    /\ UNCHANGED <<canaryFirst, rollout, changed, overdue, cancelling, deaths>>

\* A backup ("No backup, no change") and the update: the router is left alone, or
\* changed, whole or in part.
updateRouter(w) ==
    /\ pass[w].pc = "work"
    /\ \/ /\ UNCHANGED changed
          /\ \E result \in {"SKIPPED", "FAILED"} : pass' = [pass EXCEPT ![w].pc = "record", ![w].result = result]
       \/ /\ changed' = [changed EXCEPT ![pass[w].at] = @ + 1]
          /\ \E result \in {"SUCCEEDED", "FAILED"} : pass' = [pass EXCEPT ![w].pc = "record", ![w].result = result]
    /\ UNCHANGED <<canaryFirst, rollout, target, overdue, cancelling, deaths>>

\* The result, written whatever has become of the target; then the next router, unless
\* the pass has used its time.
recordResult(w) ==
    /\ pass[w].pc = "record"
    /\ target' = [target EXCEPT ![pass[w].at] = pass[w].result]
    /\ overdue' = overdue \ {pass[w].at}
    /\ \E pc \in {"look", "count"} : pass' = [pass EXCEPT ![w].pc = pc]
    /\ UNCHANGED <<canaryFirst, rollout, changed, cancelling, deaths>>

NoneLeft == \A i \in Positions : target[i] \notin {"PENDING", "RUNNING"}

completeRollout(w) ==
    /\ pass[w].pc = "count"
    /\ rollout' = IF NoneLeft /\ rollout = "RUNNING" THEN "COMPLETED" ELSE rollout
    /\ pass' = [pass EXCEPT ![w] = NoRollout]
    /\ UNCHANGED <<canaryFirst, target, changed, overdue, cancelling, deaths>>

passDies(w) ==
    /\ pass[w].pc # "idle" /\ deaths < MaxDeaths
    /\ pass' = [pass EXCEPT ![w] = NoRollout]
    /\ deaths' = deaths + 1
    /\ UNCHANGED <<canaryFirst, rollout, target, changed, overdue, cancelling>>

RolloutInit ==
    /\ canaryFirst = FALSE /\ rollout = "NONE"
    /\ target = [i \in Positions |-> "PENDING"]
    /\ changed = [i \in Positions |-> 0]
    /\ overdue = {} /\ cancelling = FALSE
    /\ pass = [w \in RolloutWorkers |-> NoRollout]
    /\ deaths = 0

PassStep(w) ==
    \/ closeInterrupted(w) \/ takeRollout(w) \/ lookForNext(w) \/ claimTarget(w)
    \/ updateRouter(w) \/ recordResult(w) \/ completeRollout(w)

RolloutNext ==
    \/ createRollout \/ cancelRollout \/ writeCancelled
    \/ \E i \in Positions : quarterHourPasses(i)
    \/ \E w \in RolloutWorkers : PassStep(w) \/ passDies(w)

RolloutSpec == RolloutInit /\ [][RolloutNext]_rolloutVars

\* The job comes round every minute while the worker runs, and time passes.
RolloutFairness ==
    /\ \A w \in RolloutWorkers : WF_rolloutVars(PassStep(w))
    /\ \A i \in Positions : WF_rolloutVars(quarterHourPasses(i))

RolloutFairSpec == RolloutSpec /\ RolloutFairness

-------------------------------------------------------------------------------
(* Properties. *)

\* The values of the tables and of the passes.
RolloutTypeOK ==
    /\ canaryFirst \in BOOLEAN /\ cancelling \in BOOLEAN /\ deaths \in 0..MaxDeaths
    /\ rollout \in {"NONE", "SCHEDULED", "RUNNING", "COMPLETED", "CANCELLED"}
    /\ target \in [Positions -> {"PENDING", "RUNNING", "SUCCEEDED", "FAILED", "SKIPPED"}]
    /\ changed \in [Positions -> Nat] /\ overdue \subseteq Positions
    /\ pass \in [RolloutWorkers -> [pc : {"idle", "start", "look", "claim", "work", "record", "count"},
                                    at : 0..Routers, result : {"SUCCEEDED", "FAILED", "SKIPPED"}]]

\* "an overlapping run never updates a router twice", "updates its first router alone; the
\* rest follow only if that one did not fail", and a router that was skipped, by a
\* cancellation or a failed canary, was left alone.
CanaryGoesFirst ==
    \A i \in Positions :
        /\ changed[i] <= 1
        /\ canaryFirst /\ i > 1 /\ changed[i] > 0 => target[1] \in {"SUCCEEDED", "SKIPPED"}
        /\ target[i] = "SKIPPED" => changed[i] = 0

\* A rollout that has started ends, though passes die and the canary may never answer:
\* "A worker restart mid-router leaves a target RUNNING forever; close those off."
RolloutEnds == (rollout = "RUNNING") ~> (rollout \in {"COMPLETED", "CANCELLED"})

===============================================================================
