---------------------------- MODULE ProvisioningJobs ----------------------------
(***************************************************************************)
(* The queue of changes to customers' accounts on the routers              *)
(*   packages/radius/src/provisioning.service.ts   jobs                    *)
(*   apps/worker/src/jobs/run-provisioning-jobs.ts the pass over the queue *)
(*                                                                         *)
(* A payment, an expiry or a member of staff asks for an operation; one    *)
(* worker, one job at a time, carries it out on the router, which may be   *)
(* unreachable or fail half-way, and records what the router confirmed.    *)
(***************************************************************************)
EXTENDS Integers, Sequences, FiniteSets

CONSTANTS
    Services,       \* customer_services
    Operations,     \* those in use, of the four below
    Plans,          \* configurations a package may give a service (the fingerprint)
    Unconfigured,   \* the fingerprint of a package without a usable router
    MaxAttempts,    \* 5 in the code
    BatchSize,      \* 20 in the code
    MaxJobs         \* bound: rows of the queue

ASSUME ProvisioningAssumption ==
    /\ Operations \subseteq {"PROVISION", "SUSPEND", "RESTORE", "DEPROVISION"}
    /\ Unconfigured \notin Plans /\ MaxAttempts \in Nat \ {0} /\ BatchSize \in Nat \ {0} /\ MaxJobs \in Nat

VARIABLES
    configured,     \* buildProvisioningPlan of a service, now
    jobs,           \* provisioning_jobs, by createdAt
    resetting,      \* finished jobs that a request has read and will reset
    netStatus,      \* customer_services.provisioningStatus
    enabled,        \* services whose account the router has enabled
    runner          \* the worker's pass

jobVars == <<configured, jobs, resetting, netStatus, enabled, runner>>

\* batch: the jobs still to be run; at: the one that is.
NoPass == [pc |-> "idle", batch |-> {}, at |-> 0, attempt |-> 0, ok |-> FALSE]

Enables == {"PROVISION", "RESTORE"}

\* Mutant of StatusOnSuccess: the service is given the operation's own name, where that differs.
StatusNamedByOperation(op) == IF op \in Enables THEN op ELSE "SUSPENDED"

StatusOnSuccess(op) ==
    CASE op \in Enables -> "ACTIVE" [] op = "SUSPEND" -> "SUSPENDED" [] OTHER -> "DEPROVISIONED"

\* Staff change the package, its router or its VLAN.
packageChanges(s) ==
    /\ configured' \in {[configured EXCEPT ![s] = c] : c \in (Plans \cup {Unconfigured}) \ {configured[s]}}
    /\ UNCHANGED <<jobs, resetting, netStatus, enabled, runner>>

-------------------------------------------------------------------------------
(* Asking for an operation. *)

SameJob(s, op) ==
    {i \in DOMAIN jobs : jobs[i].service = s /\ jobs[i].op = op /\ jobs[i].plan = configured[s]}

\* A new job; one whose package cannot be provisioned fails at once, and says so.
enqueueProvisioningJob(s, op) ==
    LET failed == configured[s] = Unconfigured IN
    /\ SameJob(s, op) = {} /\ Len(jobs) < MaxJobs
    /\ jobs' = Append(jobs, [service |-> s, op |-> op, plan |-> configured[s], attempts |-> 0,
                             status |-> IF failed THEN "FAILED" ELSE "PENDING"])
    /\ netStatus' = IF failed THEN [netStatus EXCEPT ![s] = "FAILED"] ELSE netStatus
    /\ UNCHANGED <<configured, resetting, enabled, runner>>

\* The same operation was asked for before and is finished: its row will be used again.
\* (One that waits or runs is answered with, and nothing changes.)
reuseJob(s, op) ==
    /\ \E i \in SameJob(s, op) :
         jobs[i].status \in {"FAILED", "SUCCEEDED"} /\ resetting' = resetting \cup {i}
    /\ UNCHANGED <<configured, jobs, netStatus, enabled, runner>>

retryProvisioningJob(i) ==
    /\ i \in DOMAIN jobs /\ jobs[i].status = "FAILED"
    /\ resetting' = resetting \cup {i}
    /\ UNCHANGED <<configured, jobs, netStatus, enabled, runner>>

\* The update that follows either does not look at the status again.
resetJob(i) ==
    /\ i \in resetting
    /\ jobs' = [jobs EXCEPT ![i].status = "PENDING", ![i].attempts = 0]
    /\ resetting' = resetting \ {i}
    /\ UNCHANGED <<configured, netStatus, enabled, runner>>

-------------------------------------------------------------------------------
(* The worker. *)

Pending == {i \in DOMAIN jobs : jobs[i].status = "PENDING"}

\* The oldest of them.
listRunnableJobs ==
    /\ runner.pc = "idle" /\ runner.batch = {} /\ Pending # {}
    /\ runner' = [NoPass EXCEPT !.batch = {i \in Pending : Cardinality({j \in Pending : j <= i}) <= BatchSize}]
    /\ UNCHANGED <<configured, jobs, resetting, netStatus, enabled>>

Oldest(batch) == {i \in batch : \A j \in batch : i <= j}

Starts(i) ==
    /\ runner.pc = "idle" /\ i \in Oldest(runner.batch) /\ jobs[i].status # "SUCCEEDED"
    /\ jobs' = [jobs EXCEPT ![i].status = "PROCESSING", ![i].attempts = @ + 1]
    /\ runner' = [runner EXCEPT !.pc = "apply", !.batch = @ \ {i}, !.at = i, !.attempt = jobs[i].attempts + 1]
    /\ UNCHANGED <<configured, resetting, enabled>>

\* Mutant of startJob: the service keeps its status until the job ends.
StartQuietly(i) == Starts(i) /\ UNCHANGED netStatus

startJob(i) == Starts(i) /\ netStatus' = [netStatus EXCEPT ![jobs[i].service] = "PROCESSING"]

Current == jobs[runner.at]

\* applyOperation: the account is enabled or disabled, and later calls (the session's
\* disconnection, the rate limit) may still fail; or nothing was reached.
applyOperation ==
    LET s == Current.service IN
    /\ runner.pc = "apply"
    /\ \/ /\ configured[s] # Unconfigured
          /\ enabled' = IF Current.op \in Enables THEN enabled \cup {s} ELSE enabled \ {s}
          /\ \E ok \in BOOLEAN : runner' = [runner EXCEPT !.pc = "finish", !.ok = ok]
       \/ UNCHANGED enabled /\ runner' = [runner EXCEPT !.pc = "finish", !.ok = FALSE]
    /\ UNCHANGED <<configured, jobs, resetting, netStatus>>

\* finishSuccess and finishFailure: job and service in one transaction.
finishJob ==
    LET exhausted == runner.attempt >= MaxAttempts
        outcome == CASE runner.ok -> [job |-> "SUCCEEDED", service |-> StatusOnSuccess(Current.op)]
                     [] ~runner.ok /\ exhausted -> [job |-> "FAILED", service |-> "FAILED"]
                     [] OTHER -> [job |-> "PENDING", service |-> "PROCESSING"]
    IN
    /\ runner.pc = "finish"
    /\ jobs' = [jobs EXCEPT ![runner.at].status = outcome.job]
    /\ netStatus' = [netStatus EXCEPT ![Current.service] = outcome.service]
    /\ runner' = [NoPass EXCEPT !.batch = runner.batch]
    /\ UNCHANGED <<configured, resetting, enabled>>

\* The worker is restarted; whoever was asking is cut off.
workerRestarts ==
    /\ runner # NoPass
    /\ runner' = NoPass
    /\ UNCHANGED <<configured, jobs, resetting, netStatus, enabled>>

requestLost(i) ==
    /\ i \in resetting /\ resetting' = resetting \ {i}
    /\ UNCHANGED <<configured, jobs, netStatus, enabled, runner>>

JobInit ==
    /\ configured \in [Services -> Plans \cup {Unconfigured}]
    /\ jobs = <<>> /\ resetting = {}
    /\ netStatus = [s \in Services |-> "PENDING"]
    /\ enabled = {}
    /\ runner = NoPass

RunnerStep == listRunnableJobs \/ (\E i \in DOMAIN jobs : startJob(i)) \/ applyOperation \/ finishJob

JobNext ==
    \/ \E s \in Services :
         packageChanges(s) \/ \E op \in Operations : enqueueProvisioningJob(s, op) \/ reuseJob(s, op)
    \/ \E i \in DOMAIN jobs : retryProvisioningJob(i) \/ resetJob(i) \/ requestLost(i)
    \/ RunnerStep \/ workerRestarts

JobSpec == JobInit /\ [][JobNext]_jobVars

-------------------------------------------------------------------------------
(* Properties. *)

\* The values of the tables and of the pass.
JobTypeOK ==
    /\ configured \in [Services -> Plans \cup {Unconfigured}]
    /\ jobs \in Seq([service : Services, op : Operations, plan : Plans \cup {Unconfigured},
                     attempts : Nat, status : {"PENDING", "PROCESSING", "SUCCEEDED", "FAILED"}])
    /\ resetting \subseteq DOMAIN jobs
    /\ netStatus \in [Services -> {"PENDING", "PROCESSING", "ACTIVE", "SUSPENDED", "DEPROVISIONED", "FAILED"}]
    /\ enabled \subseteq Services
    /\ runner \in [pc : {"idle", "apply", "finish"}, batch : SUBSET DOMAIN jobs,
                   at : 0..Len(jobs), attempt : Nat, ok : BOOLEAN]

\* "a subscriber is marked ACTIVE on the network only when a device has confirmed the
\* configuration", and SUSPENDED or DEPROVISIONED only when it has disabled the account:
\* through failures half-way, retries, restarts and repeated requests.
StatusIsConfirmed ==
    \A s \in Services :
        /\ netStatus[s] = "ACTIVE" => s \in enabled
        /\ netStatus[s] \in {"SUSPENDED", "DEPROVISIONED"} => s \notin enabled

===============================================================================
