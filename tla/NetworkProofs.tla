---------------------------- MODULE NetworkProofs -----------------------------
(***************************************************************************)
(* Proofs about what the worker does to routers, for every set of services *)
(* and routers, every number of attempts, passes and deaths.               *)
(***************************************************************************)
EXTENDS ProvisioningJobs, SequenceTheorems, RouterRollouts, TLAPS

-------------------------------------------------------------------------------
(* ProvisioningJobs: what a service's network status says was confirmed by a router. *)

JobRows == [service : Services, op : Operations, plan : Plans \cup {Unconfigured},
            attempts : Nat, status : {"PENDING", "PROCESSING", "SUCCEEDED", "FAILED"}]

\* While a job runs its service has no status that claims anything of the router, and when
\* its operation was carried out the router has done what it asks for.
RunnerInv ==
    /\ runner.pc # "idle" =>
         /\ runner.at \in DOMAIN jobs
         /\ netStatus[Current.service] \in {"PROCESSING", "FAILED"}
    /\ runner.pc = "finish" /\ runner.ok =>
         (Current.op \in Enables <=> Current.service \in enabled)

JobInv == JobTypeOK /\ RunnerInv /\ StatusIsConfirmed

LEMMA JobsRow ==
  ASSUME JobTypeOK, NEW i \in DOMAIN jobs
  PROVE  jobs[i] \in JobRows /\ DOMAIN jobs = 1..Len(jobs) /\ Len(jobs) \in Nat
<1>1. jobs \in Seq(JobRows)
  BY DEF JobTypeOK, JobRows
<1>2. DOMAIN jobs = 1..Len(jobs) /\ Len(jobs) \in Nat
  BY <1>1, LenProperties
<1> QED  BY <1>1, <1>2, ElementOfSeq

\* One row of the queue changes its status and attempts, and no job another service's.
LEMMA RowWritten ==
  ASSUME JobTypeOK, NEW i \in DOMAIN jobs, NEW row \in JobRows, jobs' = [jobs EXCEPT ![i] = row],
         row.service = jobs[i].service, row.op = jobs[i].op
  PROVE  /\ jobs' \in Seq(JobRows) /\ DOMAIN jobs' = DOMAIN jobs /\ Len(jobs') = Len(jobs)
         /\ \A j \in DOMAIN jobs : jobs'[j].service = jobs[j].service /\ jobs'[j].op = jobs[j].op
<1>1. jobs \in Seq(JobRows) /\ i \in 1..Len(jobs)
  BY JobsRow DEF JobTypeOK, JobRows
<1>2. jobs' \in Seq(JobRows) /\ Len(jobs') = Len(jobs)
  BY <1>1, ExceptSeq
<1>3. DOMAIN jobs' = DOMAIN jobs
  OBVIOUS
<1>4. ASSUME NEW j \in DOMAIN jobs
      PROVE  jobs'[j].service = jobs[j].service /\ jobs'[j].op = jobs[j].op
  BY <1>4
<1> QED  BY <1>2, <1>3, <1>4

\* A pass between two jobs.
LEMMA NextJob ==
  ASSUME JobInv, NEW b \in SUBSET DOMAIN jobs
  PROVE  LET it == [NoPass EXCEPT !.batch = b] IN
         /\ it \in [pc : {"idle", "apply", "finish"}, batch : SUBSET DOMAIN jobs,
                    at : 0..Len(jobs), attempt : Nat, ok : BOOLEAN]
         /\ it.pc = "idle"
<1>1. Len(jobs) \in Nat
  BY LenProperties DEF JobInv, JobTypeOK
<1>2. 0 \in 0..Len(jobs)
  BY <1>1
<1> QED  BY <1>2 DEF NoPass

LEMMA InitJob == JobInit => JobInv
  BY DEF JobInit, JobInv, JobTypeOK, RunnerInv, StatusIsConfirmed, NoPass

\* A step that leaves the pass and the queue's rows alone, and calls no service ACTIVE,
\* SUSPENDED or DEPROVISIONED that was not, keeps what the pass relies on.
LEMMA QuietStep ==
  ASSUME JobInv, UNCHANGED <<runner, enabled>>, DOMAIN jobs \subseteq DOMAIN jobs',
         \A i \in DOMAIN jobs : jobs'[i].service = jobs[i].service /\ jobs'[i].op = jobs[i].op,
         \A s \in Services : netStatus'[s] \in {netStatus[s], "FAILED"}
  PROVE  RunnerInv' /\ StatusIsConfirmed'
<1>1. \A i \in DOMAIN jobs : jobs[i].service \in Services
  BY JobsRow DEF JobInv, JobRows
<1>2. RunnerInv'
  BY <1>1 DEF JobInv, RunnerInv, Current
<1>3. StatusIsConfirmed'
  BY DEF JobInv, StatusIsConfirmed
<1> QED  BY <1>2, <1>3

LEMMA PackageInv == ASSUME JobInv, NEW s \in Services, packageChanges(s) PROVE JobInv'
<1>1. configured' \in [Services -> Plans \cup {Unconfigured}]
  BY DEF JobInv, JobTypeOK, packageChanges
<1>2. UNCHANGED <<jobs, resetting, netStatus, enabled, runner>>
  BY DEF packageChanges
<1>3. RunnerInv' /\ StatusIsConfirmed'
  BY <1>2, QuietStep
<1> QED  BY <1>1, <1>2, <1>3 DEF JobInv, JobTypeOK

LEMMA EnqueueInv ==
  ASSUME JobInv, NEW s \in Services, NEW op \in Operations, enqueueProvisioningJob(s, op) PROVE JobInv'
<1> DEFINE row == [service |-> s, op |-> op, plan |-> configured[s], attempts |-> 0,
                   status |-> IF configured[s] = Unconfigured THEN "FAILED" ELSE "PENDING"]
<1>1. row \in JobRows /\ jobs \in Seq(JobRows) /\ jobs' = Append(jobs, row)
  BY DEF JobInv, JobTypeOK, JobRows, enqueueProvisioningJob
<1> HIDE DEF row
<1>2. /\ jobs' \in Seq(JobRows) /\ Len(jobs') = Len(jobs) + 1 /\ Len(jobs) \in Nat
      /\ \A i \in 1..Len(jobs) : jobs'[i] = jobs[i]
      /\ DOMAIN jobs = 1..Len(jobs) /\ DOMAIN jobs' = 1..Len(jobs')
  BY <1>1, AppendProperties, LenProperties
<1>3. DOMAIN jobs \subseteq DOMAIN jobs' /\ 0..Len(jobs) \subseteq 0..Len(jobs')
  BY <1>2
<1>4. /\ netStatus' \in [Services -> {"PENDING", "PROCESSING", "ACTIVE", "SUSPENDED", "DEPROVISIONED", "FAILED"}]
      /\ \A r \in Services : netStatus'[r] \in {netStatus[r], "FAILED"}
      /\ UNCHANGED <<configured, resetting, enabled, runner>>
  BY DEF JobInv, JobTypeOK, enqueueProvisioningJob
<1>5. JobTypeOK'
  BY <1>2, <1>3, <1>4 DEF JobInv, JobTypeOK, JobRows
<1>6. RunnerInv' /\ StatusIsConfirmed'
  BY <1>2, <1>3, <1>4, QuietStep
<1> QED  BY <1>5, <1>6 DEF JobInv

LEMMA ReuseInv ==
  ASSUME JobInv,
         UNCHANGED <<configured, jobs, netStatus, enabled, runner>>, resetting' \subseteq DOMAIN jobs
  PROVE  JobInv'
<1>1. RunnerInv' /\ StatusIsConfirmed'
  BY QuietStep
<1> QED  BY <1>1 DEF JobInv, JobTypeOK

LEMMA ResetInv == ASSUME JobInv, NEW i \in DOMAIN jobs, resetJob(i) PROVE JobInv'
<1> DEFINE row == [jobs[i] EXCEPT !.status = "PENDING", !.attempts = 0]
<1>1. row \in JobRows /\ row.service = jobs[i].service /\ row.op = jobs[i].op
  BY JobsRow DEF JobInv, JobRows
<1>2. jobs' = [jobs EXCEPT ![i] = row]
  BY JobsRow DEF resetJob, JobInv, JobRows
<1> HIDE DEF row
<1>3. /\ jobs' \in Seq(JobRows) /\ DOMAIN jobs' = DOMAIN jobs /\ Len(jobs') = Len(jobs)
      /\ \A j \in DOMAIN jobs : jobs'[j].service = jobs[j].service /\ jobs'[j].op = jobs[j].op
  BY <1>1, <1>2, RowWritten DEF JobInv
<1>4. resetting' \subseteq DOMAIN jobs /\ UNCHANGED <<configured, netStatus, enabled, runner>>
  BY DEF resetJob, JobInv, JobTypeOK
<1>5. JobTypeOK'
  BY <1>3, <1>4 DEF JobInv, JobTypeOK, JobRows
<1>6. RunnerInv' /\ StatusIsConfirmed'
  BY <1>3, <1>4, QuietStep
<1> QED  BY <1>5, <1>6 DEF JobInv

LEMMA ListInv == ASSUME JobInv, listRunnableJobs PROVE JobInv'
<1>1. runner' \in [pc : {"idle", "apply", "finish"}, batch : SUBSET DOMAIN jobs,
                   at : 0..Len(jobs), attempt : Nat, ok : BOOLEAN]
      /\ runner'.pc = "idle"
  <2> DEFINE b == {i \in Pending : Cardinality({j \in Pending : j <= i}) <= BatchSize}
  <2>1. b \in SUBSET DOMAIN jobs /\ runner' = [NoPass EXCEPT !.batch = b]
    BY DEF listRunnableJobs, Pending
  <2> HIDE DEF b
  <2> QED  BY <2>1, NextJob
<1>2. UNCHANGED <<configured, jobs, resetting, netStatus, enabled>>
  BY DEF listRunnableJobs
<1> QED  BY <1>1, <1>2 DEF JobInv, JobTypeOK, RunnerInv, StatusIsConfirmed

LEMMA StartInv == ASSUME JobInv, NEW i \in DOMAIN jobs, startJob(i) PROVE JobInv'
<1> DEFINE row == [jobs[i] EXCEPT !.status = "PROCESSING", !.attempts = jobs[i].attempts + 1]
<1>0. jobs[i] \in JobRows /\ DOMAIN jobs = 1..Len(jobs) /\ Len(jobs) \in Nat
  BY JobsRow DEF JobInv
<1>1. row \in JobRows /\ row.service = jobs[i].service /\ row.op = jobs[i].op
  <2>1. jobs[i].attempts + 1 \in Nat
    BY <1>0 DEF JobRows
  <2> QED  BY <1>0, <2>1 DEF JobRows
<1>2. jobs' = [jobs EXCEPT ![i] = row]
  BY <1>0 DEF startJob, Starts, JobRows
<1> HIDE DEF row
<1>3. /\ jobs' \in Seq(JobRows) /\ DOMAIN jobs' = DOMAIN jobs /\ Len(jobs') = Len(jobs)
      /\ jobs'[i].service = jobs[i].service /\ jobs'[i].op = jobs[i].op
  BY <1>1, <1>2, RowWritten DEF JobInv
<1>4. runner' \in [pc : {"idle", "apply", "finish"}, batch : SUBSET DOMAIN jobs,
                   at : 0..Len(jobs), attempt : Nat, ok : BOOLEAN]
      /\ runner'.pc = "apply" /\ runner'.at = i
  BY <1>0 DEF startJob, Starts, JobInv, JobTypeOK, JobRows
<1>5. /\ jobs[i].service \in Services /\ UNCHANGED <<configured, resetting, enabled>>
      /\ netStatus' = [netStatus EXCEPT ![jobs[i].service] = "PROCESSING"]
  BY <1>0 DEF startJob, Starts, JobRows
<1>6. JobTypeOK'
  BY <1>3, <1>4, <1>5 DEF JobInv, JobTypeOK, JobRows
<1>7. RunnerInv'
  BY <1>3, <1>4, <1>5 DEF JobInv, JobTypeOK, RunnerInv, Current
<1>8. StatusIsConfirmed'
  BY <1>5 DEF JobInv, JobTypeOK, StatusIsConfirmed
<1> QED  BY <1>6, <1>7, <1>8 DEF JobInv

LEMMA ApplyInv == ASSUME JobInv, applyOperation PROVE JobInv'
<1> DEFINE s == Current.service
<1>1. /\ runner.at \in DOMAIN jobs /\ netStatus[s] \in {"PROCESSING", "FAILED"} /\ s \in Services
  BY JobsRow DEF JobInv, RunnerInv, applyOperation, Current, JobRows
<1>2. /\ UNCHANGED <<configured, jobs, resetting, netStatus>>
      /\ \/ enabled' = IF Current.op \in Enables THEN enabled \cup {s} ELSE enabled \ {s}
         \/ UNCHANGED enabled /\ runner'.ok = FALSE
      /\ runner'.pc = "finish" /\ runner'.at = runner.at
      /\ runner' \in [pc : {"idle", "apply", "finish"}, batch : SUBSET DOMAIN jobs,
                      at : 0..Len(jobs), attempt : Nat, ok : BOOLEAN]
  BY DEF applyOperation, JobInv, JobTypeOK
<1>3. JobTypeOK'
  BY <1>1, <1>2 DEF JobInv, JobTypeOK
<1>4. RunnerInv'
  BY <1>1, <1>2 DEF RunnerInv, Current
<1>5. StatusIsConfirmed'
  BY <1>1, <1>2 DEF JobInv, StatusIsConfirmed
<1> QED  BY <1>3, <1>4, <1>5 DEF JobInv

LEMMA FinishInv == ASSUME JobInv, finishJob PROVE JobInv'
<1> DEFINE i == runner.at
           s == Current.service
<1>0. i \in DOMAIN jobs /\ jobs[i] \in JobRows /\ s = jobs[i].service /\ s \in Services
      /\ jobs[i].op \in Operations /\ Len(jobs) \in Nat
  BY JobsRow DEF JobInv, RunnerInv, finishJob, Current, JobRows
<1>1. PICK job \in {"SUCCEEDED", "FAILED", "PENDING"},
           status \in {"ACTIVE", "SUSPENDED", "DEPROVISIONED", "FAILED", "PROCESSING"} :
         /\ jobs' = [jobs EXCEPT ![i].status = job]
         /\ netStatus' = [netStatus EXCEPT ![s] = status]
         /\ status = "ACTIVE" => s \in enabled
         /\ status \in {"SUSPENDED", "DEPROVISIONED"} => s \notin enabled
  <2>1. CASE runner.ok
    <3>1. /\ jobs' = [jobs EXCEPT ![i].status = "SUCCEEDED"]
          /\ netStatus' = [netStatus EXCEPT ![s] = StatusOnSuccess(Current.op)]
      BY <2>1 DEF finishJob
    <3>2. Current.op \in Enables <=> s \in enabled
      BY <2>1 DEF JobInv, RunnerInv, finishJob
    <3>3. /\ StatusOnSuccess(Current.op) \in {"ACTIVE", "SUSPENDED", "DEPROVISIONED"}
          /\ StatusOnSuccess(Current.op) = "ACTIVE" <=> Current.op \in Enables
      BY DEF StatusOnSuccess, Enables
    <3> QED  BY <3>1, <3>2, <3>3
  <2>2. CASE ~runner.ok /\ runner.attempt >= MaxAttempts
    <3>1. /\ jobs' = [jobs EXCEPT ![i].status = "FAILED"] /\ netStatus' = [netStatus EXCEPT ![s] = "FAILED"]
      BY <2>2 DEF finishJob
    <3> QED  BY <3>1
  <2>3. CASE ~runner.ok /\ ~(runner.attempt >= MaxAttempts)
    <3>1. /\ jobs' = [jobs EXCEPT ![i].status = "PENDING"] /\ netStatus' = [netStatus EXCEPT ![s] = "PROCESSING"]
      BY <2>3 DEF finishJob
    <3> QED  BY <3>1
  <2> QED  BY <2>1, <2>2, <2>3
<1> DEFINE row == [jobs[i] EXCEPT !.status = job]
<1>2. row \in JobRows /\ row.service = jobs[i].service /\ row.op = jobs[i].op
  BY <1>0 DEF JobRows
<1>3. jobs' = [jobs EXCEPT ![i] = row]
  BY <1>1
<1> HIDE DEF row
<1>4. jobs' \in Seq(JobRows) /\ DOMAIN jobs' = DOMAIN jobs /\ Len(jobs') = Len(jobs)
  BY <1>0, <1>2, <1>3, RowWritten DEF JobInv
<1>5. runner' \in [pc : {"idle", "apply", "finish"}, batch : SUBSET DOMAIN jobs,
                   at : 0..Len(jobs), attempt : Nat, ok : BOOLEAN]
      /\ runner'.pc = "idle" /\ UNCHANGED <<configured, resetting, enabled>>
  <2>1. /\ runner' = [NoPass EXCEPT !.batch = runner.batch] /\ runner.batch \in SUBSET DOMAIN jobs
        /\ UNCHANGED <<configured, resetting, enabled>>
    BY DEF finishJob, JobInv, JobTypeOK
  <2> QED  BY <2>1, NextJob
<1>6. JobTypeOK'
  BY <1>0, <1>1, <1>4, <1>5 DEF JobInv, JobTypeOK, JobRows
<1>7. RunnerInv' /\ StatusIsConfirmed'
  BY <1>0, <1>1, <1>5 DEF JobInv, JobTypeOK, RunnerInv, StatusIsConfirmed
<1> QED  BY <1>6, <1>7 DEF JobInv

LEMMA RestartInv == ASSUME JobInv, workerRestarts PROVE JobInv'
<1>1. runner' \in [pc : {"idle", "apply", "finish"}, batch : SUBSET DOMAIN jobs,
                   at : 0..Len(jobs), attempt : Nat, ok : BOOLEAN]
      /\ runner'.pc = "idle"
  <2>1. Len(jobs) \in Nat
    BY LenProperties DEF JobInv, JobTypeOK
  <2> QED  BY <2>1 DEF workerRestarts, NoPass
<1> QED  BY <1>1 DEF JobInv, JobTypeOK, RunnerInv, StatusIsConfirmed, workerRestarts

LEMMA JobInductive == JobSpec => []JobInv
<1>1. JobInv /\ [JobNext]_jobVars => JobInv'
  <2> SUFFICES ASSUME JobInv, [JobNext]_jobVars PROVE JobInv'
    OBVIOUS
  <2>1. CASE UNCHANGED jobVars
    BY <2>1 DEF jobVars, JobInv, JobTypeOK, RunnerInv, StatusIsConfirmed, Current
  <2>2. ASSUME NEW s \in Services, NEW op \in Operations, reuseJob(s, op) PROVE JobInv'
    <3>1. resetting' \subseteq DOMAIN jobs
      BY <2>2 DEF reuseJob, SameJob, JobInv, JobTypeOK
    <3> QED  BY <2>2, <3>1, ReuseInv DEF reuseJob
  <2>3. ASSUME NEW i \in DOMAIN jobs, retryProvisioningJob(i) \/ requestLost(i) PROVE JobInv'
    <3>1. resetting' \subseteq DOMAIN jobs
      BY <2>3 DEF retryProvisioningJob, requestLost, JobInv, JobTypeOK
    <3> QED  BY <2>3, <3>1, ReuseInv DEF retryProvisioningJob, requestLost
  <2>4. CASE JobNext
    BY <2>2, <2>3, <2>4, PackageInv, EnqueueInv, ResetInv, ListInv, StartInv, ApplyInv, FinishInv,
       RestartInv DEF JobNext, RunnerStep
  <2> QED  BY <2>1, <2>4
<1> QED  BY <1>1, InitJob, PTL DEF JobSpec

\* The queue, the services and the pass keep the values of their columns.
THEOREM JobTyped == JobSpec => []JobTypeOK
  BY JobInductive, PTL DEF JobInv

\* A service is ACTIVE only after a router confirmed it, and SUSPENDED or DEPROVISIONED only
\* after one has disabled it (provisioning.service.ts, finishSuccess), whatever fails, is
\* retried, restarted or asked for again.
THEOREM StatusConfirmed == JobSpec => []StatusIsConfirmed
  BY JobInductive, PTL DEF JobInv

-------------------------------------------------------------------------------
(* RouterRollouts: a router is changed once at most, and after the canary. *)

Busy == {"work", "record"}

CanaryPassed == target[1] \in {"SUCCEEDED", "SKIPPED"}

\* What a pass does with a router, it claimed, and nobody else has; the claim of a router
\* that was chosen although the canary failed finds the router skipped.
HoldsRightly(w) ==
    /\ pass[w].pc \in {"claim", "work", "record"} => pass[w].at \in Positions
    /\ pass[w].pc \in Busy => target[pass[w].at] \in {"RUNNING", "FAILED"}
    /\ pass[w].pc = "work" => changed[pass[w].at] = 0
    /\ pass[w].pc = "record" /\ pass[w].result = "SKIPPED" => changed[pass[w].at] = 0
    /\ canaryFirst /\ pass[w].pc = "claim" /\ pass[w].at # 1 =>
         CanaryPassed \/ (target[1] = "FAILED" /\ target[pass[w].at] # "PENDING")
    /\ canaryFirst /\ pass[w].pc \in Busy /\ pass[w].at # 1 => CanaryPassed

ClaimsInv ==
    /\ \A w \in RolloutWorkers : HoldsRightly(w)
    /\ \A v, w \in RolloutWorkers :
         v # w /\ pass[v].pc \in Busy /\ pass[w].pc \in Busy => pass[v].at # pass[w].at

\* Only a router that is being updated is given up, one that waits has not been changed,
\* and nothing happens before the rollout is created.
TargetsInv ==
    /\ \A i \in overdue : target[i] = "RUNNING"
    /\ \A i \in Positions : target[i] = "PENDING" => changed[i] = 0
    /\ rollout = "NONE" => /\ \A w \in RolloutWorkers : pass[w].pc = "idle"
                           /\ \A i \in Positions : changed[i] = 0

RolloutInv == RolloutTypeOK /\ TargetsInv /\ ClaimsInv /\ CanaryGoesFirst

PassRows == [pc : {"idle", "start", "look", "claim", "work", "record", "count"},
             at : 0..Routers, result : {"SUCCEEDED", "FAILED", "SKIPPED"}]

LEMMA One == 1 \in Positions
  BY RolloutAssumption DEF Positions

LEMMA InitRollout == RolloutInit => RolloutInv
<1> SUFFICES ASSUME RolloutInit PROVE RolloutInv
  OBVIOUS
<1>1. NoRollout \in PassRows /\ NoRollout.pc = "idle"
  BY RolloutAssumption DEF NoRollout, PassRows
<1>2. RolloutTypeOK
  <2>1. pass \in [RolloutWorkers -> PassRows]
    BY <1>1 DEF RolloutInit
  <2>2. deaths \in 0..MaxDeaths
    BY RolloutAssumption DEF RolloutInit
  <2>3. canaryFirst \in BOOLEAN /\ cancelling \in BOOLEAN
    BY DEF RolloutInit
  <2>4. /\ rollout \in {"NONE", "SCHEDULED", "RUNNING", "COMPLETED", "CANCELLED"}
        /\ target \in [Positions -> {"PENDING", "RUNNING", "SUCCEEDED", "FAILED", "SKIPPED"}]
        /\ changed \in [Positions -> Nat] /\ overdue \subseteq Positions
    BY DEF RolloutInit
  <2> QED  BY <2>1, <2>2, <2>3, <2>4 DEF RolloutTypeOK, PassRows
<1>3. TargetsInv /\ ClaimsInv /\ CanaryGoesFirst
  BY <1>1 DEF RolloutInit, TargetsInv, ClaimsInv, HoldsRightly, CanaryGoesFirst, Busy
<1> QED  BY <1>2, <1>3 DEF RolloutInv

\* A pass that moves on without a router, or is given one field, changes as a record does.
LEMMA Moves ==
  ASSUME RolloutTypeOK, NEW w \in RolloutWorkers, NEW row \in PassRows, pass' = [pass EXCEPT ![w] = row]
  PROVE  /\ pass' \in [RolloutWorkers -> PassRows]
         /\ pass'[w] = row /\ \A v \in RolloutWorkers \ {w} : pass'[v] = pass[v]
  BY DEF RolloutTypeOK, PassRows

LEMMA MovesTo ==
  ASSUME RolloutTypeOK, NEW w \in RolloutWorkers, NEW pc \in {"idle", "start", "look", "claim", "work", "count"},
         pass' = [pass EXCEPT ![w].pc = pc]
  PROVE  /\ pass' \in [RolloutWorkers -> PassRows]
         /\ pass'[w].pc = pc /\ pass'[w].at = pass[w].at
         /\ \A v \in RolloutWorkers \ {w} : pass'[v] = pass[v]
<1> DEFINE row == [pass[w] EXCEPT !.pc = pc]
<1>1. row \in PassRows /\ row.pc = pc /\ row.at = pass[w].at
  BY DEF RolloutTypeOK, PassRows
<1>2. pass' = [pass EXCEPT ![w] = row]
  OBVIOUS
<1> HIDE DEF row
<1> QED  BY <1>1, <1>2, Moves

\* A pass that leaves the targets alone and holds no router.
LEMMA OnlyPass ==
  ASSUME RolloutInv, NEW w \in RolloutWorkers,
         UNCHANGED <<canaryFirst, target, changed, overdue>>,
         rollout' = "NONE" => rollout = "NONE" /\ pass'[w].pc = "idle",
         pass'[w].pc \in {"idle", "start", "look", "count"},
         \A v \in RolloutWorkers \ {w} : pass'[v] = pass[v]
  PROVE  TargetsInv' /\ ClaimsInv' /\ CanaryGoesFirst'
<1>1. TargetsInv'
  BY DEF RolloutInv, TargetsInv
<1>2. ClaimsInv'
  BY DEF RolloutInv, ClaimsInv, HoldsRightly, CanaryPassed, Busy
<1>3. CanaryGoesFirst'
  BY DEF RolloutInv, CanaryGoesFirst
<1> QED  BY <1>1, <1>2, <1>3

\* Targets that wait are skipped, targets that run and nobody else's are given up: no pass
\* that holds a router, and no canary that passed, is disturbed.
LEMMA TargetsClosed ==
  ASSUME RolloutInv, target' \in [Positions -> {"PENDING", "RUNNING", "SUCCEEDED", "FAILED", "SKIPPED"}],
         UNCHANGED <<canaryFirst, changed, pass>>, rollout' = "NONE" => rollout = "NONE",
         \A i \in Positions : \/ target'[i] = target[i]
                              \/ target[i] = "PENDING" /\ target'[i] = "SKIPPED"
                              \/ target[i] = "RUNNING" /\ target'[i] = "FAILED",
         \A i \in overdue' : target'[i] = "RUNNING"
  PROVE  TargetsInv' /\ ClaimsInv' /\ CanaryGoesFirst'
<1>1. TargetsInv'
  BY DEF RolloutInv, TargetsInv
<1>2. CanaryPassed => CanaryPassed'
  BY One DEF CanaryPassed
<1>3. ClaimsInv'
  BY <1>2, One DEF RolloutInv, ClaimsInv, HoldsRightly, Busy, CanaryPassed
<1>4. CanaryGoesFirst'
  BY One DEF RolloutInv, CanaryGoesFirst, TargetsInv
<1> QED  BY <1>1, <1>3, <1>4

-------------------------------------------------------------------------------
(* One lemma for each action. *)

LEMMA CreateRolloutInv == ASSUME RolloutInv, createRollout PROVE RolloutInv'
<1>1. /\ rollout = "NONE" /\ rollout' \in {"SCHEDULED", "RUNNING"} /\ canaryFirst' \in BOOLEAN
      /\ UNCHANGED <<target, changed, overdue, cancelling, pass, deaths>>
  BY DEF createRollout
<1>2. RolloutTypeOK'
  BY <1>1 DEF RolloutInv, RolloutTypeOK
<1>3. TargetsInv' /\ ClaimsInv' /\ CanaryGoesFirst'
  BY <1>1 DEF RolloutInv, RolloutTypeOK, TargetsInv, ClaimsInv, HoldsRightly, CanaryGoesFirst, Busy
<1> QED  BY <1>2, <1>3 DEF RolloutInv

LEMMA CancelInv == ASSUME RolloutInv, cancelRollout PROVE RolloutInv'
<1>1. target' = [i \in Positions |-> IF target[i] = "PENDING" THEN "SKIPPED" ELSE target[i]]
      /\ UNCHANGED <<canaryFirst, rollout, changed, overdue, pass, deaths>> /\ cancelling' = TRUE
  BY DEF cancelRollout
<1>2. target' \in [Positions -> {"PENDING", "RUNNING", "SUCCEEDED", "FAILED", "SKIPPED"}]
  BY <1>1 DEF RolloutInv, RolloutTypeOK
<1>3. \A i \in overdue' : target'[i] = "RUNNING"
  BY <1>1 DEF RolloutInv, RolloutTypeOK, TargetsInv
<1>4. \A i \in Positions : \/ target'[i] = target[i]
                           \/ target[i] = "PENDING" /\ target'[i] = "SKIPPED"
                           \/ target[i] = "RUNNING" /\ target'[i] = "FAILED"
  BY <1>1
<1>5. TargetsInv' /\ ClaimsInv' /\ CanaryGoesFirst'
  BY <1>1, <1>2, <1>3, <1>4, TargetsClosed
<1>6. RolloutTypeOK'
  BY <1>1, <1>2 DEF RolloutInv, RolloutTypeOK
<1> QED  BY <1>5, <1>6 DEF RolloutInv

LEMMA CancelledInv == ASSUME RolloutInv, writeCancelled PROVE RolloutInv'
<1>1. RolloutTypeOK'
  BY DEF RolloutInv, RolloutTypeOK, writeCancelled
<1>2. TargetsInv' /\ ClaimsInv' /\ CanaryGoesFirst'
  BY DEF RolloutInv, TargetsInv, ClaimsInv, HoldsRightly, CanaryGoesFirst, CanaryPassed, writeCancelled
<1> QED  BY <1>1, <1>2 DEF RolloutInv

LEMMA QuarterHourInv == ASSUME RolloutInv, NEW i \in Positions, quarterHourPasses(i) PROVE RolloutInv'
<1>1. RolloutTypeOK'
  BY DEF RolloutInv, RolloutTypeOK, quarterHourPasses
<1>2. TargetsInv' /\ ClaimsInv' /\ CanaryGoesFirst'
  BY DEF RolloutInv, TargetsInv, ClaimsInv, HoldsRightly, CanaryGoesFirst, CanaryPassed, quarterHourPasses
<1> QED  BY <1>1, <1>2 DEF RolloutInv

LEMMA CloseInv == ASSUME RolloutInv, NEW w \in RolloutWorkers, closeInterrupted(w) PROVE RolloutInv'
<1>1. /\ pass' \in [RolloutWorkers -> PassRows] /\ pass'[w].pc = "start"
      /\ \A v \in RolloutWorkers \ {w} : pass'[v] = pass[v]
  BY MovesTo DEF RolloutInv, closeInterrupted
<1>2. /\ target' = [i \in Positions |-> IF i \in overdue THEN "FAILED" ELSE target[i]]
      /\ overdue' = {} /\ rollout # "NONE" /\ UNCHANGED <<canaryFirst, rollout, changed, cancelling, deaths>>
  BY DEF closeInterrupted, GivenUp
<1>3. target' \in [Positions -> {"PENDING", "RUNNING", "SUCCEEDED", "FAILED", "SKIPPED"}]
  BY <1>2 DEF RolloutInv, RolloutTypeOK
<1>4. RolloutTypeOK'
  BY <1>1, <1>2, <1>3 DEF RolloutInv, RolloutTypeOK, PassRows
<1>5. \A i \in Positions : target'[i] = target[i] \/ (target[i] = "RUNNING" /\ target'[i] = "FAILED")
  BY <1>2 DEF RolloutInv, TargetsInv
<1>6. TargetsInv'
  BY <1>2, <1>5 DEF RolloutInv, TargetsInv
<1>7. ClaimsInv'
  BY <1>1, <1>2, <1>5, One DEF RolloutInv, ClaimsInv, HoldsRightly, CanaryPassed, Busy
<1>8. CanaryGoesFirst'
  BY <1>2, <1>5, One DEF RolloutInv, CanaryGoesFirst
<1> QED  BY <1>4, <1>6, <1>7, <1>8 DEF RolloutInv

LEMMA TakeInv == ASSUME RolloutInv, NEW w \in RolloutWorkers, takeRollout(w) PROVE RolloutInv'
<1>1. PICK pc \in {"look", "idle"} : pass' = [pass EXCEPT ![w].pc = pc]
  BY DEF takeRollout
<1>2. /\ pass' \in [RolloutWorkers -> PassRows] /\ pass'[w].pc = pc
      /\ \A v \in RolloutWorkers \ {w} : pass'[v] = pass[v]
  BY <1>1, MovesTo DEF RolloutInv
<1>3. /\ rollout # "NONE" /\ rollout' \in {rollout, "SCHEDULED", "RUNNING"}
      /\ UNCHANGED <<canaryFirst, target, changed, overdue, cancelling, deaths>>
  BY DEF takeRollout, RolloutInv, TargetsInv
<1>4. RolloutTypeOK'
  BY <1>2, <1>3 DEF RolloutInv, RolloutTypeOK, PassRows
<1>5. TargetsInv' /\ ClaimsInv' /\ CanaryGoesFirst'
  BY <1>2, <1>3, OnlyPass
<1> QED  BY <1>4, <1>5 DEF RolloutInv

LEMMA CompleteRolloutInv == ASSUME RolloutInv, NEW w \in RolloutWorkers, completeRollout(w) PROVE RolloutInv'
<1>1. NoRollout \in PassRows /\ NoRollout.pc = "idle"
  BY RolloutAssumption DEF NoRollout, PassRows
<1>2. /\ pass' \in [RolloutWorkers -> PassRows] /\ pass'[w].pc = "idle"
      /\ \A v \in RolloutWorkers \ {w} : pass'[v] = pass[v]
  BY <1>1, Moves DEF RolloutInv, completeRollout
<1>3. /\ rollout # "NONE" /\ rollout' \in {rollout, "COMPLETED"}
      /\ UNCHANGED <<canaryFirst, target, changed, overdue, cancelling, deaths>>
  BY DEF completeRollout, RolloutInv, TargetsInv
<1>4. RolloutTypeOK'
  BY <1>2, <1>3 DEF RolloutInv, RolloutTypeOK, PassRows
<1>5. TargetsInv' /\ ClaimsInv' /\ CanaryGoesFirst'
  BY <1>2, <1>3, OnlyPass
<1> QED  BY <1>4, <1>5 DEF RolloutInv

LEMMA DiesInv == ASSUME RolloutInv, NEW w \in RolloutWorkers, passDies(w) PROVE RolloutInv'
<1>1. NoRollout \in PassRows /\ NoRollout.pc = "idle"
  BY RolloutAssumption DEF NoRollout, PassRows
<1>2. /\ pass' \in [RolloutWorkers -> PassRows] /\ pass'[w].pc = "idle"
      /\ \A v \in RolloutWorkers \ {w} : pass'[v] = pass[v]
  BY <1>1, Moves DEF RolloutInv, passDies
<1>3. UNCHANGED <<canaryFirst, rollout, target, changed, overdue, cancelling>>
  BY DEF passDies
<1>4. deaths' \in 0..MaxDeaths
  BY RolloutAssumption DEF RolloutInv, RolloutTypeOK, passDies
<1>5. RolloutTypeOK'
  BY <1>2, <1>3, <1>4 DEF RolloutInv, RolloutTypeOK, PassRows
<1>6. TargetsInv' /\ ClaimsInv' /\ CanaryGoesFirst'
  BY <1>2, <1>3, OnlyPass
<1> QED  BY <1>5, <1>6 DEF RolloutInv

LEMMA LookInv == ASSUME RolloutInv, NEW w \in RolloutWorkers, lookForNext(w) PROVE RolloutInv'
<1> DEFINE pending == {i \in Positions : target[i] = "PENDING"}
<1>1. /\ pass[w].pc = "look" /\ rollout # "NONE"
      /\ UNCHANGED <<canaryFirst, rollout, changed, overdue, cancelling, deaths>>
  BY DEF lookForNext, RolloutInv, TargetsInv
<1>2. target' = IF canaryFirst /\ target[1] = "FAILED"
                THEN [i \in Positions |-> IF i \in pending THEN "SKIPPED" ELSE target[i]]
                ELSE target
  BY DEF lookForNext
<1>3. /\ target' \in [Positions -> {"PENDING", "RUNNING", "SUCCEEDED", "FAILED", "SKIPPED"}]
      /\ \A i \in Positions : target'[i] = target[i] \/ (target[i] = "PENDING" /\ target'[i] = "SKIPPED")
      /\ target'[1] = target[1] \/ target[1] = "PENDING"
      /\ canaryFirst /\ target[1] = "FAILED" => \A i \in Positions : target'[i] # "PENDING"
  BY <1>2, One DEF RolloutInv, RolloutTypeOK
<1>4. CASE /\ ~MustWait(target[1])
           /\ \E i \in pending :
                /\ \A j \in pending : i <= j
                /\ pass' = [pass EXCEPT ![w].pc = "claim", ![w].at = i]
  <2>1. PICK i \in pending : /\ \A j \in pending : i <= j
                             /\ pass' = [pass EXCEPT ![w].pc = "claim", ![w].at = i]
    BY <1>4
  <2> DEFINE row == [pass[w] EXCEPT !.pc = "claim", !.at = i]
  <2>2. row \in PassRows /\ row.pc = "claim" /\ row.at = i
    <3>1. i \in 0..Routers
      BY RolloutAssumption DEF Positions
    <3>2. pass[w] \in PassRows
      BY DEF RolloutInv, RolloutTypeOK, PassRows
    <3> QED  BY <3>1, <3>2 DEF PassRows
  <2>3. pass' = [pass EXCEPT ![w] = row]
    BY <2>1 DEF RolloutInv, RolloutTypeOK
  <2> HIDE DEF row
  <2>4. /\ pass' \in [RolloutWorkers -> PassRows] /\ pass'[w].pc = "claim" /\ pass'[w].at = i
        /\ \A v \in RolloutWorkers \ {w} : pass'[v] = pass[v]
    BY <2>2, <2>3, Moves DEF RolloutInv
  <2>5. i # 1 /\ canaryFirst => target[1] \in {"SUCCEEDED", "SKIPPED", "FAILED"}
    <3>1. i # 1 => target[1] # "PENDING"
      BY <2>1, One, RolloutAssumption DEF Positions
    <3> QED  BY <3>1, <1>4, One DEF MustWait, RolloutInv, RolloutTypeOK
  <2>6. RolloutTypeOK'
    BY <1>1, <1>3, <2>4 DEF RolloutInv, RolloutTypeOK, PassRows
  <2>7. TargetsInv'
    BY <1>1, <1>3, <2>4 DEF RolloutInv, TargetsInv, RolloutTypeOK
  <2>8. ClaimsInv'
    <3>1. ASSUME NEW v \in RolloutWorkers
          PROVE  HoldsRightly(v)'
      <4>1. CASE v = w
        BY <1>1, <1>3, <2>4, <2>5, <4>1, One DEF CanaryPassed, Busy, HoldsRightly
      <4>2. CASE v # w
        BY <1>1, <1>3, <2>4, <4>2, One DEF RolloutInv, ClaimsInv, HoldsRightly, CanaryPassed, Busy
      <4> QED  BY <4>1, <4>2
    <3>2. ASSUME NEW u \in RolloutWorkers, NEW v \in RolloutWorkers, u # v,
                 pass'[u].pc \in Busy, pass'[v].pc \in Busy
          PROVE  pass'[u].at # pass'[v].at
      BY <2>4, <3>2 DEF RolloutInv, ClaimsInv, HoldsRightly, Busy
    <3> QED  BY <3>1, <3>2 DEF ClaimsInv
  <2>9. CanaryGoesFirst'
    BY <1>1, <1>3, One DEF RolloutInv, CanaryGoesFirst, TargetsInv
  <2> QED  BY <2>6, <2>7, <2>8, <2>9 DEF RolloutInv
<1>5. CASE pass' = [pass EXCEPT ![w].pc = "count"]
  <2>1. /\ pass' \in [RolloutWorkers -> PassRows] /\ pass'[w].pc = "count"
        /\ \A v \in RolloutWorkers \ {w} : pass'[v] = pass[v]
    BY <1>5, MovesTo DEF RolloutInv
  <2>2. RolloutTypeOK'
    BY <1>1, <1>3, <2>1 DEF RolloutInv, RolloutTypeOK, PassRows
  <2>3. TargetsInv'
    BY <1>1, <1>3, <2>1 DEF RolloutInv, TargetsInv, RolloutTypeOK
  <2>4. ClaimsInv'
    BY <1>1, <1>3, <2>1, One DEF RolloutInv, ClaimsInv, HoldsRightly, CanaryPassed, Busy
  <2>5. CanaryGoesFirst'
    BY <1>1, <1>3, One DEF RolloutInv, CanaryGoesFirst, TargetsInv
  <2> QED  BY <2>2, <2>3, <2>4, <2>5 DEF RolloutInv
<1> QED  BY <1>4, <1>5 DEF lookForNext

LEMMA ClaimInv == ASSUME RolloutInv, NEW w \in RolloutWorkers, claimTarget(w) PROVE RolloutInv'
<1> DEFINE i == pass[w].at
<1>1. /\ pass[w].pc = "claim" /\ i \in Positions /\ rollout # "NONE"
      /\ UNCHANGED <<canaryFirst, rollout, changed, overdue, cancelling, deaths>>
  BY DEF claimTarget, RolloutInv, TargetsInv, ClaimsInv, HoldsRightly
<1>2. CASE /\ target[i] = "PENDING" /\ target' = [target EXCEPT ![i] = "RUNNING"]
           /\ pass' = [pass EXCEPT ![w].pc = "work"]
  <2>1. /\ pass' \in [RolloutWorkers -> PassRows] /\ pass'[w].pc = "work" /\ pass'[w].at = i
        /\ \A v \in RolloutWorkers \ {w} : pass'[v] = pass[v]
    BY <1>2, MovesTo DEF RolloutInv
  <2>2. /\ target' \in [Positions -> {"PENDING", "RUNNING", "SUCCEEDED", "FAILED", "SKIPPED"}]
        /\ target'[i] = "RUNNING" /\ \A j \in Positions \ {i} : target'[j] = target[j]
    BY <1>1, <1>2 DEF RolloutInv, RolloutTypeOK
  <2>3. changed[i] = 0 /\ (canaryFirst /\ i # 1 => CanaryPassed)
        /\ \A v \in RolloutWorkers : pass[v].pc \in Busy => pass[v].at # i
    BY <1>1, <1>2 DEF RolloutInv, TargetsInv, ClaimsInv, HoldsRightly
  <2>4. RolloutTypeOK'
    BY <1>1, <2>1, <2>2 DEF RolloutInv, RolloutTypeOK, PassRows
  <2>5. TargetsInv'
    BY <1>1, <1>2, <2>1, <2>2 DEF RolloutInv, TargetsInv, RolloutTypeOK
  <2>6. CanaryPassed => CanaryPassed'
    BY <1>1, <1>2, <2>2, One DEF CanaryPassed
  <2>7. ClaimsInv'
    <3>1. ASSUME NEW v \in RolloutWorkers
          PROVE  HoldsRightly(v)'
      <4>1. CASE v = w
        BY <1>1, <2>1, <2>2, <2>3, <2>6, <4>1 DEF Busy, HoldsRightly
      <4>2. CASE v # w
        BY <1>1, <1>2, <2>1, <2>2, <2>6, <4>2, One DEF RolloutInv, ClaimsInv, HoldsRightly, Busy
      <4> QED  BY <4>1, <4>2
    <3>2. ASSUME NEW u \in RolloutWorkers, NEW v \in RolloutWorkers, u # v,
                 pass'[u].pc \in Busy, pass'[v].pc \in Busy
          PROVE  pass'[u].at # pass'[v].at
      BY <2>1, <2>3, <3>2 DEF RolloutInv, ClaimsInv, HoldsRightly, Busy
    <3> QED  BY <3>1, <3>2 DEF ClaimsInv
  <2>8. CanaryGoesFirst'
    BY <1>1, <1>2, <2>2, One DEF RolloutInv, CanaryGoesFirst
  <2> QED  BY <2>4, <2>5, <2>7, <2>8 DEF RolloutInv
<1>3. CASE UNCHANGED target /\ \E pc \in {"look", "count"} : pass' = [pass EXCEPT ![w].pc = pc]
  <2>1. PICK pc \in {"look", "count"} : pass' = [pass EXCEPT ![w].pc = pc]
    BY <1>3
  <2>2. /\ pass' \in [RolloutWorkers -> PassRows] /\ pass'[w].pc = pc
        /\ \A v \in RolloutWorkers \ {w} : pass'[v] = pass[v]
    BY <2>1, MovesTo DEF RolloutInv
  <2>3. RolloutTypeOK'
    BY <1>1, <1>3, <2>2 DEF RolloutInv, RolloutTypeOK, PassRows
  <2>4. TargetsInv' /\ ClaimsInv' /\ CanaryGoesFirst'
    BY <1>1, <1>3, <2>2, OnlyPass
  <2> QED  BY <2>3, <2>4 DEF RolloutInv
<1> QED  BY <1>2, <1>3 DEF claimTarget, Claimable

LEMMA UpdateInv == ASSUME RolloutInv, NEW w \in RolloutWorkers, updateRouter(w) PROVE RolloutInv'
<1> DEFINE i == pass[w].at
<1>1. /\ pass[w].pc = "work" /\ i \in Positions /\ rollout # "NONE" /\ changed[i] = 0
      /\ target[i] \in {"RUNNING", "FAILED"} /\ (canaryFirst /\ i # 1 => CanaryPassed)
      /\ UNCHANGED <<canaryFirst, rollout, target, overdue, cancelling, deaths>>
  BY DEF updateRouter, RolloutInv, TargetsInv, ClaimsInv, HoldsRightly, Busy
<1>2. PICK result \in {"SUCCEEDED", "FAILED", "SKIPPED"} :
         /\ pass' = [pass EXCEPT ![w].pc = "record", ![w].result = result]
         /\ \/ UNCHANGED changed
            \/ changed' = [changed EXCEPT ![i] = @ + 1] /\ result # "SKIPPED"
  BY DEF updateRouter
<1> DEFINE row == [pass[w] EXCEPT !.pc = "record", !.result = result]
<1>3. row \in PassRows /\ row.pc = "record" /\ row.at = i /\ row.result = result
  BY DEF RolloutInv, RolloutTypeOK, PassRows
<1>4. pass' = [pass EXCEPT ![w] = row]
  BY <1>2 DEF RolloutInv, RolloutTypeOK
<1> HIDE DEF row
<1>5. /\ pass' \in [RolloutWorkers -> PassRows]
      /\ pass'[w].pc = "record" /\ pass'[w].at = i /\ pass'[w].result = result
      /\ \A v \in RolloutWorkers \ {w} : pass'[v] = pass[v]
  BY <1>3, <1>4, Moves DEF RolloutInv
<1>6. /\ changed' \in [Positions -> Nat] /\ \A j \in Positions \ {i} : changed'[j] = changed[j]
      /\ changed'[i] \in {0, 1} /\ (result = "SKIPPED" => changed'[i] = 0)
  BY <1>1, <1>2 DEF RolloutInv, RolloutTypeOK
<1>7. RolloutTypeOK'
  BY <1>1, <1>5, <1>6 DEF RolloutInv, RolloutTypeOK, PassRows
<1>8. TargetsInv'
  BY <1>1, <1>5, <1>6 DEF RolloutInv, TargetsInv
<1>9. ClaimsInv'
  <2>1. ASSUME NEW v \in RolloutWorkers
        PROVE  HoldsRightly(v)'
    <3>1. CASE v = w
      BY <1>1, <1>5, <1>6, <3>1 DEF CanaryPassed, Busy, HoldsRightly
    <3>2. CASE v # w
      <4>1. pass[v].pc \in Busy => pass[v].at # i
        BY <1>1, <3>2 DEF RolloutInv, ClaimsInv, HoldsRightly, Busy
      <4> QED  BY <1>1, <1>5, <1>6, <3>2, <4>1 DEF RolloutInv, ClaimsInv, HoldsRightly, CanaryPassed, Busy
    <3> QED  BY <3>1, <3>2
  <2>2. ASSUME NEW u \in RolloutWorkers, NEW v \in RolloutWorkers, u # v,
               pass'[u].pc \in Busy, pass'[v].pc \in Busy
        PROVE  pass'[u].at # pass'[v].at
    BY <1>1, <1>5, <2>2 DEF RolloutInv, ClaimsInv, HoldsRightly, Busy
  <2> QED  BY <2>1, <2>2 DEF ClaimsInv
<1>10. CanaryGoesFirst'
  <2> SUFFICES ASSUME NEW j \in Positions
               PROVE  /\ changed'[j] <= 1
                      /\ canaryFirst' /\ j > 1 /\ changed'[j] > 0 => target'[1] \in {"SUCCEEDED", "SKIPPED"}
                      /\ target'[j] = "SKIPPED" => changed'[j] = 0
    BY DEF CanaryGoesFirst
  <2>1. CASE j = i
    BY <1>1, <1>6, <2>1, RolloutAssumption DEF CanaryPassed, Positions
  <2>2. CASE j # i
    BY <1>1, <1>6, <2>2 DEF RolloutInv, CanaryGoesFirst
  <2> QED  BY <2>1, <2>2
<1> QED  BY <1>7, <1>8, <1>9, <1>10 DEF RolloutInv

LEMMA RecordInv == ASSUME RolloutInv, NEW w \in RolloutWorkers, recordResult(w) PROVE RolloutInv'
<1> DEFINE i == pass[w].at
<1>1. /\ pass[w].pc = "record" /\ i \in Positions /\ rollout # "NONE"
      /\ target[i] \in {"RUNNING", "FAILED"} /\ (pass[w].result = "SKIPPED" => changed[i] = 0)
      /\ target' = [target EXCEPT ![i] = pass[w].result] /\ overdue' = overdue \ {i}
      /\ UNCHANGED <<canaryFirst, rollout, changed, cancelling, deaths>>
      /\ pass[w].result \in {"SUCCEEDED", "FAILED", "SKIPPED"}
  BY DEF recordResult, RolloutInv, RolloutTypeOK, TargetsInv, ClaimsInv, HoldsRightly, Busy
<1>2. PICK pc \in {"look", "count"} : pass' = [pass EXCEPT ![w].pc = pc]
  BY DEF recordResult
<1>3. /\ pass' \in [RolloutWorkers -> PassRows] /\ pass'[w].pc = pc
      /\ \A v \in RolloutWorkers \ {w} : pass'[v] = pass[v]
  BY <1>2, MovesTo DEF RolloutInv
<1>4. /\ target' \in [Positions -> {"PENDING", "RUNNING", "SUCCEEDED", "FAILED", "SKIPPED"}]
      /\ target'[i] = pass[w].result /\ \A j \in Positions \ {i} : target'[j] = target[j]
  BY <1>1 DEF RolloutInv, RolloutTypeOK
<1>5. RolloutTypeOK'
  BY <1>1, <1>3, <1>4 DEF RolloutInv, RolloutTypeOK, PassRows
<1>6. TargetsInv'
  BY <1>1, <1>3, <1>4 DEF RolloutInv, TargetsInv, RolloutTypeOK
<1>7. CanaryPassed => CanaryPassed'
  BY <1>1, <1>4, One DEF CanaryPassed
<1>8. target[1] = "FAILED" => CanaryPassed' \/ target'[1] = "FAILED"
  BY <1>1, <1>4, One DEF CanaryPassed
<1>9. ClaimsInv'
  <2>1. ASSUME NEW v \in RolloutWorkers
        PROVE  HoldsRightly(v)'
    <3>1. CASE v = w
      BY <1>3, <3>1 DEF Busy, HoldsRightly
    <3>2. CASE v # w
      <4>1. pass[v].pc \in Busy => pass[v].at # i
        BY <1>1, <3>2 DEF RolloutInv, ClaimsInv, HoldsRightly, Busy
      <4> QED  BY <1>1, <1>3, <1>4, <1>7, <1>8, <3>2, <4>1 DEF RolloutInv, ClaimsInv, HoldsRightly, Busy
    <3> QED  BY <3>1, <3>2
  <2>2. ASSUME NEW u \in RolloutWorkers, NEW v \in RolloutWorkers, u # v,
               pass'[u].pc \in Busy, pass'[v].pc \in Busy
        PROVE  pass'[u].at # pass'[v].at
    BY <1>3, <2>2 DEF RolloutInv, ClaimsInv, HoldsRightly, Busy
  <2> QED  BY <2>1, <2>2 DEF ClaimsInv
<1>10. CanaryGoesFirst'
  BY <1>1, <1>4, <1>7 DEF RolloutInv, CanaryGoesFirst, CanaryPassed
<1> QED  BY <1>5, <1>6, <1>9, <1>10 DEF RolloutInv

LEMMA RolloutInductive == RolloutSpec => []RolloutInv
<1>1. RolloutInv /\ [RolloutNext]_rolloutVars => RolloutInv'
  <2> SUFFICES ASSUME RolloutInv, [RolloutNext]_rolloutVars PROVE RolloutInv'
    OBVIOUS
  <2>1. CASE UNCHANGED rolloutVars
    BY <2>1 DEF rolloutVars, RolloutInv, RolloutTypeOK, TargetsInv, ClaimsInv, HoldsRightly, CanaryPassed, CanaryGoesFirst
  <2>2. CASE RolloutNext
    BY <2>2, CreateRolloutInv, CancelInv, CancelledInv, QuarterHourInv, CloseInv, TakeInv, LookInv,
       ClaimInv, UpdateInv, RecordInv, CompleteRolloutInv, DiesInv DEF RolloutNext, PassStep
  <2> QED  BY <2>1, <2>2
<1> QED  BY <1>1, InitRollout, PTL DEF RolloutSpec

\* The rollout, its targets and the passes keep the values of their columns.
THEOREM RolloutTyped == RolloutSpec => []RolloutTypeOK
  BY RolloutInductive, PTL DEF RolloutInv

\* However many passes overlap, die or are given up while they work, a router is updated
\* once at most, the rest only after the canary passed, and a skipped one was left alone
\* (handleRouterRollouts).
THEOREM UpdatesOnceAfterCanary == RolloutSpec => []CanaryGoesFirst
  BY RolloutInductive, PTL DEF RolloutInv
===============================================================================
