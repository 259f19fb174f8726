-------------------------- MODULE SubscriptionProofs --------------------------
(***************************************************************************)
(* Proofs about what a customer and what an ISP subscribe to, for every    *)
(* number of plans, invoices, renewals, requests and days.                 *)
(***************************************************************************)
EXTENDS MCSubscription, PaymentsProofs, SequenceTheorems

-------------------------------------------------------------------------------
(* Subscription: no sweep or request brings back a plan that was cancelled. *)

Steps == {"renew", "cutOff", "reconnect", "switchOff", "undo", "stamp", "resume", "activate",
          "suspend", "cancel", "extend"}

\* The rows, whatever values (D) their dates have.
ServiceRows(D) == [status : {"ACTIVE", "SUSPENDED", "CANCELLED"}, autoRenew : BOOLEAN,
                   nextBillingAt : D, pausedUntil : D]

ActorRows(D) == [pc : Steps \cup {"idle"}, svc : D, row : D, days : D]

ServicesTyped == \E D : service \in [Services -> ServiceRows(D)]

\* One request or sweep at a time works on a plan, and one that will write a status
\* without another look works on a plan that is not cancelled.
ActorsInv ==
    /\ \E D : actor \in [Actors -> ActorRows(D)]
    /\ \A a, b \in Actors : actor[a].pc # "idle" /\ actor[b].pc # "idle" => a = b
    /\ \A a \in Actors : actor[a].pc # "idle" => actor[a].svc \in Services
    /\ \A a \in Actors : actor[a].pc \in {"reconnect", "activate", "suspend"} =>
           service[actor[a].svc].status # "CANCELLED"

CancelInv == ServicesTyped /\ ActorsInv

StayCancelled == \A s \in Services : service[s].status = "CANCELLED" => service'[s].status = "CANCELLED"

LEMMA InitCancel == Init => CancelInv
<1> SUFFICES ASSUME Init PROVE CancelInv
  OBVIOUS
<1>1. service \in [Services -> ServiceRows({0, Cycle})]
  <2>1. [NewService EXCEPT !.nextBillingAt = Cycle] \in ServiceRows({0, Cycle})
    BY DEF NewService, ServiceRows
  <2> QED  BY <2>1 DEF Init
<1>2. actor \in [Actors -> ActorRows({0, NoService, NewService})] /\ \A a \in Actors : actor[a].pc = "idle"
  <2>1. Free \in ActorRows({0, NoService, NewService}) /\ Free.pc = "idle"
    BY DEF Free, ActorRows
  <2> QED  BY <2>1 DEF Init
<1> QED  BY <1>1, <1>2 DEF CancelInv, ServicesTyped, ActorsInv

\* While requests do not overlap, what begins is alone.
LEMMA BeginInv ==
  ASSUME CancelInv, ~Overlap, NEW a \in Actors, NEW s \in Services, NEW pc \in Steps, NEW days,
         Begins(a, s, pc, days),
         pc \in {"reconnect", "activate", "suspend"} => service[s].status # "CANCELLED"
  PROVE  CancelInv' /\ StayCancelled
<1> DEFINE entry == [pc |-> pc, svc |-> s, row |-> service[s], days |-> days]
<1>1. /\ \A b \in Actors : actor[b].pc = "idle"
      /\ actor' = [actor EXCEPT ![a] = entry]
      /\ service' = service
  BY DEF Begins, paymentVars, accountVars
<1>2. PICK D : actor \in [Actors -> ActorRows(D)]
  BY DEF CancelInv, ActorsInv
<1>3. actor' \in [Actors -> ActorRows(D \cup {s, service[s], days})]
  <2>1. \A row \in ActorRows(D) : row \in ActorRows(D \cup {s, service[s], days})
    BY DEF ActorRows
  <2>2. entry \in ActorRows(D \cup {s, service[s], days})
    BY DEF ActorRows
  <2> QED  BY <1>1, <1>2, <2>1, <2>2
<1>4. /\ actor'[a].pc = pc /\ actor'[a].svc = s
      /\ \A b \in Actors \ {a} : actor'[b].pc = "idle"
  BY <1>1, <1>2
<1>5. ActorsInv'
  BY <1>1, <1>3, <1>4 DEF ActorsInv
<1> QED  BY <1>1, <1>5 DEF CancelInv, ServicesTyped, StayCancelled

\* What was begun goes on, or ends.
LEMMA ContinueInv ==
  ASSUME CancelInv, NEW a \in Actors, actor[a].pc # "idle", ServicesTyped',
         \/ Ends(a)
         \/ \E pc \in Steps :
              /\ Goes(a, pc)
              /\ pc \in {"reconnect", "activate", "suspend"} => service'[actor[a].svc].status # "CANCELLED"
  PROVE  CancelInv'
<1>1. PICK D : actor \in [Actors -> ActorRows(D)]
  BY DEF CancelInv, ActorsInv
<1>2. \A b \in Actors \ {a} : actor[b].pc = "idle"
  BY DEF CancelInv, ActorsInv
<1>3. actor[a].svc \in Services
  BY DEF CancelInv, ActorsInv
<1>4. CASE Ends(a)
  <2>1. Free.pc = "idle"
    BY DEF Free
  <2>2. actor' \in [Actors -> ActorRows(D \cup {0, NoService, NewService})]
    <3>1. \A row \in ActorRows(D) : row \in ActorRows(D \cup {0, NoService, NewService})
      BY DEF ActorRows
    <3>2. Free \in ActorRows(D \cup {0, NoService, NewService})
      BY DEF ActorRows, Free
    <3> QED  BY <1>1, <1>4, <3>1, <3>2 DEF Ends
  <2>3. \A b \in Actors : actor'[b].pc = "idle"
    BY <1>1, <1>2, <1>4, <2>1 DEF Ends
  <2> QED  BY <2>2, <2>3 DEF CancelInv, ActorsInv
<1>5. ASSUME NEW pc \in Steps, Goes(a, pc),
             pc \in {"reconnect", "activate", "suspend"} => service'[actor[a].svc].status # "CANCELLED"
      PROVE  CancelInv'
  <2>1. /\ actor' \in [Actors -> ActorRows(D)]
        /\ actor'[a].pc = pc /\ actor'[a].svc = actor[a].svc
        /\ \A b \in Actors \ {a} : actor'[b] = actor[b]
    BY <1>1, <1>5 DEF Goes, ActorRows
  <2> QED  BY <1>2, <1>3, <1>5, <2>1 DEF CancelInv, ActorsInv
<1> QED  BY <1>4, <1>5

\* One row changes: its status, or its dates.
LEMMA StatusWritten ==
  ASSUME ServicesTyped, NEW s \in Services, NEW status \in {"ACTIVE", "SUSPENDED"}, SetStatus(s, status)
  PROVE  ServicesTyped' /\ service'[s].status = status /\ \A r \in Services \ {s} : service'[r] = service[r]
<1>1. PICK D : service \in [Services -> ServiceRows(D)]
  BY DEF ServicesTyped
<1>2. service' \in [Services -> ServiceRows(D)] /\ service'[s].status = status
      /\ \A r \in Services \ {s} : service'[r] = service[r]
  BY <1>1 DEF SetStatus, ServiceRows
<1> QED  BY <1>2 DEF ServicesTyped

LEMMA DatesWritten ==
  ASSUME ServicesTyped, NEW s \in Services, NEW next, NEW until,
         \/ service' = [service EXCEPT ![s].nextBillingAt = next]
         \/ service' = [service EXCEPT ![s].pausedUntil = until, ![s].nextBillingAt = next]
  PROVE  ServicesTyped' /\ \A r \in Services : service'[r].status = service[r].status
<1>1. PICK D : service \in [Services -> ServiceRows(D)]
  BY DEF ServicesTyped
<1>2. \A r \in Services : service[r] \in ServiceRows(D \cup {next, until})
  BY <1>1 DEF ServiceRows
<1>3. service' \in [Services -> ServiceRows(D \cup {next, until})]
      /\ \A r \in Services : service'[r].status = service[r].status
  BY <1>1, <1>2 DEF ServiceRows
<1> QED  BY <1>3 DEF ServicesTyped

LEMMA BusyWithPlan == ASSUME CancelInv, NEW a \in Actors, actor[a].pc # "idle" PROVE actor[a].svc \in Services
  BY DEF CancelInv, ActorsInv

\* The rows are as they were.
LEMMA SameRows == ASSUME CancelInv, UNCHANGED service PROVE ServicesTyped' /\ StayCancelled
  BY DEF CancelInv, ServicesTyped, StayCancelled

LEMMA PauseStepInv ==
  ASSUME CancelInv, NEW a \in Actors, switchOff(a) \/ radiusFails(a) \/ undoSwitchOff(a) \/ stampPause(a)
  PROVE  CancelInv' /\ StayCancelled
<1> DEFINE s == actor[a].svc
<1>1. actor[a].pc # "idle" /\ s \in Services
  BY BusyWithPlan DEF switchOff, radiusFails, undoSwitchOff, stampPause
<1>2. CASE switchOff(a)
  <2>1. CASE service[s].status = "ACTIVE"
    <3>1. SetStatus(s, "SUSPENDED") /\ Goes(a, "stamp")
      BY <1>2, <2>1 DEF switchOff
    <3>2. ServicesTyped' /\ StayCancelled
      BY <1>1, <2>1, <3>1, StatusWritten DEF CancelInv, StayCancelled
    <3> QED  BY <1>1, <3>1, <3>2, ContinueInv DEF Steps
  <2>2. CASE service[s].status # "ACTIVE"
    <3>1. UNCHANGED service /\ Goes(a, "undo")
      BY <1>2, <2>2 DEF switchOff
    <3> QED  BY <1>1, <3>1, SameRows, ContinueInv DEF Steps
  <2> QED  BY <2>1, <2>2
<1>3. CASE radiusFails(a)
  <2>1. UNCHANGED service /\ Goes(a, "undo")
    BY <1>3 DEF radiusFails, paymentVars, accountVars
  <2> QED  BY <1>1, <2>1, SameRows, ContinueInv DEF Steps
<1>4. CASE undoSwitchOff(a)
  <2>1. Ends(a) /\ (UNCHANGED service \/ (service[s].status = "SUSPENDED" /\ SetStatus(s, "ACTIVE")))
    BY <1>4 DEF undoSwitchOff
  <2>2. ServicesTyped' /\ StayCancelled
    BY <1>1, <2>1, SameRows, StatusWritten DEF CancelInv, StayCancelled
  <2> QED  BY <1>1, <2>1, <2>2, ContinueInv
<1>5. CASE stampPause(a)
  <2> DEFINE until == today + actor[a].days
             next == actor[a].row.nextBillingAt + actor[a].days
  <2>1. Ends(a) /\ service' = [service EXCEPT ![s].pausedUntil = until, ![s].nextBillingAt = next]
    BY <1>5 DEF stampPause
  <2> HIDE DEF until, next
  <2>2. ServicesTyped' /\ StayCancelled
    BY <1>1, <2>1, DatesWritten DEF CancelInv, StayCancelled
  <2> QED  BY <1>1, <2>1, <2>2, ContinueInv
<1> QED  BY <1>2, <1>3, <1>4, <1>5

LEMMA ResumeStepInv ==
  ASSUME CancelInv, NEW a \in Actors, endPause(a) \/ moveDates(a)
  PROVE  CancelInv' /\ StayCancelled
<1> DEFINE s == actor[a].svc
<1>1. actor[a].pc # "idle" /\ s \in Services
  BY BusyWithPlan DEF endPause, moveDates
<1>2. /\ \E next, until :
            \/ service' = [service EXCEPT ![s].nextBillingAt = next]
            \/ service' = [service EXCEPT ![s].pausedUntil = until, ![s].nextBillingAt = next]
      /\ Ends(a) \/ (Goes(a, "activate") /\ service[s].status = "SUSPENDED")
  <2>1. CASE endPause(a)
    BY <2>1 DEF endPause
  <2>2. CASE moveDates(a)
    BY <2>2 DEF moveDates
  <2> QED  BY <2>1, <2>2
<1>3. ServicesTyped' /\ \A r \in Services : service'[r].status = service[r].status
  BY <1>1, <1>2, DatesWritten DEF CancelInv
<1>4. StayCancelled
  BY <1>3 DEF StayCancelled
<1>5. "activate" \in Steps
  BY DEF Steps
<1> QED  BY <1>1, <1>2, <1>3, <1>4, <1>5, ContinueInv

\* The status that was decided on is written without another look.
LEMMA WriteStatusInv ==
  ASSUME CancelInv, NEW a \in Actors, writeStatus(a)
  PROVE  CancelInv' /\ StayCancelled
<1> DEFINE s == actor[a].svc
<1>1. actor[a].pc # "idle" /\ s \in Services /\ Ends(a)
  BY BusyWithPlan DEF writeStatus
<1>2. CASE actor[a].pc \in {"activate", "suspend"}
  <2>1. service[s].status # "CANCELLED"
    BY <1>2 DEF CancelInv, ActorsInv
  <2>2. SetStatus(s, "ACTIVE") \/ SetStatus(s, "SUSPENDED")
    BY <1>2 DEF writeStatus
  <2>3. ServicesTyped' /\ StayCancelled
    BY <1>1, <2>1, <2>2, StatusWritten DEF CancelInv, StayCancelled
  <2> QED  BY <1>1, <2>3, ContinueInv
<1>3. CASE actor[a].pc = "cancel"
  <2>1. service' = [service EXCEPT ![s].status = "CANCELLED", ![s].autoRenew = FALSE]
    BY <1>3 DEF writeStatus
  <2>2. PICK D : service \in [Services -> ServiceRows(D)]
    BY DEF CancelInv, ServicesTyped
  <2>3. service' \in [Services -> ServiceRows(D)] /\ service'[s].status = "CANCELLED"
        /\ \A r \in Services \ {s} : service'[r] = service[r]
    BY <1>1, <2>1, <2>2 DEF ServiceRows
  <2>4. ServicesTyped' /\ StayCancelled
    BY <2>3 DEF ServicesTyped, StayCancelled
  <2> QED  BY <1>1, <2>4, ContinueInv
<1> QED  BY <1>2, <1>3 DEF writeStatus

LEMMA SweepStepInv ==
  ASSUME CancelInv, createRenewalInvoice \/ cutOff \/ reconnect
  PROVE  CancelInv' /\ StayCancelled
<1> DEFINE s == actor[Sweeper].svc
<1>1. Sweeper \in Actors /\ actor[Sweeper].pc # "idle" /\ s \in Services /\ Ends(Sweeper)
  <2>1. Sweeper \in Actors
    BY DEF Actors
  <2> QED  BY <2>1, BusyWithPlan DEF createRenewalInvoice, cutOff, reconnect
<1>2. ServicesTyped' /\ StayCancelled
  <2>1. CASE createRenewalInvoice
    <3> DEFINE next == billedUntil(actor[Sweeper].row)
    <3>1. service' = [service EXCEPT ![s].nextBillingAt = next]
      BY <2>1 DEF createRenewalInvoice
    <3> HIDE DEF next
    <3> QED  BY <1>1, <3>1, DatesWritten DEF CancelInv, StayCancelled
  <2>2. CASE cutOff
    <3>1. UNCHANGED service \/ (service[s].status = "ACTIVE" /\ SetStatus(s, "SUSPENDED"))
      BY <2>2 DEF cutOff
    <3> QED  BY <1>1, <3>1, SameRows, StatusWritten DEF CancelInv, StayCancelled
  <2>3. CASE reconnect
    <3>1. UNCHANGED service \/ SetStatus(s, "ACTIVE")
      BY <2>3 DEF reconnect
    <3>2. service[s].status # "CANCELLED"
      BY <1>1, <2>3 DEF reconnect, CancelInv, ActorsInv
    <3> QED  BY <1>1, <3>1, <3>2, SameRows, StatusWritten DEF CancelInv, StayCancelled
  <2> QED  BY <2>1, <2>2, <2>3
<1> QED  BY <1>1, <1>2, ContinueInv

LEMMA CrashStepInv == ASSUME CancelInv, NEW a \in Actors, crash(a) PROVE CancelInv' /\ StayCancelled
<1>1. actor[a].pc # "idle" /\ Ends(a) /\ UNCHANGED service
  BY DEF crash, paymentVars, accountVars
<1> QED  BY <1>1, SameRows, ContinueInv

\* Sweeps and requests look at the status before they begin.
LEMMA BeginsInv ==
  ASSUME CancelInv, ~Overlap, NEW s \in Services,
         Sweeping(s) \/ \E a \in Staff : Asking(a, s)
  PROVE  CancelInv' /\ StayCancelled
<1>1. PICK a \in Actors, pc \in Steps, days \in {0} \cup PauseDays :
        Begins(a, s, pc, days)
        /\ (pc \in {"reconnect", "activate", "suspend"} => service[s].status # "CANCELLED")
  <2>1. CASE Sweeping(s)
    <3>1. Sweeper \in Actors
      BY DEF Actors
    <3> QED  BY <2>1, <3>1 DEF Sweeping, generateDueRenewalInvoices, suspendOverdueSubscriptions,
               reactivateClearedSubscriptions, resumeSubscription, Steps
  <2>2. ASSUME NEW a \in Staff, Asking(a, s)
        PROVE  \E pc \in Steps, days \in {0} \cup PauseDays :
                 Begins(a, s, pc, days)
                 /\ (pc \in {"reconnect", "activate", "suspend"} => service[s].status # "CANCELLED")
    BY <2>2 DEF Asking, pauseSubscription, extendSubscription, resumeSubscription,
       reactivateSubscription, suspendSubscription, cancelSubscription, Steps
  <2> QED  BY <2>1, <2>2 DEF Actors
<1> QED  BY <1>1, BeginInv

\* A payment makes the plans ACTIVE that it listed, and writes no other plan.
LEMMA PayingServices ==
  ASSUME Paying
  PROVE  service' = service \/ \E w \in Workers : commitPayment(w) /\ service' = reactivated(worker[w].plans)
<1>1. ASSUME NEW w \in Workers, Request(w) PROVE service' = service
  BY <1>1 DEF Request, recordPaymentForInvoice, topUpWallet, refundPayment, matchPayment,
     voidInvoice, Starts, accountVars
<1>2. ASSUME NEW w \in Workers, Commit(w), ~commitPayment(w) PROVE service' = service
  BY <1>2 DEF Commit, countUnpaid, listSuspended, commitTopUp, readInvoiceToReverse, commitReversal,
     commitMatch, commitVoid, rollback, accountVars
<1>3. ASSUME NEW w \in Workers, commitPayment(w) PROVE service' = reactivated(worker[w].plans)
  BY <1>3 DEF commitPayment
<1> QED  BY <1>1, <1>2, <1>3 DEF Paying

\* It cancels none.
LEMMA PayingInv ==
  ASSUME CancelInv, Paying, UNCHANGED planVars
  PROVE  CancelInv'
<1>1. PICK D : service \in [Services -> ServiceRows(D)]
  BY DEF CancelInv, ServicesTyped
<1>2. service' = service \/ \E plans : service' = reactivated(plans)
  BY PayingServices
<1>3. service' \in [Services -> ServiceRows(D)]
      /\ \A s \in Services : service[s].status # "CANCELLED" => service'[s].status # "CANCELLED"
  <2>1. ASSUME NEW s \in Services
        PROVE  [service[s] EXCEPT !.status = "ACTIVE"] \in ServiceRows(D)
               /\ [service[s] EXCEPT !.status = "ACTIVE"].status = "ACTIVE"
    BY <1>1 DEF ServiceRows
  <2> QED  BY <1>1, <1>2, <2>1 DEF reactivated
<1>4. UNCHANGED actor
  BY DEF planVars
<1> QED  BY <1>3, <1>4 DEF CancelInv, ServicesTyped, ActorsInv

LEMMA CancelStep ==
  ASSUME CancelInv, ~Overlap, [Next]_vars
  PROVE  CancelInv' /\ ((StayCancelled /\ UNCHANGED worker) \/ Paying)
<1>1. ASSUME UNCHANGED <<service, actor>> PROVE CancelInv' /\ StayCancelled
  BY <1>1 DEF CancelInv, ServicesTyped, ActorsInv, StayCancelled
<1>2. CASE UNCHANGED vars
  BY <1>1, <1>2 DEF vars, paymentVars, accountVars, planVars
<1>3. CASE dayPasses
  BY <1>1, <1>3 DEF dayPasses, paymentVars, accountVars
<1>4. CASE \E i \in Invoices : markOverdue(i)
  BY <1>1, <1>4 DEF markOverdue, markOverdueInvoices, planVars
<1>5. CASE \E s \in Services : Sweeping(s) \/ \E a \in Staff : Asking(a, s)
  <2>1. UNCHANGED worker
    BY <1>5 DEF Sweeping, Asking, Begins, paymentVars, generateDueRenewalInvoices,
       suspendOverdueSubscriptions, reactivateClearedSubscriptions, resumeSubscription,
       pauseSubscription, extendSubscription, reactivateSubscription, suspendSubscription,
       cancelSubscription
  <2> QED  BY <1>5, <2>1, BeginsInv
<1>6. CASE \E a \in Actors : Continuing(a) \/ crash(a)
  <2>1. UNCHANGED worker
    BY <1>6 DEF Continuing, switchOff, undoSwitchOff, stampPause, radiusFails, endPause, writeStatus,
       moveDates, createRenewalInvoice, cutOff, reconnect, crash, paymentVars
  <2> QED  BY <1>6, <2>1, PauseStepInv, ResumeStepInv, WriteStatusInv, SweepStepInv, CrashStepInv
       DEF Continuing
<1>7. CASE Paying /\ UNCHANGED planVars
  BY <1>7, PayingInv
<1> QED  BY <1>2, <1>3, <1>4, <1>5, <1>6, <1>7 DEF Next

\* A payment that has listed plans is about to make them ACTIVE.
ListedInv == \A w \in Workers : worker[w].plans # {} => worker[w].pc = "restore"

RevivesListed ==
    \A s \in Services : service[s].status = "CANCELLED" =>
        /\ \A w \in Workers : s \in worker'[w].plans => s \in worker[w].plans
        /\ \/ service'[s].status = "CANCELLED"
           \/ \E w \in Workers : worker[w].pc = "restore" /\ s \in worker[w].plans

\* The plans that a request has listed, after each of its steps.
LEMMA PlansAfter ==
  ASSUME AccountInv, ListedInv, NEW w \in Workers, Request(w) \/ Commit(w)
  PROVE  /\ \A v \in Workers \ {w} : worker'[v] = worker[v]
         /\ \/ worker'[w].plans = {}
            \/ worker'[w].plans = Suspended /\ worker'[w].pc = "restore"
<1>0. worker \in [Workers -> WorkerRecords] /\ worker[w] \in WorkerRecords
  BY InvInParts DEF WorkersOK
<1>1. \A v \in Workers \ {w} : worker'[v] = worker[v]
  BY OneWorker
<1>2. ASSUME Request(w) PROVE worker'[w].plans = {}
  <2>1. \E r : worker' = [worker EXCEPT ![w] = r] /\ r.plans = {}
    <3>1. ASSUME NEW pc, NEW k, NEW i, NEW method, NEW amount, NEW seen,
                 Starts(w, Task(pc, k, i, method, amount, seen))
          PROVE  \E r : worker' = [worker EXCEPT ![w] = r] /\ r.plans = {}
      <4> DEFINE r == Task(pc, k, i, method, amount, seen)
      <4>1. r.plans = {}
        BY DEF Task
      <4>2. worker' = [worker EXCEPT ![w] = r]
        BY <3>1 DEF Starts
      <4> HIDE DEF r
      <4> QED BY <4>1, <4>2
    <3> QED BY <1>2, <3>1, RequestStarts
  <2> QED BY <1>0, <2>1
<1>3. ASSUME Rests(w) PROVE worker'[w].plans = {}
  <2>1. Resting.plans = {}
    BY DEF Resting, Task
  <2> QED BY <1>0, <1>3, <2>1 DEF Rests
<1>4. CASE countUnpaid(w)
  <2>1. PICK next : worker' = [worker EXCEPT ![w].pc = next]
    BY <1>4 DEF countUnpaid
  <2>2. worker'[w].plans = worker[w].plans
    BY <1>0, <2>1 DEF WorkerRecords
  <2> QED BY <1>1, <1>4, <2>2 DEF countUnpaid, ListedInv
<1>5. CASE listSuspended(w)
  <2>1. worker'[w].plans = Suspended /\ worker'[w].pc = "restore"
    BY <1>0, <1>5 DEF listSuspended, WorkerRecords
  <2> QED BY <1>1, <2>1
<1>6. CASE readInvoiceToReverse(w)
  <2>1. PICK r : worker' = [worker EXCEPT ![w] = r] /\ r.plans = {}
    <3> DEFINE me == worker[w]
               seen == IF me.invoice = NoInvoice THEN NotIssued ELSE invoice[me.invoice]
               r == Task("unapply", me.key, me.invoice, me.method, me.amount, seen)
    <3>1. r.plans = {}
      BY DEF Task
    <3>2. worker' = [worker EXCEPT ![w] = r]
      BY <1>6 DEF readInvoiceToReverse
    <3> HIDE DEF r
    <3> QED BY <3>1, <3>2
  <2> QED BY <1>0, <1>1, <2>1
<1> QED BY <1>1, <1>2, <1>3, <1>4, <1>5, <1>6
  DEF Commit, commitPayment, commitTopUp, commitReversal, commitMatch, commitVoid, rollback

\* A payment lists what is suspended and revives what it listed.
LEMMA PayingLists ==
  ASSUME AccountInv, ListedInv, Paying
  PROVE  ListedInv' /\ RevivesListed
<1>1. PICK w \in Workers : Request(w) \/ Commit(w)
  BY DEF Paying
<1>2. /\ \A v \in Workers \ {w} : worker'[v] = worker[v]
      /\ \/ worker'[w].plans = {}
         \/ worker'[w].plans = Suspended /\ worker'[w].pc = "restore"
  BY <1>1, PlansAfter
<1>3. ListedInv'
  BY <1>2 DEF ListedInv
<1>4. ASSUME NEW s \in Services, service[s].status = "CANCELLED"
      PROVE  \A v \in Workers : s \in worker'[v].plans => s \in worker[v].plans
  BY <1>2, <1>4 DEF Suspended
<1>5. ASSUME NEW s \in Services, service[s].status = "CANCELLED", service'[s].status # "CANCELLED"
      PROVE  \E v \in Workers : worker[v].pc = "restore" /\ s \in worker[v].plans
  <2>1. PICK v \in Workers : service' = reactivated(worker[v].plans)
    BY <1>5, PayingServices
  <2>2. s \in worker[v].plans
    BY <1>5, <2>1 DEF reactivated
  <2> QED  BY <2>2 DEF ListedInv
<1> QED  BY <1>3, <1>4, <1>5 DEF RevivesListed

-------------------------------------------------------------------------------
(* Subscription: the billing date, and the values of the tables. *)

PauseRecords == [days : Nat, startsAt : Nat, resumed : BOOLEAN]

\* The days of a subscription's pauses, of which usedDays is the sum.
DaysIn(P) == SumFunctionOnSet([k \in DOMAIN P |-> P[k].days], DOMAIN P)

LEMMA PausesListed ==
  ASSUME NEW P \in Seq(PauseRecords)
  PROVE  /\ DOMAIN P = 1..Len(P) /\ Len(P) \in Nat /\ IsFiniteSet(DOMAIN P)
         /\ \A k \in DOMAIN P : P[k] \in PauseRecords /\ P[k].days \in Nat /\ P[k].startsAt \in Nat
<1>1. Len(P) \in Nat /\ DOMAIN P = 1..Len(P)
  OBVIOUS
<1>2. IsFiniteSet(1..Len(P))
  BY <1>1, FS_Interval
<1>3. \A k \in DOMAIN P : P[k] \in PauseRecords
  OBVIOUS
<1> QED  BY <1>1, <1>2, <1>3 DEF PauseRecords

LEMMA DaysAreNumber == ASSUME NEW P \in Seq(PauseRecords) PROVE DaysIn(P) \in Nat
<1> DEFINE f == [k \in DOMAIN P |-> P[k].days]
<1>1. \A k \in DOMAIN P : f[k] \in Nat
  BY PausesListed
<1> HIDE DEF f
<1>2. SumFunctionOnSet(f, DOMAIN P) \in Nat
  BY <1>1, PausesListed, SumNat
<1> QED  BY <1>2 DEF DaysIn, f

LEMMA DaysNone == DaysIn(<<>>) = 0
<1> DEFINE f == [k \in DOMAIN <<>> |-> <<>>[k].days]
<1>1. DOMAIN <<>> = {}
  OBVIOUS
<1>2. DaysIn(<<>>) = SumFunctionOnSet(f, DOMAIN <<>>)
  BY DEF DaysIn
<1> HIDE DEF f
<1> QED  BY <1>1, <1>2, SumEmpty

\* A new pause adds its days.
LEMMA DaysAppended ==
  ASSUME NEW P \in Seq(PauseRecords), NEW e \in PauseRecords
  PROVE  DaysIn(Append(P, e)) = DaysIn(P) + e.days
<1> DEFINE Q == Append(P, e)
           n == Len(P) + 1
           f == [k \in DOMAIN P |-> P[k].days]
           h == [k \in DOMAIN Q |-> Q[k].days]
<1>1. Q \in Seq(PauseRecords) /\ Len(Q) = n /\ Q[n] = e /\ \A k \in 1..Len(P) : Q[k] = P[k]
  OBVIOUS
<1>2. /\ DOMAIN P = 1..Len(P) /\ Len(P) \in Nat /\ IsFiniteSet(DOMAIN P)
      /\ DOMAIN Q = DOMAIN P \cup {n} /\ n \notin DOMAIN P
  <2>1. DOMAIN Q = 1..n
    BY <1>1
  <2> QED  BY <2>1, PausesListed
<1>3. \A k \in DOMAIN Q : Q[k].days \in Nat
  BY <1>1, PausesListed
<1>4. DaysIn(P) = SumFunctionOnSet(f, DOMAIN P) /\ DaysIn(Q) = SumFunctionOnSet(h, DOMAIN Q)
  BY DEF DaysIn
<1>5. /\ \A k \in DOMAIN P : f[k] = h[k] /\ f[k] \in Int
      /\ \A k \in DOMAIN P \cup {n} : h[k] \in Int
      /\ h[n] = e.days
  BY <1>1, <1>2, <1>3
<1> HIDE DEF f, h
<1>6. SumFunctionOnSet(h, DOMAIN P \cup {n}) = h[n] + SumFunctionOnSet(h, DOMAIN P)
  <2> HIDE DEF n
  <2> QED  BY <1>2, <1>5, SumAdd
<1>7. SumFunctionOnSet(f, DOMAIN P) = SumFunctionOnSet(h, DOMAIN P)
  BY <1>2, <1>5, SumSame
<1>8. DaysIn(P) \in Nat /\ e.days \in Nat
  BY DaysAreNumber DEF PauseRecords
<1>9. DaysIn(Q) = SumFunctionOnSet(h, DOMAIN P \cup {n})
  BY <1>2, <1>4
<1> HIDE DEF Q, n
<1>10. DaysIn(Q) = e.days + DaysIn(P)
  BY <1>4, <1>5, <1>6, <1>7, <1>9
<1> QED  BY <1>8, <1>10 DEF Q

\* A pause that is shortened is one of the days counted.
LEMMA DaysShortened ==
  ASSUME NEW P \in Seq(PauseRecords), NEW k \in DOMAIN P, NEW e \in PauseRecords
  PROVE  /\ [P EXCEPT ![k] = e] \in Seq(PauseRecords)
         /\ DaysIn([P EXCEPT ![k] = e]) = DaysIn(P) - P[k].days + e.days
         /\ P[k].days \in Nat /\ P[k].days <= DaysIn(P)
<1> DEFINE Q == [P EXCEPT ![k] = e]
           f == [j \in DOMAIN P |-> P[j].days]
           h == [j \in DOMAIN P |-> Q[j].days]
<1>1. Q \in Seq(PauseRecords) /\ DOMAIN Q = DOMAIN P
  OBVIOUS
<1>2. Q[k] = e /\ \A j \in DOMAIN P \ {k} : Q[j] = P[j]
  OBVIOUS
<1>3. IsFiniteSet(DOMAIN P) /\ \A j \in DOMAIN P : P[j].days \in Nat
  BY PausesListed
<1>4. DaysIn(P) = SumFunctionOnSet(f, DOMAIN P) /\ DaysIn(Q) = SumFunctionOnSet(h, DOMAIN P)
  BY <1>1 DEF DaysIn
<1>5. /\ \A j \in DOMAIN P : f[j] \in Int /\ f[j] \in Nat
      /\ h[k] \in Int /\ h[k] = e.days /\ f[k] = P[k].days
      /\ \A j \in DOMAIN P \ {k} : h[j] = f[j]
  BY <1>2, <1>3 DEF PauseRecords
<1> HIDE DEF f, h
<1>6. SumFunctionOnSet(h, DOMAIN P) = SumFunctionOnSet(f, DOMAIN P) - f[k] + h[k]
  BY <1>3, <1>5, SumUpdate
<1>7. f[k] <= SumFunctionOnSet(f, DOMAIN P)
  <2>1. {k} \in SUBSET DOMAIN P
    OBVIOUS
  <2>2. SumFunctionOnSet(f, {k}) <= SumFunctionOnSet(f, DOMAIN P)
    BY <1>3, <1>5, <2>1, SumOfPart
  <2>3. SumFunctionOnSet(f, {} \cup {k}) = f[k] + SumFunctionOnSet(f, {})
    BY <1>5, FS_EmptySet, SumAdd
  <2>4. {} \cup {k} = {k} /\ SumFunctionOnSet(f, {}) = 0
    BY SumEmpty
  <2>5. SumFunctionOnSet(f, {k}) = f[k] + 0
    BY <2>3, <2>4
  <2> QED  BY <1>5, <2>2, <2>5
<1> HIDE DEF Q
<1>8. DaysIn(Q) = DaysIn(P) - P[k].days + e.days /\ P[k].days \in Nat /\ P[k].days <= DaysIn(P)
  BY <1>3, <1>4, <1>5, <1>6, <1>7
<1> QED  BY <1>1, <1>8 DEF Q

\* The latest open pause is one of them.
LEMMA LatestOf ==
  ASSUME NEW n \in Nat, NEW T \in SUBSET (1..n), T # {}
  PROVE  \E k \in T : \A m \in T : m <= k
<1> DEFINE D == {n - m : m \in T}
<1>1. D \in SUBSET Nat /\ D # {}
  <2>1. \A m \in T : m \in Nat /\ n - m \in Nat
    OBVIOUS
  <2>2. D # {}
    OBVIOUS
  <2> QED  BY <2>1, <2>2
<1>2. PICK d \in D : \A e \in D : d <= e
  BY <1>1, LeastNumber
<1>3. PICK k \in T : d = n - k
  BY <1>2
<1>4. ASSUME NEW m \in T PROVE m <= k
  <2>1. n - m \in D
    OBVIOUS
  <2>2. n - k <= n - m
    BY <1>2, <1>3, <2>1
  <2> QED  BY <2>2
<1> QED  BY <1>4

PlanTables ==
    /\ today \in 0..LastDay
    /\ bill \in [Invoices -> [svc : Services, due : Nat]]
    /\ pauses \in [Services -> Seq(PauseRecords)]

ActorRecords == [pc : Steps \cup {"idle"}, svc : Services, row : ServiceRecords, days : Nat]

\* What the one that is at work has read of the dates is still so.
StillSo(me) ==
    /\ me.pc \in {"renew", "switchOff", "stamp", "resume", "extend"} =>
           me.row.nextBillingAt = service[me.svc].nextBillingAt
    /\ me.pc = "resume" => service[me.svc].pausedUntil # 0
    /\ me.pc = "extend" => "extend" \in Asked

OneAtWork ==
    /\ actor \in [Actors -> ActorRecords]
    /\ \A a, b \in Actors : actor[a].pc # "idle" /\ actor[b].pc # "idle" => a = b
    /\ \A a \in Actors : StillSo(actor[a])

Billed(s) == Cycle * Cardinality(BillsOf(s)) + DaysIn(pauses[s])

\* A cycle for each invoice and the days paused have been added, and staff may have added
\* more; who is paused has an open pause.
DateOK(s) ==
    /\ service[s].nextBillingAt >= Billed(s)
    /\ "extend" \notin Asked => service[s].nextBillingAt = Billed(s)
    /\ service[s].pausedUntil # 0 => OpenPauses(s) # {}

DateInv == AccountInv /\ PlanTables /\ OneAtWork /\ \A s \in Services : DateOK(s)

LEMMA BilledIsNumber ==
  ASSUME AccountInv, PlanTables, NEW s \in Services
  PROVE  /\ IsFiniteSet(BillsOf(s)) /\ Cardinality(BillsOf(s)) \in Nat
         /\ Cycle * Cardinality(BillsOf(s)) \in Nat /\ DaysIn(pauses[s]) \in Nat
         /\ Billed(s) = Cycle * Cardinality(BillsOf(s)) + DaysIn(pauses[s])
<1>1. IsFiniteSet(BillsOf(s)) /\ Cardinality(BillsOf(s)) \in Nat
  <2>1. BillsOf(s) \in SUBSET Invoices
    BY DEF BillsOf
  <2> QED  BY <2>1, FiniteAssumption, CountNoMore
<1>2. DaysIn(pauses[s]) \in Nat
  BY DaysAreNumber DEF PlanTables
<1> QED  BY <1>1, <1>2, DaysAssumption DEF Billed

\* What begins has just read its row, and is alone.
LEMMA BeginsAlone ==
  ASSUME DateInv, ~Overlap, NEW a \in Actors, NEW s \in Services, NEW pc \in Steps, NEW days \in Nat,
         Begins(a, s, pc, days), pc = "resume" => service[s].pausedUntil # 0,
         pc = "extend" => "extend" \in Asked
  PROVE  OneAtWork'
<1> DEFINE entry == [pc |-> pc, svc |-> s, row |-> service[s], days |-> days]
<1>1. /\ \A b \in Actors : actor[b].pc = "idle"
      /\ actor' = [actor EXCEPT ![a] = entry]
      /\ service' = service
  BY DEF Begins, paymentVars, accountVars
<1>2. service[s] \in ServiceRecords
  BY InvInParts DEF DateInv, TablesOK
<1>3. /\ entry \in ActorRecords /\ entry.pc = pc /\ entry.svc = s /\ entry.row = service[s]
  BY <1>2 DEF ActorRecords
<1> HIDE DEF entry
<1>4. actor' \in [Actors -> ActorRecords] /\ actor'[a] = entry /\ \A b \in Actors \ {a} : actor'[b] = actor[b]
  BY <1>1, <1>3 DEF DateInv, OneAtWork
<1>5. \A b, c \in Actors : actor'[b].pc # "idle" /\ actor'[c].pc # "idle" => b = c
  BY <1>1, <1>4
<1>6. \A b \in Actors : StillSo(actor[b])'
  BY <1>1, <1>3, <1>4 DEF DateInv, OneAtWork, StillSo
<1> QED  BY <1>4, <1>5, <1>6 DEF OneAtWork

\* What is done has nothing read.
LEMMA EndsAlone ==
  ASSUME DateInv, NEW a \in Actors, actor[a].pc # "idle", Ends(a)
  PROVE  OneAtWork'
<1>1. Free \in ActorRecords /\ Free.pc = "idle"
  <2>1. NoService \in Services
    BY ServicesAssumption DEF NoService
  <2>2. NewService \in ServiceRecords
    BY DEF NewService, ServiceRecords
  <2> QED  BY <2>1, <2>2 DEF Free, ActorRecords
<1>2. /\ actor' \in [Actors -> ActorRecords]
      /\ \A b \in Actors : actor'[b].pc = "idle"
  <2>1. actor \in [Actors -> ActorRecords] /\ \A b \in Actors \ {a} : actor[b].pc = "idle"
    BY DEF DateInv, OneAtWork
  <2> HIDE DEF Free
  <2> QED  BY <1>1, <2>1 DEF Ends
<1> QED  BY <1>2 DEF OneAtWork, StillSo

\* What goes on writes the dates only later, if at all.
LEMMA GoesAlone ==
  ASSUME DateInv, NEW a \in Actors, actor[a].pc # "idle", NEW pc \in {"stamp", "undo", "activate"},
         Goes(a, pc),
         pc = "stamp" => actor[a].row.nextBillingAt = service'[actor[a].svc].nextBillingAt
  PROVE  OneAtWork'
<1>1. actor \in [Actors -> ActorRecords] /\ \A b \in Actors \ {a} : actor[b].pc = "idle"
  BY DEF DateInv, OneAtWork
<1>2. /\ actor' \in [Actors -> ActorRecords]
      /\ actor'[a].pc = pc /\ actor'[a].svc = actor[a].svc /\ actor'[a].row = actor[a].row
      /\ \A b \in Actors \ {a} : actor'[b].pc = "idle"
  BY <1>1 DEF Goes, ActorRecords, Steps
<1> QED  BY <1>2 DEF OneAtWork, StillSo

-------------------------------------------------------------------------------
(* The steps that leave the dates alone. *)

SameDates ==
    \A s \in Services : /\ service'[s].nextBillingAt = service[s].nextBillingAt
                        /\ service'[s].pausedUntil = service[s].pausedUntil

SameBills == \A s \in Services : BillsOf(s)' = BillsOf(s)

LEMMA BillsStay ==
  ASSUME \A i \in Invoices : /\ invoice'[i].status = "NONE" <=> invoice[i].status = "NONE"
                             /\ bill'[i].svc = bill[i].svc
  PROVE  SameBills
  BY DEF SameBills, BillsOf

LEMMA DatesStay ==
  ASSUME DateInv, SameDates, SameBills, UNCHANGED pauses
  PROVE  \A s \in Services : DateOK(s)'
<1> TAKE s \in Services
<1>1. Billed(s)' = Billed(s)
  BY DEF SameBills, Billed
<1>2. OpenPauses(s)' = OpenPauses(s)
  BY DEF OpenPauses
<1> QED  BY <1>1, <1>2 DEF DateInv, DateOK, SameDates

\* Only rows of customer_services are written.
LEMMA OnlyServices ==
  ASSUME AccountInv, service' \in [Services -> ServiceRecords], UNCHANGED <<invoice, payment, wallet, worker>>
  PROVE  AccountInv'
<1>1. TablesOK' /\ OwingOK' /\ PaymentsOK' /\ WorkersOK'
  BY InvInParts DEF TablesOK, OwingOK, PaymentsOK, WorkersOK
<1> QED  BY <1>1, InvInParts

\* A step that writes statuses.
LEMMA StatusesWritten ==
  ASSUME DateInv, service' \in [Services -> ServiceRecords], SameDates, OneAtWork',
         UNCHANGED <<invoice, payment, wallet, worker, today, bill, pauses>>
  PROVE  DateInv'
<1>1. AccountInv'
  BY OnlyServices DEF DateInv
<1>2. SameBills
  BY DEF SameBills, BillsOf
<1>3. PlanTables'
  BY DEF DateInv, PlanTables
<1> QED  BY <1>1, <1>2, <1>3, DatesStay DEF DateInv

LEMMA RowsTyped ==
  ASSUME DateInv
  PROVE  /\ service \in [Services -> ServiceRecords]
         /\ invoice \in [Invoices -> InvoiceRecords]
         /\ actor \in [Actors -> ActorRecords]
         /\ today \in Nat
         /\ bill \in [Invoices -> [svc : Services, due : Nat]]
         /\ pauses \in [Services -> Seq(PauseRecords)]
  BY InvInParts, DaysAssumption DEF DateInv, TablesOK, OneAtWork, PlanTables

LEMMA WriterTyped ==
  ASSUME DateInv, NEW a \in Actors
  PROVE  /\ actor[a] \in ActorRecords
         /\ actor[a].svc \in Services /\ actor[a].row \in ServiceRecords /\ actor[a].days \in Nat
         /\ actor[a].row.nextBillingAt \in Nat /\ actor[a].row.pausedUntil \in Nat
         /\ StillSo(actor[a])
  BY RowsTyped DEF ActorRecords, ServiceRecords, DateInv, OneAtWork

LEMMA StatusSet ==
  ASSUME DateInv, NEW s \in Services, NEW status \in {"ACTIVE", "SUSPENDED", "CANCELLED"},
         \/ SetStatus(s, status)
         \/ service' = [service EXCEPT ![s].status = status, ![s].autoRenew = FALSE]
         \/ service' = service
  PROVE  service' \in [Services -> ServiceRecords] /\ SameDates
<1>1. service \in [Services -> ServiceRecords]
  BY RowsTyped
<1>2. CASE service' = service
  BY <1>1, <1>2 DEF SameDates
<1>3. CASE SetStatus(s, status)
  BY <1>1, <1>3 DEF SetStatus, ServiceRecords, SameDates
<1>4. CASE service' = [service EXCEPT ![s].status = status, ![s].autoRenew = FALSE]
  BY <1>1, <1>4 DEF ServiceRecords, SameDates
<1> QED  BY <1>2, <1>3, <1>4

LEMMA SwitchDates ==
  ASSUME DateInv, NEW a \in Actors, switchOff(a) \/ radiusFails(a) \/ undoSwitchOff(a)
  PROVE  DateInv'
<1> DEFINE s == actor[a].svc
<1>1. /\ actor[a].pc # "idle" /\ s \in Services
      /\ UNCHANGED <<invoice, payment, wallet, worker, today, bill, pauses>>
  BY WriterTyped DEF switchOff, radiusFails, undoSwitchOff, paymentVars, accountVars
<1>2. SetStatus(s, "SUSPENDED") \/ SetStatus(s, "ACTIVE") \/ service' = service
  BY DEF switchOff, radiusFails, undoSwitchOff, paymentVars, accountVars
<1>3. service' \in [Services -> ServiceRecords] /\ SameDates
  BY <1>1, <1>2, StatusSet
<1>4. OneAtWork'
  <2>1. CASE switchOff(a)
    <3>1. (Goes(a, "stamp") \/ Goes(a, "undo")) /\ actor[a].pc = "switchOff"
      BY <2>1 DEF switchOff
    <3>2. actor[a].row.nextBillingAt = service'[s].nextBillingAt
      BY <1>1, <1>3, <3>1, WriterTyped DEF StillSo, SameDates
    <3> QED  BY <1>1, <3>1, <3>2, GoesAlone
  <2>2. CASE radiusFails(a)
    BY <1>1, <2>2, GoesAlone DEF radiusFails
  <2>3. CASE undoSwitchOff(a)
    BY <1>1, <2>3, EndsAlone DEF undoSwitchOff
  <2> QED  BY <2>1, <2>2, <2>3
<1> QED  BY <1>1, <1>3, <1>4, StatusesWritten

LEMMA StatusDates ==
  ASSUME DateInv, NEW a \in Actors, writeStatus(a) \/ (a = Sweeper /\ (cutOff \/ reconnect)) \/ crash(a)
  PROVE  DateInv'
<1> DEFINE s == actor[a].svc
<1>1. /\ actor[a].pc # "idle" /\ s \in Services /\ Ends(a)
      /\ UNCHANGED <<invoice, payment, wallet, worker, today, bill, pauses>>
  BY WriterTyped DEF writeStatus, cutOff, reconnect, crash, paymentVars, accountVars
<1>2. \/ SetStatus(s, "SUSPENDED") \/ SetStatus(s, "ACTIVE") \/ service' = service
      \/ service' = [service EXCEPT ![s].status = "CANCELLED", ![s].autoRenew = FALSE]
  BY DEF writeStatus, cutOff, reconnect, crash, paymentVars, accountVars
<1>3. service' \in [Services -> ServiceRecords] /\ SameDates
  BY <1>1, <1>2, StatusSet
<1> QED  BY <1>1, <1>3, EndsAlone, StatusesWritten

\* Payments write statuses of services, and nothing of an invoice that is not issued.
LEMMA PayingInvoices ==
  ASSUME AccountInv, NEW w \in Workers, Request(w) \/ Commit(w)
  PROVE  \A i \in Invoices : invoice'[i].status = "NONE" <=> invoice[i].status = "NONE"
<1>0. invoice \in [Invoices -> InvoiceRecords] /\ WorkersOK
  BY InvInParts DEF TablesOK
<1>1. ASSUME NEW i \in Invoices, invoice[i].status # "NONE", NEW paid, NEW status,
             status # "NONE", SetPaid(i, paid, status)
      PROVE  \A j \in Invoices : invoice'[j].status = "NONE" <=> invoice[j].status = "NONE"
  BY <1>0, <1>1 DEF SetPaid
<1>2. worker[w] \in WorkerRecords /\ HeldOK(worker[w], invoice)
  BY <1>0 DEF WorkersOK
<1>3. invoice' = invoice \/ \E i \in Invoices : \E paid, status :
        invoice[i].status # "NONE" /\ status # "NONE" /\ SetPaid(i, paid, status)
  <2>1. CASE Request(w)
    BY <2>1 DEF Request, recordPaymentForInvoice, topUpWallet, refundPayment, matchPayment,
       voidInvoice, Starts, accountVars
  <2>2. CASE commitPayment(w)
    <3> DEFINE me == worker[w]
               status == IF CoversTotal(me) THEN "PAID" ELSE "PARTIALLY_PAID"
    <3>1. me.pc \in PaysInvoice /\ SetPaid(me.invoice, paidWith(me), status)
      BY <2>2 DEF commitPayment, PaysInvoice
    <3>2. me.invoice \in Invoices /\ invoice[me.invoice].status # "NONE"
      BY <1>2, <3>1 DEF HeldOK, PaysInvoice
    <3>3. status # "NONE"
      OBVIOUS
    <3> HIDE DEF me, status
    <3> QED BY <3>1, <3>2, <3>3
  <2>3. CASE commitReversal(w)
    BY <1>2, <2>3 DEF commitReversal, HeldOK, WorkerRecords
  <2>4. CASE commitMatch(w)
    BY <1>2, <2>4 DEF commitMatch, HeldOK
  <2>5. CASE commitVoid(w)
    BY <1>2, <2>5 DEF commitVoid, HeldOK
  <2>6. CASE \/ commitTopUp(w) \/ readInvoiceToReverse(w) \/ rollback(w)
             \/ countUnpaid(w) \/ listSuspended(w)
    BY <2>6 DEF commitTopUp, readInvoiceToReverse, rollback, countUnpaid, listSuspended, accountVars
  <2> QED  BY <2>1, <2>2, <2>3, <2>4, <2>5, <2>6 DEF Commit
<1> QED  BY <1>1, <1>3

LEMMA PayingDates ==
  ASSUME DateInv, Paying, UNCHANGED planVars
  PROVE  DateInv'
<1>1. UNCHANGED <<today, bill, pauses, actor>>
  BY DEF planVars
<1>2. AccountInv'
  BY AccountStep DEF DateInv, Paying, AccountNext
<1>3. service \in [Services -> ServiceRecords]
  BY RowsTyped
<1>4. service' = service \/ \E plans : service' = reactivated(plans)
  BY PayingServices
<1>5. SameDates
  BY <1>3, <1>4 DEF ServiceRecords, SameDates, reactivated
<1>6. SameBills
  BY <1>1, PayingInvoices, BillsStay DEF DateInv, Paying
<1>7. OneAtWork'
  BY <1>1, <1>5, WriterTyped DEF DateInv, OneAtWork, StillSo, SameDates
<1> QED  BY <1>1, <1>2, <1>5, <1>6, <1>7, DatesStay DEF DateInv, PlanTables

LEMMA BeginsDates ==
  ASSUME DateInv, ~Overlap, NEW s \in Services,
         Sweeping(s) \/ \E a \in Staff : Asking(a, s)
  PROVE  DateInv'
<1>0. 0 \in Nat /\ PauseDays \subseteq Nat
  BY DaysAssumption
<1>1. PICK a \in Actors, pc \in Steps, days \in Nat :
        /\ Begins(a, s, pc, days)
        /\ pc = "resume" => service[s].pausedUntil # 0
        /\ pc = "extend" => "extend" \in Asked
  <2>1. CASE Sweeping(s)
    <3>1. Sweeper \in Actors
      BY DEF Actors
    <3> QED  BY <1>0, <2>1, <3>1 DEF Sweeping, generateDueRenewalInvoices, suspendOverdueSubscriptions,
               reactivateClearedSubscriptions, resumeSubscription, Steps
  <2>2. ASSUME NEW a \in Staff, Asking(a, s)
        PROVE  \E pc \in Steps, days \in Nat :
                 /\ Begins(a, s, pc, days)
                 /\ pc = "resume" => service[s].pausedUntil # 0
                 /\ pc = "extend" => "extend" \in Asked
    BY <1>0, <2>2 DEF Asking, pauseSubscription, extendSubscription, resumeSubscription,
       reactivateSubscription, suspendSubscription, cancelSubscription, Steps, Requests
  <2> QED  BY <2>1, <2>2 DEF Actors
<1>2. OneAtWork'
  BY <1>1, BeginsAlone
<1>3. UNCHANGED <<invoice, payment, wallet, worker, service, today, bill, pauses>>
  BY <1>1 DEF Begins, paymentVars, accountVars
<1>4. SameDates /\ service' \in [Services -> ServiceRecords]
  BY <1>3, RowsTyped DEF SameDates
<1> QED  BY <1>2, <1>3, <1>4, StatusesWritten

LEMMA DayDates == ASSUME DateInv, dayPasses PROVE DateInv'
<1>1. UNCHANGED <<paymentVars, bill, pauses, actor>> /\ today' \in 0..LastDay
  BY DaysAssumption DEF dayPasses, DateInv, PlanTables
<1>2. AccountInv' /\ SameDates /\ SameBills
  BY <1>1, AccountStep DEF DateInv, SameDates, SameBills, BillsOf, paymentVars, accountVars
<1>3. OneAtWork'
  BY <1>1 DEF DateInv, OneAtWork, StillSo, paymentVars, accountVars
<1> QED  BY <1>1, <1>2, <1>3, DatesStay DEF DateInv, PlanTables

LEMMA OverdueDates == ASSUME DateInv, NEW i \in Invoices, markOverdue(i) PROVE DateInv'
<1>1. markOverdueInvoices(i) /\ UNCHANGED <<today, bill, pauses, actor>>
  BY DEF markOverdue, planVars
<1>2. UNCHANGED <<payment, wallet, service, worker>>
  BY <1>1 DEF markOverdueInvoices
<1>3. AccountInv'
  BY <1>1, BillingStep DEF Billing, DateInv
<1>4. SameBills
  <2>1. \A j \in Invoices : invoice'[j].status = "NONE" <=> invoice[j].status = "NONE"
    BY <1>1, RowsTyped DEF markOverdueInvoices, SetPaid
  <2> QED  BY <1>1, <2>1, BillsStay
<1>5. SameDates /\ OneAtWork'
  BY <1>1, <1>2 DEF SameDates, DateInv, OneAtWork, StillSo
<1> QED  BY <1>1, <1>3, <1>4, <1>5, DatesStay DEF DateInv, PlanTables

-------------------------------------------------------------------------------
(* The steps that write dates. *)

\* The row of one service is written with other dates.
LEMMA DatesSet ==
  ASSUME DateInv, NEW s \in Services, NEW next \in Nat, NEW until \in Nat,
         \/ service' = [service EXCEPT ![s].pausedUntil = until, ![s].nextBillingAt = next]
         \/ service' = [service EXCEPT ![s].nextBillingAt = next]
  PROVE  /\ service' \in [Services -> ServiceRecords]
         /\ service'[s].nextBillingAt = next
         /\ \A r \in Services \ {s} : service'[r] = service[r]
<1>1. service \in [Services -> ServiceRecords]
  BY RowsTyped
<1>2. CASE service' = [service EXCEPT ![s].pausedUntil = until, ![s].nextBillingAt = next]
  BY <1>1, <1>2 DEF ServiceRecords
<1>3. CASE service' = [service EXCEPT ![s].nextBillingAt = next]
  BY <1>1, <1>3 DEF ServiceRecords
<1> QED  BY <1>2, <1>3

\* So the dates of the others stay right.
LEMMA OthersStay ==
  ASSUME DateInv, NEW s \in Services, NEW r \in Services \ {s}, service'[r] = service[r],
         pauses'[r] = pauses[r], BillsOf(r)' = BillsOf(r)
  PROVE  DateOK(r)'
<1>1. Billed(r)' = Billed(r)
  BY DEF Billed
<1>2. OpenPauses(r)' = OpenPauses(r)
  BY DEF OpenPauses
<1> QED  BY <1>1, <1>2 DEF DateInv, DateOK

LEMMA StampDates == ASSUME DateInv, NEW a \in Actors, stampPause(a) PROVE DateInv'
<1> PICK s \in Services : s = actor[a].svc
  BY WriterTyped
<1> DEFINE me == actor[a]
           next == me.row.nextBillingAt + me.days
           until == today + me.days
           entry == [days |-> me.days, startsAt |-> today, resumed |-> FALSE]
<1>1. /\ me.pc = "stamp" /\ s \in Services /\ me.days \in Nat /\ next \in Nat /\ until \in Nat
      /\ me.row.nextBillingAt = service[s].nextBillingAt
      /\ entry \in PauseRecords
  BY RowsTyped, WriterTyped DEF stampPause, StillSo, PauseRecords
<1>2. /\ service' = [service EXCEPT ![s].pausedUntil = until, ![s].nextBillingAt = next]
      /\ pauses' = [pauses EXCEPT ![s] = Append(@, entry)]
      /\ Ends(a) /\ UNCHANGED <<invoice, payment, wallet, worker, today, bill>>
  BY DEF stampPause
<1>3. next = service[s].nextBillingAt + me.days /\ entry.days = me.days /\ ~entry.resumed
  BY <1>1
<1> HIDE DEF next, until, entry
<1>4. /\ service' \in [Services -> ServiceRecords] /\ service'[s].nextBillingAt = next
      /\ \A r \in Services \ {s} : service'[r] = service[r]
  BY <1>1, <1>2, DatesSet
<1>5. /\ pauses[s] \in Seq(PauseRecords) /\ pauses'[s] = Append(pauses[s], entry)
      /\ \A r \in Services \ {s} : pauses'[r] = pauses[r]
      /\ pauses' \in [Services -> Seq(PauseRecords)]
  BY <1>1, <1>2, RowsTyped
<1>6. AccountInv' /\ OneAtWork' /\ PlanTables'
  BY <1>1, <1>2, <1>4, <1>5, OnlyServices, EndsAlone DEF DateInv, PlanTables
<1>7. \A r \in Services : BillsOf(r)' = BillsOf(r)
  BY <1>2 DEF BillsOf
<1>8. DateOK(s)'
  <2>1. DaysIn(pauses'[s]) = DaysIn(pauses[s]) + me.days
    BY <1>1, <1>3, <1>5, DaysAppended
  <2>2. Billed(s)' = Billed(s) + me.days
    <3>1. Billed(s)' = Cycle * Cardinality(BillsOf(s)) + DaysIn(pauses'[s])
      BY <1>7, <1>1 DEF Billed
    <3> QED  BY <1>1, <2>1, <3>1, BilledIsNumber DEF DateInv
  <2>3. OpenPauses(s)' # {}
    <3>1. Len(pauses[s]) + 1 \in DOMAIN pauses'[s] /\ pauses'[s][Len(pauses[s]) + 1] = entry
      BY <1>5
    <3> QED  BY <1>3, <3>1 DEF OpenPauses
  <2>4. service[s].nextBillingAt \in Nat /\ Billed(s) \in Nat
    BY <1>1, RowsTyped, BilledIsNumber DEF ServiceRecords, DateInv
  <2> QED  BY <1>1, <1>3, <1>4, <2>2, <2>3, <2>4 DEF DateInv, DateOK
<1> QED  BY <1>1, <1>4, <1>5, <1>6, <1>7, <1>8, OthersStay DEF DateInv

LEMMA ResumeDates == ASSUME DateInv, NEW a \in Actors, endPause(a) PROVE DateInv'
<1> PICK s \in Services : s = actor[a].svc
  BY WriterTyped
<1> DEFINE me == actor[a]
           P == pauses[s]
           open == OpenPauses(s)
           k == CHOOSE n \in open : \A m \in open : m <= n
           unused == unusedPauseDays(P[k].days, P[k].startsAt, today)
           next == me.row.nextBillingAt - unused
           entry == [P[k] EXCEPT !.resumed = TRUE, !.days = Greater(0, @ - unused)]
<1>1. /\ me.pc = "resume" /\ s \in Services /\ P \in Seq(PauseRecords)
      /\ me.row.nextBillingAt = service[s].nextBillingAt /\ service[s].nextBillingAt \in Nat
      /\ service[s].pausedUntil # 0 /\ today \in Nat
  BY RowsTyped, WriterTyped DEF endPause, StillSo, ServiceRecords
<1>2. k \in open /\ k \in DOMAIN P
  <2>1. open # {}
    BY <1>1 DEF DateInv, DateOK
  <2>2. open \in SUBSET (1..Len(P)) /\ Len(P) \in Nat
    BY <1>1, PausesListed DEF OpenPauses
  <2>3. \E n \in open : \A m \in open : m <= n
    BY <2>1, <2>2, LatestOf
  <2>4. k \in open
    BY <2>3
  <2> QED  BY <2>4 DEF OpenPauses
<1>3. /\ P[k].days \in Nat /\ P[k].startsAt \in Nat
      /\ unused \in Nat /\ unused <= P[k].days
      /\ entry \in PauseRecords /\ entry.days = P[k].days - unused
  <2>1. P[k].days \in Nat /\ P[k].startsAt \in Nat
    BY <1>1, <1>2, PausesListed
  <2>2. unused \in Nat /\ unused <= P[k].days
    <3> HIDE DEF k, P
    <3> QED  BY <1>1, <2>1 DEF unusedPauseDays, Greater
  <2>3. Greater(0, P[k].days - unused) = P[k].days - unused /\ P[k].days - unused \in Nat
    <3> HIDE DEF unused, k, P
    <3> QED  BY <2>1, <2>2 DEF Greater
  <2>4. P[k] \in PauseRecords
    <3> HIDE DEF P, k
    <3> QED  BY <1>1, <1>2, PausesListed
  <2> HIDE DEF unused, k, P
  <2> QED  BY <2>1, <2>2, <2>3, <2>4 DEF PauseRecords
<1>4. /\ service' = [service EXCEPT ![s].pausedUntil = 0, ![s].nextBillingAt = next]
      /\ pauses' = [pauses EXCEPT ![s][k] = entry]
      /\ Goes(a, "activate") \/ Ends(a)
      /\ UNCHANGED <<invoice, payment, wallet, worker, today, bill>>
  BY <1>2 DEF endPause
<1>5. /\ pauses'[s] = [P EXCEPT ![k] = entry]
      /\ \A r \in Services \ {s} : pauses'[r] = pauses[r]
      /\ pauses' = [pauses EXCEPT ![s] = [P EXCEPT ![k] = entry]]
  <2> HIDE DEF k, entry
  <2> QED  BY <1>1, <1>2, <1>4, RowsTyped
<1> HIDE DEF entry, unused, k
<1>6. /\ [P EXCEPT ![k] = entry] \in Seq(PauseRecords)
      /\ DaysIn([P EXCEPT ![k] = entry]) = DaysIn(P) - P[k].days + entry.days
      /\ P[k].days <= DaysIn(P)
  BY <1>1, <1>2, <1>3, DaysShortened
<1>7. /\ Billed(s) \in Nat /\ DaysIn(P) <= Billed(s) /\ DaysIn(P) \in Nat
      /\ Billed(s) = Cycle * Cardinality(BillsOf(s)) + DaysIn(P)
      /\ Cycle * Cardinality(BillsOf(s)) \in Nat
  BY <1>1, BilledIsNumber DEF DateInv
<1>8. next \in Nat /\ next = service[s].nextBillingAt - unused
  <2>1. service[s].nextBillingAt >= Billed(s)
    BY <1>1 DEF DateInv, DateOK
  <2>2. unused \in Nat /\ unused <= DaysIn(P)
    <3> HIDE DEF P
    <3> QED  BY <1>3, <1>6, <1>7
  <2>3. unused <= service[s].nextBillingAt
    <3> HIDE DEF P
    <3> QED  BY <1>1, <1>7, <2>1, <2>2
  <2> QED  BY <1>1, <2>2, <2>3
<1> HIDE DEF next
<1>9. /\ service' \in [Services -> ServiceRecords] /\ service'[s].nextBillingAt = next
      /\ \A r \in Services \ {s} : service'[r] = service[r]
  BY <1>1, <1>4, <1>8, DatesSet
<1>10. service'[s].pausedUntil = 0
  BY <1>1, <1>4, RowsTyped DEF ServiceRecords
<1>11. \A r \in Services : BillsOf(r)' = BillsOf(r)
  BY <1>4 DEF BillsOf
<1>12. pauses' \in [Services -> Seq(PauseRecords)]
  BY <1>1, <1>5, <1>6, RowsTyped
<1>13. AccountInv' /\ PlanTables'
  BY <1>4, <1>9, <1>12, OnlyServices DEF DateInv, PlanTables
<1>14. OneAtWork'
  BY <1>1, <1>4, EndsAlone, GoesAlone
<1>15. DateOK(s)'
  <2>1. Billed(s)' = Cycle * Cardinality(BillsOf(s)) + DaysIn([P EXCEPT ![k] = entry])
    BY <1>1, <1>5, <1>11 DEF Billed
  <2>2. Billed(s)' = Billed(s) - unused
    <3> HIDE DEF P
    <3> QED  BY <1>3, <1>6, <1>7, <2>1
  <2>3. /\ service[s].nextBillingAt >= Billed(s)
        /\ "extend" \notin Asked => service[s].nextBillingAt = Billed(s)
    BY <1>1 DEF DateInv, DateOK
  <2>4. /\ service'[s].nextBillingAt >= Billed(s)'
        /\ "extend" \notin Asked => service'[s].nextBillingAt = Billed(s)'
    BY <1>1, <1>3, <1>7, <1>8, <1>9, <2>2, <2>3
  <2> QED  BY <1>10, <2>4 DEF DateOK
<1> QED  BY <1>1, <1>5, <1>9, <1>11, <1>13, <1>14, <1>15, OthersStay DEF DateInv

\* An invoice was issued, or made PENDING again: the invoices stay as AccountInv says.
LEMMA InvoicesMoved ==
  ASSUME DateInv, service' \in [Services -> ServiceRecords], invoice' \in [Invoices -> InvoiceRecords],
         OwingOK', TotalsKept, UNCHANGED <<payment, wallet, worker>>
  PROVE  AccountInv'
<1>1. TablesOK /\ WorkersOK
  BY InvInParts DEF DateInv
<1>2. PaymentsOK' /\ WorkersOK'
  BY <1>1, PaymentsKept, WorkersLeft DEF DateInv
<1>3. TablesOK'
  BY <1>1 DEF TablesOK
<1> QED  BY <1>2, <1>3, InvInParts

LEMMA ExtendDates == ASSUME DateInv, NEW a \in Actors, moveDates(a) PROVE DateInv'
<1> PICK s \in Services : s = actor[a].svc
  BY WriterTyped
<1> DEFINE me == actor[a]
           moved == {i \in UnpaidInvoices : bill[i].svc = s}
           next == Greater(me.row.nextBillingAt, today) + me.days
<1>1. /\ me.pc = "extend" /\ me.days \in Nat /\ "extend" \in Asked /\ today \in Nat
      /\ me.row.nextBillingAt = service[s].nextBillingAt /\ service[s].nextBillingAt \in Nat
  BY RowsTyped, WriterTyped DEF moveDates, StillSo, ServiceRecords
<1>2. /\ service' = [service EXCEPT ![s].nextBillingAt = next]
      /\ invoice' = [i \in Invoices |-> IF i \in moved THEN [invoice[i] EXCEPT !.status = "PENDING"]
                                        ELSE invoice[i]]
      /\ bill' = [i \in Invoices |-> IF i \in moved
                      THEN [bill[i] EXCEPT !.due = Greater(@, today) + me.days] ELSE bill[i]]
      /\ Goes(a, "activate") \/ Ends(a)
      /\ UNCHANGED <<payment, wallet, worker, today, pauses>>
  BY DEF moveDates
<1>3. next \in Nat /\ next >= service[s].nextBillingAt
  BY <1>1 DEF Greater
<1> HIDE DEF next
<1>4. /\ service' \in [Services -> ServiceRecords] /\ service'[s].nextBillingAt = next
      /\ \A r \in Services \ {s} : service'[r] = service[r]
  BY <1>2, <1>3, DatesSet
<1>5. service'[s].pausedUntil = service[s].pausedUntil
  BY <1>2, RowsTyped DEF ServiceRecords
<1>6. /\ invoice' \in [Invoices -> InvoiceRecords]
      /\ \A i \in Invoices :
           /\ invoice'[i].total = invoice[i].total /\ invoice'[i].paid = invoice[i].paid
           /\ \/ invoice'[i].status = invoice[i].status
              \/ invoice[i].status \in UNPAID /\ invoice'[i].status = "PENDING"
  <2>1. moved \subseteq {i \in Invoices : invoice[i].status \in UNPAID}
    BY DEF UnpaidInvoices
  <2> HIDE DEF moved
  <2>2. ASSUME NEW i \in Invoices
        PROVE  /\ invoice'[i] \in InvoiceRecords
               /\ invoice'[i].total = invoice[i].total /\ invoice'[i].paid = invoice[i].paid
               /\ \/ invoice'[i].status = invoice[i].status
                  \/ invoice[i].status \in UNPAID /\ invoice'[i].status = "PENDING"
    BY <1>2, <2>1, RowsTyped DEF InvoiceRecords, UNPAID
  <2>3. invoice' = [i \in Invoices |-> invoice'[i]]
    BY <1>2
  <2> QED  BY <2>2, <2>3
<1>7. OwingOK' /\ TotalsKept
  BY <1>6, InvInParts DEF DateInv, OwingOK, TotalsKept, UNPAID
<1>8. AccountInv'
  BY <1>2, <1>4, <1>6, <1>7, InvoicesMoved
<1>9. bill' \in [Invoices -> [svc : Services, due : Nat]] /\ \A i \in Invoices : bill'[i].svc = bill[i].svc
  <2>1. ASSUME NEW i \in Invoices
        PROVE  bill'[i] \in [svc : Services, due : Nat] /\ bill'[i].svc = bill[i].svc
    <3>1. bill[i] \in [svc : Services, due : Nat] /\ Greater(bill[i].due, today) + me.days \in Nat
      BY <1>1, RowsTyped DEF Greater
    <3> HIDE DEF moved
    <3> QED  BY <1>2, <3>1
  <2>2. bill' = [i \in Invoices |-> bill'[i]]
    BY <1>2
  <2> QED  BY <2>1, <2>2
<1>10. SameBills
  BY <1>6, <1>9, BillsStay DEF UNPAID
<1>11. OneAtWork'
  BY <1>1, <1>2, EndsAlone, GoesAlone
<1>12. PlanTables'
  BY <1>2, <1>9 DEF DateInv, PlanTables
<1>13. DateOK(s)'
  <2>1. Billed(s)' = Billed(s) /\ OpenPauses(s)' = OpenPauses(s)
    BY <1>2, <1>10 DEF SameBills, Billed, OpenPauses
  <2>2. Billed(s) \in Nat
    BY BilledIsNumber DEF DateInv
  <2> QED  BY <1>1, <1>3, <1>4, <1>5, <2>1, <2>2 DEF DateInv, DateOK
<1>14. \A r \in Services \ {s} : DateOK(r)'
  BY <1>2, <1>4, <1>10, OthersStay DEF SameBills
<1> QED  BY <1>8, <1>11, <1>12, <1>13, <1>14 DEF DateInv

LEMMA RenewalDates == ASSUME DateInv, createRenewalInvoice PROVE DateInv'
<1>0. Sweeper \in Actors
  BY DEF Actors
<1> PICK s \in Services : s = actor[Sweeper].svc
  BY <1>0, WriterTyped
<1> DEFINE me == actor[Sweeper]
           next == billedUntil(me.row)
<1>1. /\ me.pc = "renew" /\ me.row.nextBillingAt = service[s].nextBillingAt
      /\ service[s].nextBillingAt \in Nat
  BY <1>0, RowsTyped, WriterTyped DEF createRenewalInvoice, StillSo, ServiceRecords
<1>2. next \in Nat /\ next = service[s].nextBillingAt + Cycle
  BY <1>1, DaysAssumption DEF billedUntil
<1>3. PICK i \in Invoices, total \in Totals :
        /\ invoice[i].status = "NONE"
        /\ invoice' = [invoice EXCEPT ![i] = [status |-> "PENDING", total |-> total, paid |-> 0]]
        /\ bill' = [bill EXCEPT ![i] = [svc |-> s, due |-> service[s].nextBillingAt]]
  BY <1>1 DEF createRenewalInvoice
<1>4. /\ service' = [service EXCEPT ![s].nextBillingAt = next]
      /\ Ends(Sweeper)
      /\ UNCHANGED <<payment, wallet, worker, today, pauses>>
  BY DEF createRenewalInvoice
<1> HIDE DEF next
<1>5. /\ service' \in [Services -> ServiceRecords] /\ service'[s].nextBillingAt = next
      /\ \A r \in Services \ {s} : service'[r] = service[r]
  <2>1. 0 \in Nat /\ service' = [service EXCEPT ![s].nextBillingAt = next]
    BY <1>4
  <2> QED  BY <1>2, <2>1, DatesSet
<1>6. service'[s].pausedUntil = service[s].pausedUntil
  BY <1>4, RowsTyped DEF ServiceRecords
<1>7. /\ invoice' \in [Invoices -> InvoiceRecords]
      /\ invoice'[i].status = "PENDING" /\ invoice'[i].total = total /\ invoice'[i].paid = 0
      /\ \A j \in Invoices \ {i} : invoice'[j] = invoice[j]
      /\ total \in Nat /\ total > 0
  <2>1. total \in Nat /\ total > 0
    BY TotalsAssumption
  <2> QED  BY <1>3, <2>1, RowsTyped DEF InvoiceRecords, UNPAID
<1>8. OwingOK' /\ TotalsKept
  BY <1>3, <1>7, InvInParts DEF DateInv, OwingOK, TotalsKept, UNPAID
<1>9. AccountInv'
  BY <1>4, <1>5, <1>7, <1>8, InvoicesMoved
<1>10. /\ bill' \in [Invoices -> [svc : Services, due : Nat]]
       /\ bill'[i].svc = s /\ \A j \in Invoices \ {i} : bill'[j] = bill[j]
  BY <1>1, <1>3, RowsTyped
<1>11. PlanTables' /\ OneAtWork'
  BY <1>0, <1>1, <1>4, <1>10, EndsAlone DEF DateInv, PlanTables
<1>12. BillsOf(s)' = BillsOf(s) \cup {i} /\ i \notin BillsOf(s)
  BY <1>3, <1>7, <1>10 DEF BillsOf
<1>13. \A r \in Services \ {s} : BillsOf(r)' = BillsOf(r)
  BY <1>3, <1>7, <1>10 DEF BillsOf
<1>14. DateOK(s)'
  <2>1. IsFiniteSet(BillsOf(s)) /\ Cardinality(BillsOf(s)) \in Nat
    BY BilledIsNumber DEF DateInv
  <2>2. Cardinality(BillsOf(s) \cup {i}) = Cardinality(BillsOf(s)) + 1
    BY <1>12, <2>1, FS_AddElement
  <2>3. Billed(s)' = Cycle * (Cardinality(BillsOf(s)) + 1) + DaysIn(pauses[s])
    BY <1>4, <1>12, <2>2 DEF Billed
  <2>4. Cycle * (Cardinality(BillsOf(s)) + 1) = Cycle * Cardinality(BillsOf(s)) + Cycle
    <3>1. \A m, n \in Nat : m * (n + 1) = m * n + m
      OBVIOUS
    <3> QED  BY <2>1, <3>1, DaysAssumption
  <2>5. Billed(s)' = Billed(s) + Cycle /\ Billed(s) \in Nat
    BY <2>3, <2>4, BilledIsNumber, DaysAssumption DEF DateInv
  <2>6. OpenPauses(s)' = OpenPauses(s)
    BY <1>4 DEF OpenPauses
  <2> QED  BY <1>1, <1>2, <1>5, <1>6, <2>5, <2>6, DaysAssumption DEF DateInv, DateOK
<1>15. \A r \in Services \ {s} : DateOK(r)'
  BY <1>4, <1>5, <1>13, OthersStay
<1> QED  BY <1>9, <1>11, <1>14, <1>15 DEF DateInv

-------------------------------------------------------------------------------
(* The beginning, and every step. *)

\* Each subscription has its own first invoice.
LEMMA FirstInvoices ==
  /\ FirstInvoice \in [Services -> Invoices]
  /\ \A r, s \in Services : FirstInvoice[r] = FirstInvoice[s] => r = s
  BY ServicesAssumption DEF FirstInvoice

LEMMA InitAccount == Init => AccountInv
<1> SUFFICES ASSUME Init PROVE AccountInv
  OBVIOUS
<1>1. PICK total \in Totals : invoice = [i \in Invoices |->
            IF \E s \in Services : FirstInvoice[s] = i
            THEN [status |-> "PENDING", total |-> total, paid |-> 0] ELSE NotIssued]
  BY DEF Init
<1>2. total \in Nat /\ total > 0
  BY TotalsAssumption
<1>3. ASSUME NEW i \in Invoices
      PROVE  /\ invoice[i] \in InvoiceRecords /\ invoice[i].paid = 0
             /\ invoice[i].status = "NONE" \/ (invoice[i].status = "PENDING" /\ invoice[i].total = total)
  <2>1. [status |-> "PENDING", total |-> total, paid |-> 0] \in InvoiceRecords
        /\ NotIssued \in InvoiceRecords /\ NotIssued.status = "NONE" /\ NotIssued.paid = 0
    BY <1>2 DEF InvoiceRecords, UNPAID, NotIssued
  <2> QED  BY <1>1, <2>1
<1>4. invoice \in [Invoices -> InvoiceRecords] /\ OwingOK
  <2>1. invoice = [i \in Invoices |-> invoice[i]]
    BY <1>1
  <2>2. OwingOK
    BY <1>2, <1>3 DEF OwingOK, UNPAID
  <2> QED  BY <1>3, <2>1, <2>2
<1>5. service \in [Services -> ServiceRecords]
  <2>1. [NewService EXCEPT !.nextBillingAt = Cycle] \in ServiceRecords
    BY DaysAssumption DEF NewService, ServiceRecords
  <2> QED  BY <2>1 DEF Init
<1>6. TablesOK
  <2>1. NotPaid \in PaymentRecords
    BY DEF NotPaid, PaymentRecords
  <2> QED  BY <1>4, <1>5, <2>1 DEF Init, TablesOK
<1>7. PaymentsOK
  BY DEF Init, PaymentsOK, NotPaid
<1>8. WorkersOK
  <2>1. worker = [w \in Workers |-> Resting]
    BY DEF Init
  <2> QED  BY <2>1, RestingOK DEF WorkersOK
<1> QED  BY <1>4, <1>6, <1>7, <1>8, InvInParts

LEMMA InitDates == Init => DateInv
<1> SUFFICES ASSUME Init PROVE DateInv
  OBVIOUS
<1>1. NoService \in Services
  BY ServicesAssumption DEF NoService
<1>2. bill \in [Invoices -> [svc : Services, due : Nat]]
      /\ \A i \in Invoices, s \in Services : FirstInvoice[s] = i => bill[i].svc = s
  <2>1. ASSUME NEW i \in Invoices
        PROVE  (CHOOSE s \in Services : FirstInvoice[s] = i) \in Services \/ \A s \in Services : FirstInvoice[s] # i
    OBVIOUS
  <2>2. ASSUME NEW i \in Invoices, NEW s \in Services, FirstInvoice[s] = i
        PROVE  (CHOOSE r \in Services : FirstInvoice[r] = i) = s
    BY <2>2, FirstInvoices
  <2>3. bill = [i \in Invoices |->
            [svc |-> IF \E s \in Services : FirstInvoice[s] = i
                     THEN CHOOSE s \in Services : FirstInvoice[s] = i ELSE NoService,
             due |-> Cycle]]
    BY DEF Init
  <2>4. Cycle \in Nat
    BY DaysAssumption
  <2> HIDE DEF NoService
  <2>5. ASSUME NEW i \in Invoices PROVE bill[i] \in [svc : Services, due : Nat]
    BY <1>1, <2>1, <2>3, <2>4
  <2>6. bill = [i \in Invoices |-> bill[i]]
    BY <2>3
  <2>7. ASSUME NEW i \in Invoices, NEW s \in Services, FirstInvoice[s] = i PROVE bill[i].svc = s
    BY <2>2, <2>3, <2>7
  <2> QED  BY <2>5, <2>6, <2>7
<1>3. PlanTables
  <2>1. pauses = [s \in Services |-> <<>>] /\ today = 0
    BY DEF Init
  <2>2. <<>> \in Seq(PauseRecords) /\ 0 \in 0..LastDay
    BY DaysAssumption
  <2> QED  BY <1>2, <2>1, <2>2 DEF PlanTables
<1>4. OneAtWork
  <2>1. Free \in ActorRecords /\ Free.pc = "idle"
    <3>1. NewService \in ServiceRecords
      BY DEF NewService, ServiceRecords
    <3> QED  BY <1>1, <3>1 DEF Free, ActorRecords
  <2>2. actor = [a \in Actors |-> Free]
    BY DEF Init
  <2> HIDE DEF Free
  <2> QED  BY <2>1, <2>2 DEF OneAtWork, StillSo
<1>5. ASSUME NEW s \in Services PROVE DateOK(s)
  <2>1. BillsOf(s) = {FirstInvoice[s]}
    <3>1. PICK total \in Totals : invoice = [i \in Invoices |->
            IF \E r \in Services : FirstInvoice[r] = i
            THEN [status |-> "PENDING", total |-> total, paid |-> 0] ELSE NotIssued]
      BY DEF Init
    <3>2. FirstInvoice[s] \in Invoices /\ invoice[FirstInvoice[s]].status # "NONE" /\ bill[FirstInvoice[s]].svc = s
      BY <1>2, <3>1, FirstInvoices
    <3>3. ASSUME NEW i \in Invoices, invoice[i].status # "NONE", bill[i].svc = s PROVE i = FirstInvoice[s]
      <4>1. PICK r \in Services : FirstInvoice[r] = i
        BY <3>1, <3>3 DEF NotIssued
      <4> QED  BY <1>2, <3>3, <4>1
    <3> QED  BY <3>2, <3>3 DEF BillsOf
  <2>2. Cardinality(BillsOf(s)) = 1
    <3>1. Cardinality({} \cup {FirstInvoice[s]}) = Cardinality({}) + 1
      BY FS_EmptySet, FS_AddElement
    <3>2. {} \cup {FirstInvoice[s]} = BillsOf(s)
      BY <2>1
    <3> QED  BY <3>1, <3>2, FS_EmptySet
  <2>3. DaysIn(pauses[s]) = 0
    BY DaysNone DEF Init
  <2>4. Billed(s) = Cycle
    BY <2>2, <2>3, DaysAssumption DEF Billed
  <2>5. service[s].nextBillingAt = Cycle /\ service[s].pausedUntil = 0
    BY DEF Init, NewService
  <2> QED  BY <2>4, <2>5, DaysAssumption DEF DateOK
<1> QED  BY <1>3, <1>4, <1>5, InitAccount DEF DateInv

LEMMA DateStep == ASSUME DateInv, ~Overlap, [Next]_vars PROVE DateInv'
<1>1. CASE UNCHANGED vars
  <2>1. /\ UNCHANGED paymentVars /\ UNCHANGED <<service, invoice, today, bill, pauses, actor>>
    BY <1>1 DEF vars, planVars, paymentVars, accountVars
  <2>2. AccountInv'
    BY <2>1, AccountStep DEF DateInv
  <2>3. PlanTables' /\ OneAtWork'
    BY <2>1 DEF DateInv, PlanTables, OneAtWork, StillSo
  <2>4. SameDates /\ SameBills
    BY <2>1 DEF SameDates, SameBills, BillsOf
  <2> QED  BY <2>1, <2>2, <2>3, <2>4, DatesStay DEF DateInv
<1>2. CASE dayPasses
  BY <1>2, DayDates
<1>3. CASE \E i \in Invoices : markOverdue(i)
  BY <1>3, OverdueDates
<1>4. CASE \E s \in Services : Sweeping(s) \/ \E a \in Staff : Asking(a, s)
  BY <1>4, BeginsDates
<1>5. CASE \E a \in Actors : Continuing(a) \/ crash(a)
  BY <1>5, SwitchDates, StampDates, ResumeDates, StatusDates, ExtendDates, RenewalDates DEF Continuing
<1>6. CASE Paying /\ UNCHANGED planVars
  BY <1>6, PayingDates
<1> QED  BY <1>1, <1>2, <1>3, <1>4, <1>5, <1>6 DEF Next

LEMMA DateInductive == ASSUME ~Overlap PROVE Spec => []DateInv
<1>1. DateInv /\ [Next]_vars => DateInv'
  BY DateStep
<1> QED  BY <1>1, InitDates, PTL DEF Spec

\* While requests about subscriptions do not overlap, no sweep, resumption or request brings
\* back a plan that was cancelled (reactivateSubscription refuses one), and a payment only one
\* that it listed while it was suspended (recordPaymentForInvoice).
THEOREM OnlyListedRevive == ASSUME ~Overlap PROVE Spec => OnlyListedPlansRevive
<1>1. Init => CancelInv /\ ListedInv
  BY InitCancel DEF Init, ListedInv, Resting, Task
<1>2. CancelInv /\ ListedInv /\ DateInv /\ [Next]_vars => CancelInv' /\ ListedInv' /\ [RevivesListed]_vars
  <2> SUFFICES ASSUME CancelInv, ListedInv, DateInv, [Next]_vars
               PROVE  CancelInv' /\ ListedInv' /\ [RevivesListed]_vars
    OBVIOUS
  <2>1. CASE StayCancelled /\ UNCHANGED worker
    BY <2>1, CancelStep DEF StayCancelled, ListedInv, RevivesListed
  <2>2. CASE Paying
    BY <2>2, CancelStep, PayingLists DEF DateInv
  <2> QED  BY <2>1, <2>2, CancelStep
<1> QED  BY <1>1, <1>2, DateInductive, PTL DEF Spec, OnlyListedPlansRevive, RevivesListed

\* Requests that do not overlap bill no period twice and no paused day, in whatever order
\* renewals, pauses, early resumptions and crashes come (billing-cycle and pause services):
\* the billing date is a cycle for each invoice, and the days paused, after the beginning.
THEOREM BillingDates == ASSUME ~Overlap, "extend" \notin Asked PROVE Spec => []BillingDateAgrees
<1>1. DateInv => BillingDateAgrees
  <2> SUFFICES ASSUME DateInv, NEW s \in Services
               PROVE  service[s].nextBillingAt = Cycle * Cardinality(BillsOf(s)) + usedDays(s)
    BY DEF BillingDateAgrees
  <2>1. usedDays(s) = DaysIn(pauses[s])
    BY DEF usedDays, SumFunction, DaysIn
  <2> QED  BY <2>1 DEF DateInv, DateOK, Billed
<1> QED  BY <1>1, DateInductive, PTL

\* With extensions the date is later, by what staff added, and never sooner: no period, and no
\* paused day, is billed before its time.
BilledNoSooner ==
    \A s \in Services : service[s].nextBillingAt >= Cycle * Cardinality(BillsOf(s)) + usedDays(s)

THEOREM NotBilledSooner == ASSUME ~Overlap PROVE Spec => []BilledNoSooner
<1>1. DateInv => BilledNoSooner
  <2> SUFFICES ASSUME DateInv, NEW s \in Services
               PROVE  service[s].nextBillingAt >= Cycle * Cardinality(BillsOf(s)) + usedDays(s)
    BY DEF BilledNoSooner
  <2>1. usedDays(s) = DaysIn(pauses[s])
    BY DEF usedDays, SumFunction, DaysIn
  <2> QED  BY <2>1 DEF DateInv, DateOK, Billed
<1> QED  BY <1>1, DateInductive, PTL

LEMMA DatesTyped == DateInv => TypeOK
  BY InvInParts DEF DateInv, TypeOK, AccountInv, PlanTables, OneAtWork, PauseRecords, ActorRecords, Steps

-------------------------------------------------------------------------------
(* TenantPlan: what makes a plan ACTIVE, and what may end a running period. *)

PlanDates == 0 .. LastPlanDay + PlanPeriod + PlanGrace
PlanStatuses == {"NONE", "TRIALING", "ACTIVE", "PAST_DUE", "EXPIRED"}
PlanRows == [status : PlanStatuses, ends : PlanDates, graceEnds : PlanDates]
RenewalRows == [status : {"NONE", "PENDING", "COMPLETED", "FAILED"}, ends : PlanDates]
DeskRows == [pc : {"idle", "insert", "complete", "choose", "activate", "trial"},
             row : Renewals \cup {NoRenewal}, seen : [status : PlanStatuses, ends : PlanDates]]

\* A row exists once its prompt was sent, and is COMPLETED only when it was paid.
RenewalsInv ==
    \A r \in Renewals :
        /\ renewal[r].status # "NONE" => ownerPrompt[r] # "none"
        /\ renewal[r].status = "COMPLETED" => ownerPrompt[r] = "paid"

\* A prompt has one request that will insert its row; a callback has an answer and a row;
\* a plan is chosen only by who read that none is paid up.
DesksInv ==
    /\ \A d \in PlanDesks :
         /\ planDesk[d].pc = "insert" =>
              /\ planDesk[d].row \in Renewals
              /\ renewal[planDesk[d].row].status = "NONE" /\ ownerPrompt[planDesk[d].row] # "none"
         /\ planDesk[d].pc = "complete" =>
              /\ planDesk[d].row \in Renewals
              /\ renewal[planDesk[d].row].status # "NONE"
              /\ ownerPrompt[planDesk[d].row] \in {"paid", "refused"}
         /\ planDesk[d].pc = "choose" => planDesk[d].seen.status # "ACTIVE"
    /\ \A d, e \in PlanDesks :
         planDesk[d].pc = "insert" /\ planDesk[e].pc = "insert" /\ planDesk[d].row = planDesk[e].row => d = e

PlanInv == PlanTypeOK /\ RenewalsInv /\ DesksInv /\ ActiveWasPaid

LEMMA PlanTypes ==
  PlanTypeOK <=> /\ planDay \in 1..LastPlanDay /\ plan \in PlanRows /\ givenUntil \in PlanDates
                 /\ renewal \in [Renewals -> RenewalRows]
                 /\ ownerPrompt \in [Renewals -> {"none", "asked", "paid", "refused"}]
                 /\ planDesk \in [PlanDesks -> DeskRows]
                 /\ planSweep \in [stage : 0..3, found : BOOLEAN]
  BY DEF PlanTypeOK, PlanDates, PlanStatuses, PlanRows, RenewalRows, DeskRows

LEMMA StillTyped ==
  ASSUME planDay' \in 1..LastPlanDay, plan' \in PlanRows, givenUntil' \in PlanDates,
         renewal' \in [Renewals -> RenewalRows],
         ownerPrompt' \in [Renewals -> {"none", "asked", "paid", "refused"}],
         planDesk' \in [PlanDesks -> DeskRows], planSweep' \in [stage : 0..3, found : BOOLEAN]
  PROVE  PlanTypeOK'
  BY DEF PlanTypeOK, PlanDates, PlanStatuses, PlanRows, RenewalRows, DeskRows

LEMMA DateFacts ==
  /\ LastPlanDay \in Nat \ {0} /\ PlanPeriod \in Nat \ {0} /\ PlanGrace \in Nat
  /\ 0 \in PlanDates /\ 0..LastPlanDay \subseteq PlanDates
  /\ \A day \in 0..LastPlanDay : day + PlanPeriod \in PlanDates /\ day + PlanGrace \in PlanDates
  BY TenantPlanAssumption DEF PlanDates

LEMMA FreeRow == DeskFree \in DeskRows /\ DeskFree.pc = "idle"
  BY DateFacts DEF DeskFree, DeskRows, PlanStatuses, NoDate

LEMMA WrittenPlan ==
  ASSUME NEW day \in PlanDates
  PROVE  /\ TrialUntil(day) \in PlanRows /\ TrialUntil(day).status = "TRIALING"
         /\ ActiveUntil(day) \in PlanRows /\ ActiveUntil(day).status = "ACTIVE" /\ ActiveUntil(day).ends = day
  BY DateFacts DEF TrialUntil, ActiveUntil, PlanRows, PlanStatuses, NoDate

LEMMA InitPlan == PlanInit => PlanInv
<1> SUFFICES ASSUME PlanInit PROVE PlanInv
  OBVIOUS
<1>1. PlanTypeOK
  <2>1. plan \in PlanRows
    <3>1. NoPlan \in PlanRows
      BY DateFacts DEF NoPlan, PlanRows, PlanStatuses, NoDate
    <3>2. \A day \in 2..LastPlanDay : day \in PlanDates
      BY DateFacts
    <3> QED  BY <3>1, <3>2, WrittenPlan DEF PlanInit
  <2>2. renewal \in [Renewals -> RenewalRows]
    BY DateFacts DEF PlanInit, RenewalRows, NoDate
  <2>3. planDay \in 1..LastPlanDay /\ givenUntil \in PlanDates
    BY DateFacts DEF PlanInit, NoDate
  <2>4. planDesk \in [PlanDesks -> DeskRows]
    BY FreeRow DEF PlanInit
  <2>5. ownerPrompt \in [Renewals -> {"none", "asked", "paid", "refused"}]
        /\ planSweep \in [stage : 0..3, found : BOOLEAN]
    BY DEF PlanInit
  <2> QED  BY <2>1, <2>2, <2>3, <2>4, <2>5, PlanTypes
<1>2. RenewalsInv /\ DesksInv
  BY FreeRow DEF PlanInit, RenewalsInv, DesksInv
<1>3. ActiveWasPaid
  BY DEF PlanInit, ActiveWasPaid, NoPlan, TrialUntil
<1> QED  BY <1>1, <1>2, <1>3 DEF PlanInv

\* A desk turns to a job, or is done with it; the tables of renewals stay.
LEMMA DeskTurns ==
  ASSUME PlanInv, NEW d \in PlanDesks, NEW job \in DeskRows, planDesk' = [planDesk EXCEPT ![d] = job],
         UNCHANGED <<renewal, ownerPrompt>>,
         job.pc \in {"idle", "complete", "choose", "activate", "trial"},
         job.pc = "complete" => /\ job.row \in Renewals /\ renewal[job.row].status # "NONE"
                                /\ ownerPrompt[job.row] \in {"paid", "refused"},
         job.pc = "choose" => job.seen.status # "ACTIVE"
  PROVE  planDesk' \in [PlanDesks -> DeskRows] /\ RenewalsInv' /\ DesksInv'
<1>1. /\ planDesk' \in [PlanDesks -> DeskRows]
      /\ \A e \in PlanDesks : planDesk'[e] = IF e = d THEN job ELSE planDesk[e]
  BY PlanTypes DEF PlanInv
<1>2. RenewalsInv'
  BY DEF PlanInv, RenewalsInv
<1>3. DesksInv'
  BY <1>1 DEF PlanInv, DesksInv
<1> QED  BY <1>1, <1>2, <1>3

\* A plan that is written and not ACTIVE, or as it was, needs no payment.
LEMMA NotActive ==
  ASSUME PlanInv, UNCHANGED <<renewal, ownerPrompt, givenUntil>>,
         plan' = plan \/ plan'.status # "ACTIVE"
  PROVE  ActiveWasPaid'
  BY DEF PlanInv, ActiveWasPaid

LEMMA DayInv == ASSUME PlanInv, planDayPasses PROVE PlanInv'
<1>1. PlanTypeOK'
  <2>1. planDay \in 1..LastPlanDay /\ planDay < LastPlanDay /\ planDay' = planDay + 1
    BY PlanTypes DEF PlanInv, planDayPasses
  <2>2. planDay' \in 1..LastPlanDay
    BY <2>1, DateFacts
  <2> QED  BY <2>2, PlanTypes, StillTyped DEF PlanInv, planDayPasses
<1> QED  BY <1>1 DEF PlanInv, RenewalsInv, DesksInv, ActiveWasPaid, planDayPasses

LEMMA InitiateInv ==
  ASSUME PlanInv, NEW d \in PlanDesks, NEW r \in Renewals, initiateSubscriptionCharge(d, r)
  PROVE  PlanInv'
<1>1. /\ planDesk[d] = DeskFree /\ ownerPrompt[r] = "none"
      /\ ownerPrompt' = [ownerPrompt EXCEPT ![r] = "asked"]
      /\ UNCHANGED <<planDay, plan, renewal, givenUntil, planSweep>>
  BY DEF initiateSubscriptionCharge
<1>2. /\ planDesk' \in [PlanDesks -> DeskRows] /\ planDesk'[d].pc = "insert" /\ planDesk'[d].row = r
      /\ \A e \in PlanDesks \ {d} : planDesk'[e] = planDesk[e]
  <2>1. planDesk' = [planDesk EXCEPT ![d].pc = "insert", ![d].row = r] /\ planDesk \in [PlanDesks -> DeskRows]
    BY PlanTypes DEF PlanInv, initiateSubscriptionCharge, Turns
  <2> QED  BY <2>1 DEF DeskRows
<1>3. /\ ownerPrompt' \in [Renewals -> {"none", "asked", "paid", "refused"}] /\ ownerPrompt'[r] = "asked"
      /\ \A s \in Renewals \ {r} : ownerPrompt'[s] = ownerPrompt[s]
  BY <1>1, PlanTypes DEF PlanInv
<1>4. renewal[r].status = "NONE"
  BY <1>1 DEF PlanInv, RenewalsInv
<1>5. PlanTypeOK'
  BY <1>1, <1>2, <1>3, PlanTypes, StillTyped DEF PlanInv
<1>6. RenewalsInv'
  BY <1>1, <1>3, <1>4 DEF PlanInv, RenewalsInv
<1>7. DesksInv'
  <2>1. \A e \in PlanDesks \ {d} : planDesk[e].pc = "insert" => planDesk[e].row # r
    BY <1>1 DEF PlanInv, DesksInv
  <2> QED  BY <1>1, <1>2, <1>3, <1>4, <2>1 DEF PlanInv, DesksInv
<1>8. ActiveWasPaid'
  BY <1>1, <1>3 DEF PlanInv, ActiveWasPaid
<1> QED  BY <1>5, <1>6, <1>7, <1>8 DEF PlanInv

LEMMA InsertInv ==
  ASSUME PlanInv, NEW d \in PlanDesks, createSubscriptionPayment(d)
  PROVE  PlanInv'
<1> DEFINE r == planDesk[d].row
           row == [status |-> "PENDING", ends |-> planDay + PlanPeriod]
<1>1. /\ planDesk[d].pc = "insert" /\ r \in Renewals /\ ownerPrompt[r] # "none"
      /\ renewal[r].status = "NONE"
      /\ renewal' = [renewal EXCEPT ![r] = row] /\ planDesk' = [planDesk EXCEPT ![d] = DeskFree]
      /\ UNCHANGED <<planDay, plan, ownerPrompt, givenUntil, planSweep>>
  BY DEF createSubscriptionPayment, Frees, PlanInv, DesksInv
<1>2. row \in RenewalRows
  BY PlanTypes, DateFacts DEF PlanInv, RenewalRows
<1>3. /\ renewal' \in [Renewals -> RenewalRows] /\ renewal'[r].status = "PENDING"
      /\ \A s \in Renewals \ {r} : renewal'[s] = renewal[s]
  BY <1>1, <1>2, PlanTypes DEF PlanInv
<1>4. /\ planDesk' \in [PlanDesks -> DeskRows] /\ planDesk'[d].pc = "idle"
      /\ \A e \in PlanDesks \ {d} : planDesk'[e] = planDesk[e]
  BY <1>1, FreeRow, PlanTypes DEF PlanInv
<1>5. PlanTypeOK'
  BY <1>1, <1>3, <1>4, PlanTypes, StillTyped DEF PlanInv
<1>6. RenewalsInv'
  BY <1>1, <1>3 DEF PlanInv, RenewalsInv
<1>7. DesksInv'
  BY <1>1, <1>3, <1>4 DEF PlanInv, DesksInv
<1>8. ActiveWasPaid'
  BY <1>1, <1>3 DEF PlanInv, ActiveWasPaid
<1> QED  BY <1>5, <1>6, <1>7, <1>8 DEF PlanInv

LEMMA AnswerInv == ASSUME PlanInv, NEW r \in Renewals, ownerAnswers(r) PROVE PlanInv'
<1>1. /\ ownerPrompt[r] = "asked"
      /\ UNCHANGED <<planDay, plan, renewal, givenUntil, planDesk, planSweep>>
  BY DEF ownerAnswers
<1>2. /\ ownerPrompt' \in [Renewals -> {"none", "asked", "paid", "refused"}]
      /\ ownerPrompt'[r] \in {"paid", "refused"}
      /\ \A s \in Renewals \ {r} : ownerPrompt'[s] = ownerPrompt[s]
  BY PlanTypes DEF PlanInv, ownerAnswers
<1>3. PlanTypeOK'
  BY <1>1, <1>2, PlanTypes, StillTyped DEF PlanInv
<1>4. renewal[r].status # "COMPLETED"
  BY <1>1 DEF PlanInv, RenewalsInv
<1>5. RenewalsInv'
  BY <1>1, <1>2, <1>4 DEF PlanInv, RenewalsInv
<1>6. DesksInv'
  BY <1>1, <1>2 DEF PlanInv, DesksInv
<1>7. ActiveWasPaid'
  BY <1>1, <1>2, <1>4 DEF PlanInv, ActiveWasPaid
<1> QED  BY <1>3, <1>5, <1>6, <1>7 DEF PlanInv

\* The only step besides the staff's that makes a plan ACTIVE: the answer it looks at is
\* the phone's, and stays what it is however often the callback comes.
LEMMA CompletePlanInv ==
  ASSUME PlanInv, NEW d \in PlanDesks, completeSubscriptionPayment(d)
  PROVE  PlanInv'
<1> DEFINE r == planDesk[d].row
<1>1. /\ r \in Renewals /\ renewal[r].status # "NONE" /\ ownerPrompt[r] \in {"paid", "refused"}
      /\ renewal' = [renewal EXCEPT ![r].status = IF Succeeded(r) THEN "COMPLETED" ELSE "FAILED"]
      /\ plan' = IF Succeeded(r) THEN ActiveUntil(renewal[r].ends) ELSE plan
      /\ planDesk' = [planDesk EXCEPT ![d] = DeskFree]
      /\ UNCHANGED <<planDay, ownerPrompt, givenUntil, planSweep>>
      /\ Succeeded(r) <=> ownerPrompt[r] = "paid"
  BY DEF completeSubscriptionPayment, Succeeded, Frees, PlanInv, DesksInv
<1>2. /\ renewal' \in [Renewals -> RenewalRows] /\ renewal'[r].ends = renewal[r].ends
      /\ renewal'[r].status = IF Succeeded(r) THEN "COMPLETED" ELSE "FAILED"
      /\ \A s \in Renewals \ {r} : renewal'[s] = renewal[s]
  <2>1. renewal \in [Renewals -> RenewalRows]
    BY PlanTypes DEF PlanInv
  <2> QED  BY <1>1, <2>1 DEF RenewalRows
<1>3. /\ planDesk' \in [PlanDesks -> DeskRows] /\ planDesk'[d].pc = "idle"
      /\ \A e \in PlanDesks \ {d} : planDesk'[e] = planDesk[e]
  BY <1>1, FreeRow, PlanTypes DEF PlanInv
<1>4. /\ renewal[r].ends \in PlanDates /\ ActiveUntil(renewal[r].ends) \in PlanRows
      /\ ActiveUntil(renewal[r].ends).ends = renewal[r].ends
  <2>1. renewal[r].ends \in PlanDates
    BY <1>1, PlanTypes DEF PlanInv, RenewalRows
  <2> QED  BY <2>1, WrittenPlan
<1>5. PlanTypeOK'
  BY <1>1, <1>2, <1>3, <1>4, PlanTypes, StillTyped DEF PlanInv
<1>6. RenewalsInv'
  BY <1>1, <1>2 DEF PlanInv, RenewalsInv
<1>7. DesksInv'
  <2>1. renewal'[r].status # "NONE"
    BY <1>2
  <2> QED  BY <1>1, <1>2, <1>3, <2>1 DEF PlanInv, DesksInv
<1>8. ActiveWasPaid'
  <2>1. CASE Succeeded(r)
    BY <1>1, <1>2, <1>4, <2>1 DEF ActiveWasPaid
  <2>2. CASE ~Succeeded(r)
    <3>1. \A s \in Renewals : renewal[s].status = "COMPLETED" => renewal'[s] = renewal[s]
      BY <1>1, <1>2, <2>2 DEF PlanInv, RenewalsInv
    <3> QED  BY <1>1, <2>2, <3>1 DEF PlanInv, ActiveWasPaid
  <2> QED  BY <2>1, <2>2
<1> QED  BY <1>5, <1>6, <1>7, <1>8 DEF PlanInv

\* A request that reads the plan, or a callback its row.
LEMMA ReadsInv ==
  ASSUME PlanInv, NEW d \in PlanDesks,
         \/ \E r \in Renewals : tryCompleteSubscriptionPaymentCallback(d, r)
         \/ choosePlan(d) \/ activateSubscription(d) \/ changeTrial(d)
  PROVE  PlanInv'
<1>1. UNCHANGED <<planDay, plan, renewal, ownerPrompt, givenUntil, planSweep>>
  BY DEF tryCompleteSubscriptionPaymentCallback, choosePlan, activateSubscription, changeTrial, Reads
<1>2. PICK job \in DeskRows :
        /\ planDesk' = [planDesk EXCEPT ![d] = job]
        /\ job.pc \in {"complete", "choose", "activate", "trial"}
        /\ job.pc = "complete" => /\ job.row \in Renewals /\ renewal[job.row].status # "NONE"
                                  /\ ownerPrompt[job.row] \in {"paid", "refused"}
        /\ job.pc = "choose" => job.seen.status # "ACTIVE"
  <2>1. planDesk \in [PlanDesks -> DeskRows] /\ plan \in PlanRows
    BY PlanTypes DEF PlanInv
  <2>2. ASSUME NEW r \in Renewals, tryCompleteSubscriptionPaymentCallback(d, r)
        PROVE  planDesk'[d] \in DeskRows /\ planDesk' = [planDesk EXCEPT ![d] = planDesk'[d]]
               /\ planDesk'[d].pc = "complete" /\ planDesk'[d].row = r
    BY <2>1, <2>2 DEF tryCompleteSubscriptionPaymentCallback, Turns, DeskRows
  <2>3. ASSUME NEW pc \in {"choose", "activate", "trial"}, Reads(d, pc)
        PROVE  planDesk'[d] \in DeskRows /\ planDesk' = [planDesk EXCEPT ![d] = planDesk'[d]]
               /\ planDesk'[d].pc = pc /\ planDesk'[d].seen.status = plan.status
    <3>1. Glance \in [status : PlanStatuses, ends : PlanDates] /\ Glance.status = plan.status
      BY <2>1 DEF Glance, PlanRows
    <3> QED  BY <2>1, <2>3, <3>1 DEF Reads, DeskRows
  <2> QED  BY <2>2, <2>3 DEF choosePlan, activateSubscription, changeTrial, MayChoose, tryCompleteSubscriptionPaymentCallback
<1>3. planDesk' \in [PlanDesks -> DeskRows] /\ RenewalsInv' /\ DesksInv'
  BY <1>1, <1>2, DeskTurns
<1>4. PlanTypeOK'
  BY <1>1, <1>3, PlanTypes, StillTyped DEF PlanInv
<1> QED  BY <1>1, <1>3, <1>4, NotActive DEF PlanInv

\* A desk that is done: what it wrote of the plan is well-formed and not unpaid.
LEMMA DeskDone ==
  ASSUME PlanInv, NEW d \in PlanDesks, Frees(d), plan' \in PlanRows, givenUntil' \in PlanDates,
         UNCHANGED <<planDay, renewal, ownerPrompt, planSweep>>, ActiveWasPaid'
  PROVE  PlanInv'
<1>1. planDesk' \in [PlanDesks -> DeskRows] /\ RenewalsInv' /\ DesksInv'
  BY FreeRow, DeskTurns DEF Frees
<1>2. PlanTypeOK'
  BY <1>1, PlanTypes, StillTyped DEF PlanInv
<1> QED  BY <1>1, <1>2 DEF PlanInv

LEMMA ChosenInv == ASSUME PlanInv, NEW d \in PlanDesks, writeChosenPlan(d) PROVE PlanInv'
<1>1. plan \in PlanRows /\ planDay \in PlanDates /\ givenUntil \in PlanDates
  BY PlanTypes, DateFacts DEF PlanInv
<1>2. /\ [status |-> "EXPIRED", ends |-> planDay, graceEnds |-> NoDate] \in PlanRows
      /\ [plan EXCEPT !.status = "EXPIRED", !.ends = planDay] \in PlanRows
      /\ [plan EXCEPT !.status = "EXPIRED", !.ends = planDay].status = "EXPIRED"
  BY <1>1, DateFacts DEF PlanRows, PlanStatuses, NoDate
<1>3. plan' \in PlanRows /\ (plan' = plan \/ plan'.status # "ACTIVE")
  BY <1>1, <1>2 DEF writeChosenPlan
<1>4. Frees(d) /\ UNCHANGED <<planDay, renewal, ownerPrompt, givenUntil, planSweep>>
  BY DEF writeChosenPlan
<1> QED  BY <1>1, <1>3, <1>4, NotActive, DeskDone

LEMMA ActivationInv == ASSUME PlanInv, NEW d \in PlanDesks, writeActivation(d) PROVE PlanInv'
<1> DEFINE seen == planDesk[d].seen
           from == IF seen.status = "ACTIVE" /\ seen.ends > planDay THEN seen.ends ELSE planDay
<1>1. /\ Frees(d) /\ UNCHANGED <<planDay, renewal, ownerPrompt, planSweep>> /\ from <= LastPlanDay
      /\ \/ UNCHANGED <<plan, givenUntil>>
         \/ plan' = ActiveUntil(from + PlanPeriod) /\ givenUntil' = from + PlanPeriod
  BY DEF writeActivation
<1>2. from \in PlanDates /\ from + PlanPeriod \in PlanDates
  <2>1. seen.ends \in PlanDates /\ planDay \in 1..LastPlanDay
    BY PlanTypes DEF PlanInv, DeskRows
  <2>2. from \in PlanDates
    BY <2>1, DateFacts
  <2>3. from \in 0..LastPlanDay
    BY <1>1, <2>2, DateFacts DEF PlanDates
  <2> QED  BY <2>2, <2>3, DateFacts
<1> HIDE DEF from
<1>3. CASE UNCHANGED <<plan, givenUntil>>
  BY <1>1, <1>3, NotActive, DeskDone, PlanTypes DEF PlanInv
<1>4. CASE plan' = ActiveUntil(from + PlanPeriod) /\ givenUntil' = from + PlanPeriod
  <2>1. ActiveWasPaid' /\ plan' \in PlanRows /\ givenUntil' \in PlanDates
    BY <1>2, <1>4, WrittenPlan DEF ActiveWasPaid
  <2> QED  BY <1>1, <2>1, DeskDone
<1> QED  BY <1>1, <1>3, <1>4

LEMMA TrialInv == ASSUME PlanInv, NEW d \in PlanDesks, writeTrial(d) PROVE PlanInv'
<1>1. plan \in PlanRows /\ givenUntil \in PlanDates /\ planDay \in 1..LastPlanDay
  BY PlanTypes DEF PlanInv
<1>2. Frees(d) /\ UNCHANGED <<planDay, renewal, ownerPrompt, givenUntil, planSweep>>
  BY DEF writeTrial
<1>3. plan' \in PlanRows /\ (plan' = plan \/ plan'.status # "ACTIVE")
  <2>1. PICK until \in planDay .. LastPlanDay :
          plan' = IF planDesk[d].seen.status \in {"TRIALING", "EXPIRED"}
                  THEN [plan EXCEPT !.status = IF until = planDay THEN "EXPIRED" ELSE "TRIALING",
                                    !.ends = until]
                  ELSE plan
    BY DEF writeTrial
  <2>2. until \in PlanDates
    BY <1>1, DateFacts
  <2> QED  BY <1>1, <2>1, <2>2 DEF PlanRows, PlanStatuses
<1> QED  BY <1>1, <1>2, <1>3, NotActive, DeskDone

LEMMA AssignPlanInv == ASSUME PlanInv, assignPlan PROVE PlanInv'
<1>1. UNCHANGED <<planDay, renewal, ownerPrompt, planDesk, planSweep>> /\ planDay \in 1..LastPlanDay
  BY PlanTypes DEF PlanInv, assignPlan
<1>2. plan' \in PlanRows /\ givenUntil' \in PlanDates /\ ActiveWasPaid'
  <2>1. CASE \E until \in planDay + 1 .. LastPlanDay : plan' = TrialUntil(until) /\ UNCHANGED givenUntil
    <3>1. PICK until \in planDay + 1 .. LastPlanDay : plan' = TrialUntil(until)
      BY <2>1
    <3>2. until \in PlanDates
      BY <1>1, DateFacts
    <3> QED  BY <2>1, <3>1, <3>2, WrittenPlan, PlanTypes DEF PlanInv, ActiveWasPaid
  <2>2. CASE plan' = ActiveUntil(planDay + PlanPeriod) /\ givenUntil' = planDay + PlanPeriod
    <3>1. planDay + PlanPeriod \in PlanDates
      BY <1>1, DateFacts
    <3> QED  BY <2>2, <3>1, WrittenPlan DEF ActiveWasPaid
  <2> QED  BY <2>1, <2>2 DEF assignPlan
<1>3. PlanTypeOK'
  BY <1>1, <1>2, PlanTypes, StillTyped DEF PlanInv
<1> QED  BY <1>1, <1>2, <1>3 DEF PlanInv, RenewalsInv, DesksInv

LEMMA RenewalDiesInv == ASSUME PlanInv, NEW d \in PlanDesks, renewalDies(d) PROVE PlanInv'
<1>1. Frees(d) /\ UNCHANGED <<planDay, plan, renewal, ownerPrompt, givenUntil, planSweep>>
  BY DEF renewalDies
<1> QED  BY <1>1, NotActive, DeskDone, PlanTypes DEF PlanInv

LEMMA PlanSweepInv == ASSUME PlanInv, planSweepStep \/ planSweepDies PROVE PlanInv'
<1>1. /\ UNCHANGED <<planDay, renewal, ownerPrompt, givenUntil, planDesk>>
      /\ plan' = plan \/ planSweep.found
  BY DEF planSweepStep, planSweepDies, listStage, writeStage, planSweepEnds
<1>2. planSweep' \in [stage : 0..3, found : BOOLEAN]
  <2>1. planSweep \in [stage : 0..3, found : BOOLEAN]
    BY PlanTypes DEF PlanInv
  <2>2. ASSUME NEW stage \in 1..3, listStage(stage) PROVE planSweep' \in [stage : 0..3, found : BOOLEAN]
    <3>1. Listed(stage) \in BOOLEAN
      BY DEF Listed, TrialOver, PeriodOver, GraceOver
    <3> QED  BY <2>2, <3>1 DEF listStage
  <2>3. CASE writeStage \/ planSweepEnds \/ planSweepDies
    <3>1. \A stage \in 0..3 : [stage |-> stage, found |-> FALSE] \in [stage : 0..3, found : BOOLEAN]
      OBVIOUS
    <3>2. planSweep.stage \in 0..3 /\ 0 \in 0..3
      BY <2>1
    <3>3. planSweep' = [stage |-> planSweep.stage, found |-> FALSE] \/ planSweep' = [stage |-> 0, found |-> FALSE]
      BY <2>1, <2>3 DEF writeStage, planSweepEnds, planSweepDies
    <3> QED  BY <3>1, <3>2, <3>3
  <2> QED  BY <2>2, <2>3 DEF planSweepStep
<1>3. plan' \in PlanRows /\ (plan' = plan \/ plan'.status # "ACTIVE")
  <2>1. plan \in PlanRows /\ planDay + PlanGrace \in PlanDates
    BY PlanTypes, DateFacts DEF PlanInv
  <2>2. CASE writeStage
    BY <2>1, <2>2 DEF writeStage, PlanRows, PlanStatuses
  <2>3. CASE ~writeStage
    BY <2>1, <2>3 DEF planSweepStep, planSweepDies, listStage, planSweepEnds
  <2> QED  BY <2>2, <2>3
<1>4. PlanTypeOK'
  BY <1>1, <1>2, <1>3, PlanTypes, StillTyped DEF PlanInv
<1> QED  BY <1>1, <1>3, <1>4, NotActive DEF PlanInv, RenewalsInv, DesksInv

LEMMA PlanInvStep == PlanInv /\ [PlanNext]_tenantPlanVars => PlanInv'
<1> SUFFICES ASSUME PlanInv, [PlanNext]_tenantPlanVars PROVE PlanInv'
  OBVIOUS
<1>1. CASE UNCHANGED tenantPlanVars
  BY <1>1 DEF tenantPlanVars, PlanInv, PlanTypeOK, RenewalsInv, DesksInv, ActiveWasPaid
<1>2. CASE PlanNext
  BY <1>2, DayInv, AssignPlanInv, AnswerInv, InitiateInv, InsertInv, CompletePlanInv, ReadsInv,
     ChosenInv, ActivationInv, TrialInv, RenewalDiesInv, PlanSweepInv DEF PlanNext, DeskStep
<1> QED  BY <1>1, <1>2

LEMMA PlanInductive == PlanSpec => []PlanInv
  BY PlanInvStep, InitPlan, PTL DEF PlanSpec

\* An ISP's plan is ACTIVE only for a period that the owner's phone paid for or the staff
\* gave, however callbacks repeat and requests overlap (completeSubscriptionPayment).
THEOREM ActivePlanWasPaid == PlanSpec => []ActiveWasPaid
  BY PlanInductive, PTL DEF PlanInv

\* A running period is taken away only by a sweep that listed the plan or by a request that
\* read it before it was paid for (choosePlan refuses a plan it sees paid up).
THEOREM RunningPeriodStands == PlanSpec => PaidPeriodStands
<1> DEFINE Stands ==
        plan.status = "ACTIVE" /\ planDay <= plan.ends /\ plan'.status # "ACTIVE" =>
            \/ planSweep.found
            \/ \E d \in PlanDesks : planDesk[d].pc \in {"choose", "trial"} /\ planDesk[d].seen.status # "ACTIVE"
<1>1. PlanInv /\ PlanNext => Stands
  <2> SUFFICES ASSUME PlanInv, PlanNext, plan.status = "ACTIVE", plan'.status # "ACTIVE"
               PROVE  \/ planSweep.found
                      \/ \E d \in PlanDesks :
                           planDesk[d].pc \in {"choose", "trial"} /\ planDesk[d].seen.status # "ACTIVE"
    OBVIOUS
  <2>1. CASE \E d \in PlanDesks : writeChosenPlan(d) \/ writeTrial(d)
    BY <2>1 DEF PlanInv, DesksInv, writeChosenPlan, writeTrial
  <2>2. CASE writeStage
    BY <2>2 DEF writeStage
  <2>3. ASSUME NEW d \in PlanDesks, completeSubscriptionPayment(d) \/ writeActivation(d) PROVE FALSE
    BY <2>3 DEF completeSubscriptionPayment, writeActivation, ActiveUntil
  <2>4. CASE assignPlan
    BY <2>4 DEF assignPlan
  <2>5. ASSUME NEW d \in PlanDesks,
               \/ \E r \in Renewals :
                    initiateSubscriptionCharge(d, r) \/ tryCompleteSubscriptionPaymentCallback(d, r)
               \/ createSubscriptionPayment(d) \/ choosePlan(d) \/ activateSubscription(d)
               \/ changeTrial(d) \/ renewalDies(d)
        PROVE  FALSE
    BY <2>5 DEF initiateSubscriptionCharge, tryCompleteSubscriptionPaymentCallback,
       createSubscriptionPayment, choosePlan, activateSubscription, changeTrial, renewalDies, Reads
  <2>6. CASE \/ planDayPasses \/ planSweepDies \/ planSweepEnds
             \/ \E r \in Renewals : ownerAnswers(r)
             \/ \E stage \in 1..3 : listStage(stage)
    BY <2>6 DEF planDayPasses, planSweepDies, planSweepEnds, ownerAnswers, listStage
  <2> QED  BY <2>1, <2>2, <2>3, <2>4, <2>5, <2>6 DEF PlanNext, DeskStep, planSweepStep
<1>2. PlanInv /\ [PlanNext]_tenantPlanVars => [Stands]_tenantPlanVars
  BY <1>1
<1> QED  BY <1>2, PlanInductive, PTL DEF PlanSpec, PaidPeriodStands

-------------------------------------------------------------------------------
(* Both kinds of plan. *)

\* A billing date that takes unused days back, or an extension, never goes below zero, and
\* every row stays well-formed, those of the ISP's own plan with the platform included.
THEOREM PlansTyped == ASSUME ~Overlap PROVE PlansSpec => []PlansTypeOK
<1>1. PlansSpec => Init /\ [][Next]_vars
  <2>1. PlansInit => Init
    BY DEF PlansInit
  <2>2. [PlansNext]_<<focus, vars, tenantPlanVars>> => [Next]_vars
    BY DEF PlansNext, CustomerTurn, IspTurn
  <2> QED  BY <2>1, <2>2, PTL DEF PlansSpec
<1>2. PlansSpec => []DateInv
  BY <1>1, DateInductive, PTL DEF Spec
<1>3. PlansSpec => []PlanInv
  <2>1. PlansInit => PlanInv
    BY InitPlan DEF PlansInit
  <2>2. [PlansNext]_<<focus, vars, tenantPlanVars>> => [PlanNext]_tenantPlanVars
    BY DEF PlansNext, CustomerTurn, IspTurn
  <2> QED  BY <2>1, <2>2, PlanInvStep, PTL DEF PlansSpec
<1>4. DateInv /\ PlanInv => PlansTypeOK
  BY DatesTyped DEF PlansTypeOK, PlanInv
<1> QED  BY <1>2, <1>3, <1>4, PTL
===============================================================================
