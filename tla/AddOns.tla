--------------------------------- MODULE AddOns ---------------------------------
(***************************************************************************)
(* Speed boosts for one plan, bought for some hours                        *)
(*   packages/billing/src/addon.service.ts   buying, starting, ending      *)
(*   packages/radius/src/rate.service.ts     the speed the router is given *)
(*                                                                         *)
(* The worker's sweep, the customer's payment page and staff act on the    *)
(* same purchases; each reads a purchase and writes it in a later step.    *)
(* Several purchases are of one add-on, so one that runs is prolonged.     *)
(***************************************************************************)
EXTENDS Integers, FiniteSetsExt

CONSTANTS
    Purchases,
    DurationHours,
    AbandonAfter,   \* two hours in the code
    AddOnWorkers,   \* sweeps, payment pages and staff requests at one time
    NoPurchase,
    LastHour        \* bound: the clock stops here

ASSUME AddOnAssumption ==
    /\ DurationHours \in Nat \ {0} /\ AbandonAfter \in Nat /\ LastHour \in Nat /\ NoPurchase \notin Purchases

VARIABLES
    hour,
    purchase,   \* addon_purchases
    bill,       \* status of the invoice of each
    partPaid,   \* those whose invoice has been paid, in part at least
    starts,     \* how often each was started
    boosted,    \* whether RADIUS gives the subscriber the boost
    sweep       \* what each worker has read

addOnVars == <<hour, purchase, bill, partPaid, starts, boosted, sweep>>

NotBought == [status |-> "NONE", createdAt |-> 0, startsAt |-> 0, endsAt |-> 0]

SweepIdle == [pc |-> "idle", of |-> NoPurchase, at |-> 0, endsAt |-> 0, running |-> {}, boost |-> FALSE]

Payable == {"PENDING", "PARTIALLY_PAID", "OVERDUE"}

anHourPasses ==
    /\ hour < LastHour /\ hour' = hour + 1
    /\ UNCHANGED <<purchase, bill, partPaid, starts, boosted, sweep>>

-------------------------------------------------------------------------------
(* Buying and paying. *)

\* A second tap that finds a waiting purchase is answered with it.
buyAddOn(p) ==
    /\ purchase[p].status = "NONE"
    /\ ~\E q \in Purchases : purchase[q].status = "AWAITING_PAYMENT" /\ bill[q] = "PENDING"
    /\ purchase' = [purchase EXCEPT ![p].status = "AWAITING_PAYMENT", ![p].createdAt = hour]
    /\ bill' = [bill EXCEPT ![p] = "PENDING"]
    /\ UNCHANGED <<hour, partPaid, starts, boosted, sweep>>

\* Payments, and the day it falls due.
invoiceChanges(p) ==
    /\ bill[p] \in Payable
    /\ \/ bill' = [bill EXCEPT ![p] = "OVERDUE"] /\ UNCHANGED partPaid
       \/ /\ \E status \in {"PARTIALLY_PAID", "PAID"} : bill' = [bill EXCEPT ![p] = status]
          /\ partPaid' = partPaid \cup {p}
    /\ UNCHANGED <<hour, purchase, starts, boosted, sweep>>

-------------------------------------------------------------------------------
(* Starting. *)

Reads(w, entry) == sweep' = [sweep EXCEPT ![w] = entry]

Running == {q \in Purchases : purchase[q].status = "ACTIVE" /\ purchase[q].endsAt > hour}

\* The one that ends last.
LastToEnd == {q \in Running : \A r \in Running : purchase[r].endsAt <= purchase[q].endsAt}

addOnEndsAt(running) == (IF running = {} THEN hour ELSE Max({purchase[q].endsAt : q \in running})) + DurationHours

ReadsForStart(w, p) ==
    \E running \in IF LastToEnd = {} THEN {{}} ELSE {{q} : q \in LastToEnd} :
        Reads(w, [SweepIdle EXCEPT !.pc = "claim", !.of = p, !.running = running,
                                   !.at = hour, !.endsAt = addOnEndsAt(running)])

activatePaidAddOns(w, p) ==
    /\ sweep[w].pc = "idle"
    /\ purchase[p].status = "AWAITING_PAYMENT" /\ bill[p] = "PAID"
    /\ ReadsForStart(w, p)
    /\ UNCHANGED <<hour, purchase, bill, partPaid, starts, boosted>>

\* Staff give one for free; it has no invoice.
grantAddOn(w, p) ==
    /\ sweep[w].pc = "idle"
    /\ purchase[p].status = "NONE"
    /\ purchase' = [purchase EXCEPT ![p].status = "AWAITING_PAYMENT", ![p].createdAt = hour]
    /\ ReadsForStart(w, p)
    /\ UNCHANGED <<hour, bill, partPaid, starts, boosted>>

\* Mutant of Claimed: the claim does not look at the status.
AlwaysClaimed(p) == TRUE

Claimed(p) == purchase[p].status = "AWAITING_PAYMENT"

activate(w) ==
    LET me == sweep[w] IN
    /\ me.pc = "claim"
    /\ IF Claimed(me.of)
       THEN /\ purchase' = [purchase EXCEPT ![me.of].status = "ACTIVE", ![me.of].startsAt = me.at,
                                            ![me.of].endsAt = me.endsAt]
            /\ starts' = [starts EXCEPT ![me.of] = @ + 1]
            /\ Reads(w, [me EXCEPT !.pc = "prolong"])
       ELSE UNCHANGED <<purchase, starts>> /\ Reads(w, SweepIdle)
    /\ UNCHANGED <<hour, bill, partPaid, boosted>>

\* The one that was running now ends with this one.
prolongRunning(w) ==
    LET me == sweep[w] IN
    /\ me.pc = "prolong"
    /\ purchase' = [q \in Purchases |->
                      IF q \in me.running THEN [purchase[q] EXCEPT !.endsAt = me.endsAt] ELSE purchase[q]]
    /\ Reads(w, [SweepIdle EXCEPT !.pc = "rate"])
    /\ UNCHANGED <<hour, bill, partPaid, starts, boosted>>

-------------------------------------------------------------------------------
(* Ending and cancelling: what was listed is written whatever it has become. *)

\* Mutant of TimeIsUp: a purchase is ended in its last hour.
LastHourOf(p) == purchase[p].endsAt <= hour + 1

TimeIsUp(p) == purchase[p].endsAt <= hour

expireAddOns(w, p) ==
    /\ sweep[w].pc = "idle"
    /\ purchase[p].status = "ACTIVE" /\ TimeIsUp(p)
    /\ Reads(w, [SweepIdle EXCEPT !.pc = "expire", !.of = p])
    /\ UNCHANGED <<hour, purchase, bill, partPaid, starts, boosted>>

writeExpired(w) ==
    /\ sweep[w].pc = "expire"
    /\ purchase' = [purchase EXCEPT ![sweep[w].of].status = "EXPIRED"]
    /\ Reads(w, [SweepIdle EXCEPT !.pc = "rate"])
    /\ UNCHANGED <<hour, bill, partPaid, starts, boosted>>

\* cancelAbandonedAddOns, after two hours, and cancelUnstartedPurchase, when the prompt
\* could not be sent.
findUnpaid(w, p) ==
    /\ sweep[w].pc = "idle"
    /\ purchase[p].status = "AWAITING_PAYMENT" /\ p \notin partPaid
    /\ \/ bill[p] \in {"NONE", "PENDING", "OVERDUE"} /\ hour > purchase[p].createdAt + AbandonAfter
       \/ bill[p] = "PENDING"
    /\ Reads(w, [SweepIdle EXCEPT !.pc = "cancel", !.of = p])
    /\ UNCHANGED <<hour, purchase, bill, partPaid, starts, boosted>>

cancelAddOn(w) ==
    LET p == sweep[w].of IN
    /\ sweep[w].pc = "cancel"
    /\ purchase' = [purchase EXCEPT ![p].status = "CANCELLED"]
    /\ bill' = [bill EXCEPT ![p] = IF @ = "NONE" THEN @ ELSE "CANCELLED"]
    /\ Reads(w, SweepIdle)
    /\ UNCHANGED <<hour, partPaid, starts, boosted>>

-------------------------------------------------------------------------------
(* refreshSubscriberRate: the fastest boost that runs, or the plan's speed. *)

readRate(w) ==
    /\ sweep[w].pc = "rate"
    /\ Reads(w, [SweepIdle EXCEPT !.pc = "write", !.boost = Running # {}])
    /\ UNCHANGED <<hour, purchase, bill, partPaid, starts, boosted>>

writeRate(w) ==
    /\ sweep[w].pc = "write"
    /\ boosted' = sweep[w].boost
    /\ Reads(w, SweepIdle)
    /\ UNCHANGED <<hour, purchase, bill, partPaid, starts>>

\* A process dies, or RADIUS cannot be written, which is logged.
sweepDies(w) ==
    /\ sweep[w].pc # "idle"
    /\ Reads(w, SweepIdle)
    /\ UNCHANGED <<hour, purchase, bill, partPaid, starts, boosted>>

AddOnInit ==
    /\ hour = 0
    /\ purchase = [p \in Purchases |-> NotBought]
    /\ bill = [p \in Purchases |-> "NONE"]
    /\ partPaid = {}
    /\ starts = [p \in Purchases |-> 0]
    /\ boosted = FALSE
    /\ sweep = [w \in AddOnWorkers |-> SweepIdle]

AddOnNext ==
    \/ anHourPasses
    \/ \E p \in Purchases : buyAddOn(p) \/ invoiceChanges(p)
    \/ \E w \in AddOnWorkers :
         \/ \E p \in Purchases :
              activatePaidAddOns(w, p) \/ grantAddOn(w, p) \/ expireAddOns(w, p) \/ findUnpaid(w, p)
         \/ activate(w) \/ prolongRunning(w) \/ writeExpired(w) \/ cancelAddOn(w)
         \/ readRate(w) \/ writeRate(w) \/ sweepDies(w)

AddOnSpec == AddOnInit /\ [][AddOnNext]_addOnVars

-------------------------------------------------------------------------------
(* Properties. *)

\* The values of the tables and of what workers hold.
AddOnTypeOK ==
    /\ hour \in 0..LastHour /\ boosted \in BOOLEAN
    /\ purchase \in [Purchases -> [status : {"NONE", "AWAITING_PAYMENT", "ACTIVE", "EXPIRED", "CANCELLED"},
                                   createdAt : Nat, startsAt : Nat, endsAt : Nat]]
    /\ bill \in [Purchases -> Payable \cup {"NONE", "PAID", "CANCELLED"}]
    /\ partPaid \subseteq Purchases /\ starts \in [Purchases -> Nat]
    /\ sweep \in [AddOnWorkers -> [pc : {"idle", "claim", "prolong", "expire", "cancel", "rate", "write"},
                                   of : Purchases \cup {NoPurchase}, at : Nat, endsAt : Nat,
                                   running : SUBSET Purchases, boost : BOOLEAN]]

\* "the add-on starts the moment that invoice is paid and ends by itself when its hours are
\* up": however the sweep, the payment page and staff overlap, a purchase starts once, not
\* before its invoice is paid (or as a gift), and is not ended before its own hours are up.
StartsOnceForItsHours ==
    \A p \in Purchases :
        /\ starts[p] <= 1
        /\ starts[p] = 1 /\ bill[p] # "NONE" => p \in partPaid
        /\ purchase[p].status \in {"ACTIVE", "EXPIRED"} =>
              /\ starts[p] = 1 /\ purchase[p].endsAt >= purchase[p].startsAt + DurationHours
              /\ purchase[p].status = "EXPIRED" => hour >= purchase[p].startsAt + DurationHours

===============================================================================
