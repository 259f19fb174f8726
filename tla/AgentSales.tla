------------------------------- MODULE AgentSales -------------------------------
(***************************************************************************)
(* Shops that sell the ISP's vouchers and take customers' payments in cash *)
(*   packages/billing/src/agent.service.ts   sale and collection           *)
(*   apps/api/src/routes/agents.ts           the endpoints                 *)
(*   apps/web/src/components/agent-app.tsx   the agent's screen            *)
(*                                                                         *)
(* One agent and one customer.  Whether a request was recorded before is   *)
(* read outside the transaction that collects.  That transaction, at READ  *)
(* COMMITTED, lists the open invoices, then reads each again without a     *)
(* lock and writes an absolute amountPaidMinor, which locks the row until  *)
(* it commits: another collection may commit between the two.              *)
(***************************************************************************)
EXTENDS Integers, FiniteSetsExt

CONSTANTS
    Bills,          \* how many open invoices the customer has, oldest first
    BillMinor,      \* what each comes to
    CashMinor,      \* what may be handed to the agent at once
    RequestIds,     \* payments the agent enters
    Vouchers,       \* the agent's stock of one package
    Buyers,
    AgentDesks,     \* API requests being handled at one time
    NoRequest,
    RetryWhileBusy  \* whether the agent's phone retries a request that is still running

ASSUME AgentAssumption ==
    /\ Bills \in Nat /\ BillMinor \in Nat \ {0} /\ CashMinor \subseteq Nat \ {0}
    /\ NoRequest \notin RequestIds /\ IsFiniteSet(RequestIds) /\ RetryWhileBusy \in BOOLEAN

VARIABLES
    cash,       \* what the agent was handed for each request, 0 before
    owed,       \* remaining balance of each invoice
    paidOn,     \* payments by idempotency key: the request, and a bill or the wallet (0)
    saleOf,     \* agent_sales of collections: for each request, the payments they name
    soldTo,     \* agent_sales of vouchers: the buyers each was handed to
    desk        \* what each API request is doing, and has read

agentVars == <<cash, owed, paidOn, saleOf, soldTo, desk>>

Wallet == 0

OldestFirst == 1..Bills

\* parts is what the listed invoices take; seen, what each invoice read again still owed.
DeskIdle == [pc |-> "idle", request |-> NoRequest, take |-> {},
             parts |-> [i \in OldestFirst \cup {Wallet} |-> 0], read |-> {},
             seen |-> [i \in OldestFirst |-> 0]]

-------------------------------------------------------------------------------
(* Taking a payment. *)

Busy(r) == \E d \in AgentDesks : desk[d].request = r

AlreadyRecorded(r) == \E i \in OldestFirst \cup {Wallet} : paidOn[r][i] > 0

\* Mutant of MayCollect: the request id is not looked up.
MayAlwaysCollect(r) == TRUE

MayCollect(r) == ~AlreadyRecorded(r)

\* The agent enters an amount, or sends it again; a request recorded before is refused.
requestCollection(d, r) ==
    /\ desk[d].pc = "idle"
    /\ Busy(r) => RetryWhileBusy
    /\ IF cash[r] = 0 THEN \E amount \in CashMinor : cash' = [cash EXCEPT ![r] = amount]
                      ELSE UNCHANGED cash
    /\ MayCollect(r)
    /\ desk' = [desk EXCEPT ![d] = [DeskIdle EXCEPT !.pc = "collect", !.request = r]]
    /\ UNCHANGED <<owed, paidOn, saleOf, soldTo>>

\* What each invoice takes of an amount: the oldest first, the rest to the wallet.
SpreadOf(amount) ==
    LET before(i) == SumFunctionOnSet(owed, 1..(i - 1))
        left(i) == IF amount > before(i) THEN amount - before(i) ELSE 0
    IN  [i \in OldestFirst \cup {Wallet} |->
            IF i = Wallet THEN left(Bills + 1)
            ELSE IF left(i) < owed[i] THEN left(i) ELSE owed[i]]

\* The transaction begins: the open invoices as they are now.
listBills(d) ==
    /\ desk[d].pc = "collect"
    /\ desk' = [desk EXCEPT ![d].pc = "apply", ![d].parts = SpreadOf(cash[desk[d].request])]
    /\ UNCHANGED <<cash, owed, paidOn, saleOf, soldTo>>

Unread(d) == {i \in OldestFirst : desk[d].parts[i] > 0} \ desk[d].read

\* The invoices a request has written and not committed: all it has read but the last.
Written(d) == {i \in desk[d].read : \E j \in desk[d].read : i < j}

\* The invoice read last can be written: no other request's write of it is uncommitted.
MayWrite(d) == \A e \in AgentDesks \ {d} : desk[d].read \cap Written(e) = {}

\* recordPaymentForInvoice, for the next invoice.  A payment that exists is kept as it is
\* (nothing is noted as seen); an invoice that owes less than its part fails the request.
readBill(d) ==
    LET r == desk[d].request IN
    /\ desk[d].pc = "apply" /\ MayWrite(d)
    /\ \E i \in Unread(d) :
         /\ \A j \in Unread(d) : i <= j
         /\ desk' = IF paidOn[r][i] > 0 THEN [desk EXCEPT ![d].read = @ \cup {i}]
                    ELSE IF desk[d].parts[i] <= owed[i]
                    THEN [desk EXCEPT ![d].read = @ \cup {i}, ![d].seen[i] = owed[i]]
                    ELSE [desk EXCEPT ![d] = DeskIdle]
    /\ UNCHANGED <<cash, owed, paidOn, saleOf, soldTo>>

\* The rest goes to the wallet and the transaction commits.  The sale names the first
\* payment; if that has a sale, or a key was used meanwhile, all is rolled back.
collectAgentPayment(d) ==
    LET r == desk[d].request
        parts == desk[d].parts
        taking == {i \in DOMAIN parts : parts[i] > 0}
        fresh == {i \in taking : IF i = Wallet THEN paidOn[r][i] = 0 ELSE desk[d].seen[i] > 0}
        first == IF taking = {Wallet} THEN Wallet ELSE CHOOSE i \in taking \ {Wallet} : \A j \in taking \ {Wallet} : i <= j
    IN
    /\ desk[d].pc = "apply" /\ Unread(d) = {} /\ MayWrite(d)
    /\ IF first \in saleOf[r] \/ \E i \in fresh : paidOn[r][i] > 0
       THEN UNCHANGED <<owed, paidOn, saleOf>>
       ELSE /\ paidOn' = [paidOn EXCEPT ![r] = [i \in DOMAIN parts |-> IF i \in fresh THEN parts[i] ELSE @[i]]]
            /\ owed' = [i \in OldestFirst |-> IF i \in fresh THEN desk[d].seen[i] - parts[i] ELSE owed[i]]
            /\ saleOf' = [saleOf EXCEPT ![r] = @ \cup {first}]
    /\ desk' = [desk EXCEPT ![d] = DeskIdle]
    /\ UNCHANGED <<cash, soldTo>>

\* The server dies, or the transaction fails; the cash has been taken.
requestFails(d) ==
    /\ desk[d].pc # "idle"
    /\ desk' = [desk EXCEPT ![d] = DeskIdle]
    /\ UNCHANGED <<cash, owed, paidOn, saleOf, soldTo>>

-------------------------------------------------------------------------------
(* Selling vouchers. *)

InStock == {v \in Vouchers : soldTo[v] = {}}

\* Any voucher of the package serves (the oldest, in the code).
pickVoucher(d) ==
    /\ desk[d].pc = "idle"
    /\ \E v \in InStock : desk' = [desk EXCEPT ![d] = [DeskIdle EXCEPT !.pc = "sell", !.take = {v}]]
    /\ UNCHANGED <<cash, owed, paidOn, saleOf, soldTo>>

\* Mutant of SaleExists: voucherId is not unique.
SaleNeverExists(v) == FALSE

SaleExists(v) == soldTo[v] # {}

\* Another request may have sold it; then the next one is taken, or none is left (five
\* attempts, in the code).
sellAgentVoucher(d, buyer) ==
    /\ desk[d].pc = "sell" /\ \A v \in Vouchers : buyer \notin soldTo[v]
    /\ \E v \in desk[d].take :
         \/ /\ ~SaleExists(v)
            /\ soldTo' = [soldTo EXCEPT ![v] = @ \cup {buyer}]
            /\ desk' = [desk EXCEPT ![d] = DeskIdle]
         \/ /\ SaleExists(v) /\ UNCHANGED soldTo
            /\ desk' \in {[desk EXCEPT ![d].take = {u}] : u \in InStock} \cup {[desk EXCEPT ![d] = DeskIdle]}
    /\ UNCHANGED <<cash, owed, paidOn, saleOf>>

AgentInit ==
    /\ cash = [r \in RequestIds |-> 0]
    /\ owed = [i \in OldestFirst |-> BillMinor]
    /\ paidOn = [r \in RequestIds |-> [i \in OldestFirst \cup {Wallet} |-> 0]]
    /\ saleOf = [r \in RequestIds |-> {}]
    /\ soldTo = [v \in Vouchers |-> {}]
    /\ desk = [d \in AgentDesks |-> DeskIdle]

AgentNext ==
    \E d \in AgentDesks :
        \/ \E r \in RequestIds : requestCollection(d, r)
        \/ listBills(d) \/ readBill(d) \/ collectAgentPayment(d) \/ requestFails(d) \/ pickVoucher(d)
        \/ \E b \in Buyers : sellAgentVoucher(d, b)

AgentSpec == AgentInit /\ [][AgentNext]_agentVars

-------------------------------------------------------------------------------
(* Properties. *)

\* The values of the tables and of the requests.
AgentTypeOK ==
    /\ cash \in [RequestIds -> CashMinor \cup {0}]
    /\ owed \in [OldestFirst -> 0..BillMinor]
    /\ paidOn \in [RequestIds -> [OldestFirst \cup {Wallet} -> Nat]]
    /\ saleOf \in [RequestIds -> SUBSET (OldestFirst \cup {Wallet})]
    /\ soldTo \in [Vouchers -> SUBSET Buyers]
    /\ desk \in [AgentDesks -> [pc : {"idle", "collect", "apply", "sell"}, request : RequestIds \cup {NoRequest},
                                take : SUBSET Vouchers, parts : [OldestFirst \cup {Wallet} -> Nat],
                                read : SUBSET OldestFirst, seen : [OldestFirst -> 0..BillMinor]]]

\* agent-app.tsx: "One id per payment being entered, so a retry after a dropped connection
\* can't record it twice."  A request puts its cash on the customer's account once, and
\* the agent owes it once.
CollectedOnce ==
    \A r \in RequestIds :
        /\ Cardinality(saleOf[r]) <= 1
        /\ SumFunctionOnSet(paidOn[r], OldestFirst \cup {Wallet}) = cash[r] * Cardinality(saleOf[r])

\* The agent's whole account, when retries wait for the request before but other requests
\* do not: what a bill shows as paid was put there by collections, as overlapping ones may
\* hide each other but never make up a shilling, and no voucher is sold to two buyers.
AgentAccountAgrees ==
    /\ CollectedOnce
    /\ \A i \in OldestFirst :
         BillMinor - owed[i] <= SumFunction([r \in RequestIds |-> paidOn[r][i]])
    /\ \A v \in Vouchers : Cardinality(soldTo[v]) <= 1

===============================================================================
