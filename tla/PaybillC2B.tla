------------------------------ MODULE PaybillC2B ------------------------------
(***************************************************************************)
(* Money that customers send to a paybill by hand, the ISP's own or the    *)
(* platform's (packages/payments/src/mpesa/c2b.service.ts): Safaricom's    *)
(* confirmation is matched to a customer or invoice, or kept for staff or  *)
(* an administrator to match.  TransferPromise is what this keeps.         *)
(***************************************************************************)
EXTENDS Integers, FiniteSets

CONSTANTS
    Transfers,      \* TransIDs
    PlatformPaid,   \* those sent to the platform's paybill
    Isps,           \* tenants
    Nobody,         \* no tenant
    C2BWorkers      \* confirmations being handled at one time

ASSUME C2BAssumption == PlatformPaid \subseteq Transfers /\ Nobody \notin Isps

VARIABLES
    sent,       \* transfers Safaricom has carried out
    meant,      \* the tenant whose account number or reference the customer typed
    c2b,        \* mpesa_c2b_transactions
    creditedTo, \* tenants with a Payment keyed by this TransID
    owedTo,     \* tenants with a gateway collection for it
    confirming  \* the transfer a worker found no row for

c2bVars == <<sent, meant, c2b, creditedTo, owedTo, confirming>>

NoC2B == [stored |-> FALSE, tenant |-> Nobody, reconciled |-> FALSE]

C2BRow(t, reconciled) == [stored |-> TRUE, tenant |-> t, reconciled |-> reconciled]

customerPaysPaybill(x) ==
    /\ x \notin sent
    /\ sent' = sent \cup {x}
    \* An ISP's paybill has its own confirmation address, so the tenant is known.
    /\ \E t \in Isps \cup (IF x \in PlatformPaid THEN {Nobody} ELSE {}) :
         meant' = [meant EXCEPT ![x] = t]
    /\ UNCHANGED <<c2b, creditedTo, owedTo, confirming>>

\* A confirmation, again or for the first time: a duplicate is recognised outside the
\* transaction.
handleC2BConfirmation(w, x) ==
    /\ confirming[w] = {}
    /\ x \in sent /\ ~c2b[x].stored
    /\ confirming' = [confirming EXCEPT ![w] = {x}]
    /\ UNCHANGED <<sent, meant, c2b, creditedTo, owedTo>>

\* Mutant of Credits: the collection goes to the ISP of the row before it was assigned.
OwedToTheRowsIsp(x, t) ==
    /\ creditedTo' = IF creditedTo[x] = {} THEN [creditedTo EXCEPT ![x] = {t}] ELSE creditedTo
    /\ owedTo' = IF x \in PlatformPaid /\ owedTo[x] = {}
                 THEN [owedTo EXCEPT ![x] = {c2b[x].tenant}] ELSE owedTo

\* applyC2BToTenant and recordPlatformCollection: the payment, keyed by the TransID (an
\* existing one is taken as it is), and what the platform owes for it.
Credits(x, t) ==
    /\ creditedTo' = IF creditedTo[x] = {} THEN [creditedTo EXCEPT ![x] = {t}] ELSE creditedTo
    /\ owedTo' = IF x \in PlatformPaid /\ owedTo[x] = {}
                 THEN [owedTo EXCEPT ![x] = {t}] ELSE owedTo

\* The transaction.  The insert at its end refuses a second row of one TransID and rolls
\* everything back.  Matched or not depends on what was typed: an account that names
\* nobody, or a customer since deleted, leaves the row for a person.
storeConfirmation(w, x) ==
    /\ confirming[w] = {x}
    /\ \/ c2b[x].stored /\ UNCHANGED <<c2b, creditedTo, owedTo>>
       \/ /\ ~c2b[x].stored /\ meant[x] # Nobody
          /\ c2b' = [c2b EXCEPT ![x] = C2BRow(meant[x], TRUE)]
          /\ Credits(x, meant[x])
       \/ /\ ~c2b[x].stored
          /\ c2b' = [c2b EXCEPT ![x] = C2BRow(meant[x], FALSE)]
          /\ UNCHANGED <<creditedTo, owedTo>>
    /\ confirming' = [confirming EXCEPT ![w] = {}]
    /\ UNCHANGED <<sent, meant>>

\* A process dies, or the transaction fails; Safaricom may deliver again.
c2bCrash(w) ==
    /\ confirming[w] # {}
    /\ confirming' = [confirming EXCEPT ![w] = {}]
    /\ UNCHANGED <<sent, meant, c2b, creditedTo, owedTo>>

\* Mutant of MayReconcile: the reconciled flag is not looked at.
MayReconcileAgain(x) == c2b[x].stored

MayReconcile(x) == c2b[x].stored /\ ~c2b[x].reconciled

\* Both below hold the row's lock, so each is one step.  Staff see the rows of their ISP.
manuallyReconcileC2BTransaction(x, t) ==
    /\ MayReconcile(x) /\ c2b[x].tenant = t
    /\ Credits(x, t)
    /\ c2b' = [c2b EXCEPT ![x] = C2BRow(t, TRUE)]
    /\ UNCHANGED <<sent, meant, confirming>>

\* An administrator may give it to any ISP.
assignPlatformC2BTransaction(x, t) ==
    /\ MayReconcile(x) /\ x \in PlatformPaid
    /\ Credits(x, t)
    /\ c2b' = [c2b EXCEPT ![x] = C2BRow(t, TRUE)]
    /\ UNCHANGED <<sent, meant, confirming>>

C2BInit ==
    /\ sent = {}
    /\ meant = [x \in Transfers |-> Nobody]
    /\ c2b = [x \in Transfers |-> NoC2B]
    /\ creditedTo = [x \in Transfers |-> {}]
    /\ owedTo = [x \in Transfers |-> {}]
    /\ confirming = [w \in C2BWorkers |-> {}]

C2BNext ==
    \E x \in Transfers :
        \/ customerPaysPaybill(x)
        \/ \E w \in C2BWorkers : handleC2BConfirmation(w, x) \/ storeConfirmation(w, x) \/ c2bCrash(w)
        \/ \E t \in Isps : manuallyReconcileC2BTransaction(x, t) \/ assignPlatformC2BTransaction(x, t)

C2BSpec == C2BInit /\ [][C2BNext]_c2bVars

-------------------------------------------------------------------------------
(* Properties. *)

\* The values of the tables.
C2BTypeOK ==
    /\ sent \subseteq Transfers
    /\ meant \in [Transfers -> Isps \cup {Nobody}]
    /\ c2b \in [Transfers -> [stored : BOOLEAN, tenant : Isps \cup {Nobody}, reconciled : BOOLEAN]]
    /\ creditedTo \in [Transfers -> SUBSET Isps] /\ owedTo \in [Transfers -> SUBSET Isps]
    /\ confirming \in [C2BWorkers -> SUBSET Transfers]

\* A stored transfer is reconciled just when it was credited, and to the ISP the row
\* names: what staff and administrators see on the reconciliation screen is the truth.
ReconciledIsCredited ==
    \A x \in Transfers :
        /\ creditedTo[x] = IF c2b[x].reconciled THEN {c2b[x].tenant} ELSE {}
        /\ owedTo[x] = IF x \in PlatformPaid THEN creditedTo[x] ELSE {}
        /\ c2b[x].stored => x \in sent

\* Repeated confirmations, a person who matches the row and an administrator who assigns
\* it credit one transfer to one ISP, once, and only when it was sent.
C2BPromise == INSTANCE TransferPromise WITH
    Transfers <- Transfers, Receipts <- Isps, taken <- sent, recorded <- creditedTo, owed <- owedTo

C2BKeepsPromise == C2BPromise!PromiseSpec

===============================================================================
