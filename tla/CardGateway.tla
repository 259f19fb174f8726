------------------------------ MODULE CardGateway ------------------------------
(***************************************************************************)
(* Payments through Paystack and Pesapal, which share one table and one    *)
(* way of completing a transaction                                         *)
(*   packages/payments/src/paystack/{transaction,webhook}.service.ts       *)
(*   packages/payments/src/pesapal/{transaction,webhook}.service.ts        *)
(* Unlike completeStkRequest nothing locks the row: a webhook and a        *)
(* verification read it, and what they read may be stale when they commit. *)
(***************************************************************************)
EXTENDS Integers

CONSTANTS
    CardRefs,       \* transaction references
    HotspotRefs,    \* those that buy a hotspot voucher
    CardWorkers,    \* webhooks and verifications being handled at one time
    NoCard          \* the reference of a worker that has none

ASSUME CardAssumption == HotspotRefs \subseteq CardRefs /\ NoCard \notin CardRefs

VARIABLES
    checkout,   \* the gateway's side: none, open, paid, failed
    card,       \* paystack_transactions.status
    recorded,   \* references with a Payment (the reference is its unique key)
    vouchers,   \* hotspot vouchers issued for a reference
    cardWorker  \* the answer a worker will apply, and whether it read PENDING

cardVars == <<checkout, card, recorded, vouchers, cardWorker>>

CardIdle == [pc |-> "idle", ref |-> NoCard, answer |-> "none"]

\* The gateway makes the checkout page, then the row is inserted; a failure between them
\* leaves a page without a row.
initiateTransaction(x) ==
    /\ checkout[x] = "none"
    /\ checkout' = [checkout EXCEPT ![x] = "open"]
    /\ card' \in {card, [card EXCEPT ![x] = "PENDING"]}
    /\ UNCHANGED <<recorded, vouchers, cardWorker>>

customerChecksOut(x) ==
    /\ checkout[x] = "open"
    /\ \E result \in {"paid", "failed"} : checkout' = [checkout EXCEPT ![x] = result]
    /\ UNCHANGED <<card, recorded, vouchers, cardWorker>>

\* What the gateway says: Paystack calls a page nobody has paid on yet "abandoned".
Answer(x) == CASE checkout[x] = "paid" -> "COMPLETED"
               [] checkout[x] = "failed" -> "FAILED"
               [] OTHER -> "ABANDONED"

\* A webhook (which is only sent when there is a result) or a verification that the
\* return page or staff ask for, up to the read of the row inside the transaction.
readCardTransaction(w, x) ==
    /\ cardWorker[w].pc = "idle"
    /\ checkout[x] # "none" /\ card[x] = "PENDING"
    /\ cardWorker' = [cardWorker EXCEPT ![w] = [pc |-> "commit", ref |-> x, answer |-> Answer(x)]]
    /\ UNCHANGED <<checkout, card, recorded, vouchers>>

\* Mutant of SaleRefused: the sale's payment has no unique key.
SaleNeverRefused(x) == FALSE

\* A hotspot sale inserts its payment outright; a customer's finds the existing one.
SaleRefused(x) == x \in HotspotRefs /\ x \in recorded

completeTransaction(w) ==
    LET me == cardWorker[w]
        x == me.ref
    IN
    /\ me.pc = "commit"
    /\ \/ /\ me.answer = "COMPLETED" /\ SaleRefused(x)       \* rolled back, voucher and all
          /\ UNCHANGED <<card, recorded, vouchers>>
       \/ /\ me.answer = "COMPLETED" /\ ~SaleRefused(x)
          /\ card' = [card EXCEPT ![x] = "COMPLETED"]
          /\ recorded' = recorded \cup {x}
          /\ vouchers' = [vouchers EXCEPT ![x] = IF x \in HotspotRefs THEN @ + 1 ELSE @]
       \/ /\ me.answer # "COMPLETED"
          /\ card' = [card EXCEPT ![x] = me.answer]
          /\ UNCHANGED <<recorded, vouchers>>
    /\ cardWorker' = [cardWorker EXCEPT ![w] = CardIdle]
    /\ UNCHANGED checkout

cardCrash(w) ==
    /\ cardWorker[w].pc # "idle"
    /\ cardWorker' = [cardWorker EXCEPT ![w] = CardIdle]
    /\ UNCHANGED <<checkout, card, recorded, vouchers>>

CardInit ==
    /\ checkout = [x \in CardRefs |-> "none"]
    /\ card = [x \in CardRefs |-> "NONE"]
    /\ recorded = {}
    /\ vouchers = [x \in CardRefs |-> 0]
    /\ cardWorker = [w \in CardWorkers |-> CardIdle]

CardNext ==
    \/ \E x \in CardRefs : initiateTransaction(x) \/ customerChecksOut(x)
    \/ \E w \in CardWorkers :
         \/ \E x \in CardRefs : readCardTransaction(w, x)
         \/ completeTransaction(w) \/ cardCrash(w)

CardSpec == CardInit /\ [][CardNext]_cardVars

-------------------------------------------------------------------------------
(* Properties. *)

\* The values of the table.
CardTypeOK ==
    /\ checkout \in [CardRefs -> {"none", "open", "paid", "failed"}]
    /\ card \in [CardRefs -> {"NONE", "PENDING", "COMPLETED", "FAILED", "ABANDONED"}]
    /\ recorded \subseteq CardRefs
    /\ vouchers \in [CardRefs -> Nat]
    /\ cardWorker \in [CardWorkers -> [pc : {"idle", "commit"}, ref : CardRefs \cup {NoCard},
                                       answer : {"none", "COMPLETED", "FAILED", "ABANDONED"}]]

\* A webhook and a verification that overlap sell one voucher for one payment, and only
\* what was paid for: "a replayed webhook cannot double-count it".
SaleIsWhole ==
    \A x \in CardRefs :
        /\ vouchers[x] = IF x \in HotspotRefs \cap recorded THEN 1 ELSE 0
        /\ x \in recorded => checkout[x] = "paid"
        /\ card[x] = "COMPLETED" => x \in recorded

===============================================================================
