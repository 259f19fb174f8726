---------------------------- MODULE TransferPromise ----------------------------
(***************************************************************************)
(* What every M-Pesa channel promises of a customer's money: a transfer is *)
(* taken from the customer at most once, and recorded at most once, under  *)
(* one receipt, and only after it was taken.  Money the platform took is   *)
(* owed to the ISP in the same step, and no other is.                      *)
(***************************************************************************)
CONSTANTS Transfers, Receipts

VARIABLES
    taken,      \* transfers whose money has left the customer
    recorded,   \* receipts a transfer is recorded under
    owed        \* receipts under which it was credited to the ISP's ledger

PromiseInit ==
    /\ taken = {}
    /\ recorded = [t \in Transfers |-> {}]
    /\ owed = [t \in Transfers |-> {}]

take(t) ==
    /\ t \notin taken
    /\ taken' = taken \cup {t}
    /\ UNCHANGED <<recorded, owed>>

record(t) ==
    /\ t \in taken /\ recorded[t] = {}
    /\ \E r \in Receipts :
         /\ recorded' = [recorded EXCEPT ![t] = {r}]
         /\ owed' \in {owed, [owed EXCEPT ![t] = {r}]}
    /\ UNCHANGED taken

PromiseNext == \E t \in Transfers : take(t) \/ record(t)

PromiseSpec == PromiseInit /\ [][PromiseNext]_<<taken, recorded, owed>>
===============================================================================
