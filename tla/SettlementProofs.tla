--------------------------- MODULE SettlementProofs ---------------------------
(***************************************************************************)
(* Proofs about Settlement, for every set of tenants, transactions and     *)
(* callers and every bound.                                                *)
(***************************************************************************)
EXTENDS Settlement, GatewayLedgerProofs

\* The two halves of TypeOK that steps update one record at a time.
PayoutsOK == payout \in [Settlements -> PayoutRecords]

Aimed(r) == r.pc \notin {"idle", "reserve"} => r.sid \in Settlements

CallersOK ==
    /\ caller \in [Callers -> CallerRecords]
    /\ \A c \in Callers : Aimed(caller[c])

LEMMA AnyTenantIsTenant == AnyTenant \in Tenants
  BY TenantsAssumption DEF AnyTenant

LEMMA InitialRecords ==
  /\ NotCreated \in PayoutRecords
  /\ Idle \in CallerRecords
  /\ Aimed(Idle)
  BY AnyTenantIsTenant, SettlementAssumption
  DEF NotCreated, Idle, PayoutRecords, CallerRecords, Aimed, Triggers, NoSettlement, LIVE, FINAL, QUEUED

TypeInParts ==
    /\ PayoutsOK
    /\ CallersOK
    /\ provider \in [Settlements -> {"none", "accepted", "moved", "dead"}]
    /\ failedSince \subseteq Tenants

\* TypeOK, now and after a step, is what its parts say.
LEMMA TypeParts == (TypeOK <=> TypeInParts) /\ (TypeOK' <=> TypeInParts')
  BY DEF TypeOK, TypeInParts, PayoutsOK, CallersOK, Aimed

\* Changing one settlement's status to a status keeps the table well formed.
LEMMA StatusStep ==
  ASSUME PayoutsOK, NEW s \in Settlements, NEW status \in {"NONE"} \cup LIVE \cup FINAL,
         payout' = [payout EXCEPT ![s].status = status]
  PROVE  PayoutsOK'
  BY DEF PayoutsOK, PayoutRecords

\* A caller turns to another well-formed task.
LEMMA CallerStep ==
  ASSUME CallersOK, NEW c \in Callers, NEW r \in CallerRecords, Aimed(r), Becomes(c, r)
  PROVE  CallersOK'
  BY DEF CallersOK, Becomes

LEMMA CallerGoesIdle ==
  ASSUME CallersOK, NEW c \in Callers, Becomes(c, Idle)
  PROVE  CallersOK'
  BY CallerStep, InitialRecords

\* A caller that has a settlement in hand goes on with it.
LEMMA CallerGoesOn ==
  ASSUME CallersOK, NEW c \in Callers, caller[c].pc \notin {"idle", "reserve"},
         NEW pc \in {"claim", "send", "store", "fail"},
         Becomes(c, [caller[c] EXCEPT !.pc = pc])
  PROVE  CallersOK'
<1> DEFINE r == [caller[c] EXCEPT !.pc = pc]
<1>1. caller[c] \in CallerRecords /\ caller[c].sid \in Settlements
  BY DEF CallersOK, Aimed
<1>2. r \in CallerRecords /\ Aimed(r)
  BY <1>1 DEF CallerRecords, Aimed
<1> QED BY <1>2, CallerStep

\* A caller is handed a settlement.
LEMMA CallerTakes ==
  ASSUME CallersOK, NEW c \in Callers, NEW s \in Settlements, NEW task \in {"claim", "flag"},
         Becomes(c, [Idle EXCEPT !.pc = task, !.sid = s])
  PROVE  CallersOK'
<1> DEFINE begun == [Idle EXCEPT !.pc = task]
           r == [begun EXCEPT !.sid = s]
<1>1. begun \in CallerRecords /\ begun.pc = task
  BY InitialRecords DEF CallerRecords
<1> HIDE DEF begun
<1>2. r \in CallerRecords /\ Aimed(r)
  BY <1>1, SettlementAssumption DEF CallerRecords, Aimed, Settlements
<1>3. Becomes(c, r)
  BY DEF begun
<1> HIDE DEF r
<1> QED BY <1>2, <1>3, CallerStep

\* Creating a settlement: what reserveBalance writes, with its choices named.
NewPayout(c, automatic, manualMode) ==
    [NotCreated EXCEPT
        !.status = IF ~automatic \/ manualMode THEN "AWAITING_APPROVAL" ELSE "REQUESTED",
        !.tenantId = caller[c].tenantId, !.amountMinor = settleableMinor(caller[c].tenantId),
        !.retryOfId = caller[c].retryOfId,
        !.automatic = automatic]

LEMMA ReserveWrites ==
  ASSUME NEW c \in Callers, NEW s \in Settlements, reserveBalance(c, s)
  PROVE  \E automatic, manualMode \in BOOLEAN :
            /\ payout' = [payout EXCEPT ![s] = NewPayout(c, automatic, manualMode)]
            /\ Becomes(c, IF ~automatic \/ manualMode THEN Idle
                          ELSE [Idle EXCEPT !.pc = "claim", !.sid = s])
  BY DEF reserveBalance, NewPayout, Becomes

\* The record a created settlement starts with.
LEMMA NewPayoutRecord ==
  ASSUME CallersOK, NEW c \in Callers, NEW automatic \in BOOLEAN, NEW manualMode \in BOOLEAN,
         settleableMinor(caller[c].tenantId) \in Nat
  PROVE  /\ NewPayout(c, automatic, manualMode) \in PayoutRecords
         /\ NewPayout(c, automatic, manualMode).status \in QUEUED
         /\ ~automatic => NewPayout(c, automatic, manualMode).status = "AWAITING_APPROVAL"
         /\ NewPayout(c, automatic, manualMode).automatic = automatic
         /\ NewPayout(c, automatic, manualMode).tenantId = caller[c].tenantId
         /\ NewPayout(c, automatic, manualMode).amountMinor = settleableMinor(caller[c].tenantId)
<1>1. caller[c] \in CallerRecords
  BY DEF CallersOK
<1> DEFINE r == NewPayout(c, automatic, manualMode)
           a == settleableMinor(caller[c].tenantId)
<1> HIDE DEF a
<1>2. r = [NotCreated EXCEPT
        !.status = IF ~automatic \/ manualMode THEN "AWAITING_APPROVAL" ELSE "REQUESTED",
        !.tenantId = caller[c].tenantId, !.amountMinor = a,
        !.retryOfId = caller[c].retryOfId,
        !.automatic = automatic]
  BY DEF NewPayout, a
<1>3. r = [status |-> IF ~automatic \/ manualMode THEN "AWAITING_APPROVAL" ELSE "REQUESTED",
           tenantId |-> caller[c].tenantId, amountMinor |-> a,
           retryOfId |-> caller[c].retryOfId, automatic |-> automatic, answerable |-> FALSE,
           timedOut |-> FALSE]
  BY <1>2 DEF NotCreated
<1>4. a \in Nat
  BY DEF a
<1> HIDE DEF r
<1> QED BY <1>1, <1>3, <1>4 DEF CallerRecords, PayoutRecords, LIVE, QUEUED, r, a

\* The values the settlement tables and the requests in progress may hold.
THEOREM TypeCorrect == Spec => []TypeOK
<1>1. Init => TypeOK
  BY InitialRecords DEF Init, TypeOK, Aimed
<1>2. TypeOK /\ [Next]_vars => TypeOK'
  <2> SUFFICES ASSUME TypeOK, [Next]_vars PROVE TypeOK'
    OBVIOUS
  <2> USE TypeParts DEF TypeInParts
  <2>p. \A s \in Settlements : payout[s] \in PayoutRecords /\ payout[s].tenantId \in Tenants
    BY DEF PayoutsOK, PayoutRecords
  <2>1. CASE Collecting
    BY <2>1 DEF Collecting, settlementVars, TypeOK
  <2>2. ASSUME NEW c \in Callers, Requesting(c) PROVE TypeOK'
    <3>1. ASSUME NEW t \in Tenants, NEW trigger \in Triggers,
                 NEW r \in 0..MaxSettlements, requestSettlement(c, t, trigger, r)
          PROVE TypeOK'
      BY <3>1, SettlementAssumption DEF requestSettlement, CallerRecords, NoSettlement, TypeOK
    <3>2. ASSUME NEW s \in Settlements, retrySettlement(c, s) PROVE TypeOK'
      BY <3>2, <3>1, <2>p DEF retrySettlement, Triggers, Settlements
    <3>3. NoSettlement \in 0..MaxSettlements
      BY SettlementAssumption DEF NoSettlement
    <3> QED BY <2>2, <3>1, <3>2, <3>3 DEF Requesting
  <2>3. ASSUME NEW c \in Callers, Continuing(c) PROVE TypeOK'
    <3>1. ASSUME NEW s \in Settlements, reserveBalance(c, s) PROVE TypeOK'
      <4>1. settleableMinor(caller[c].tenantId) \in Nat
        BY <3>1, MaxMinorAssumption DEF reserveBalance, Amounts
      <4>2. PICK automatic \in BOOLEAN, manualMode \in BOOLEAN :
              /\ payout' = [payout EXCEPT ![s] = NewPayout(c, automatic, manualMode)]
              /\ Becomes(c, IF ~automatic \/ manualMode THEN Idle
                            ELSE [Idle EXCEPT !.pc = "claim", !.sid = s])
        BY <3>1, ReserveWrites
      <4>3. PayoutsOK'
        BY <4>1, <4>2, NewPayoutRecord DEF PayoutsOK
      <4>4. CallersOK'
        <5>1. CASE ~automatic \/ manualMode
          BY <5>1, <4>2, CallerGoesIdle
        <5>2. CASE ~(~automatic \/ manualMode)
          BY <5>2, <4>2, CallerTakes
        <5> QED BY <5>1, <5>2
      <4>5. failedSince' \subseteq Tenants /\ UNCHANGED provider
        BY <3>1 DEF reserveBalance, PersonActs
      <4> QED BY <4>3, <4>4, <4>5
    <3>2. CASE dispatchClaim(c)
      <4>1. PayoutsOK'
        BY <3>2, StatusStep DEF dispatchClaim, PayoutsOK, CallersOK, Aimed, LIVE
      <4>2. CallersOK'
        BY <3>2, CallerGoesOn, CallerGoesIdle DEF dispatchClaim
      <4> QED BY <3>2, <4>1, <4>2 DEF dispatchClaim
    <3>3. CASE initiateSettlement(c)
      <4>1. CallersOK'
        BY <3>3, CallerGoesOn, CallerGoesIdle DEF initiateSettlement
      <4> QED BY <3>3, <4>1 DEF initiateSettlement, PayoutsOK
    <3>4. CASE storeConversation(c)
      <4>1. CallersOK'
        BY <3>4, CallerGoesIdle DEF storeConversation
      <4>2. PayoutsOK'
        BY <3>4 DEF storeConversation, PayoutsOK, PayoutRecords
      <4> QED BY <3>4, <4>1, <4>2 DEF storeConversation
    <3>5. CASE failSettlement(c)
      <4>1. CallersOK'
        BY <3>5, CallerGoesIdle DEF failSettlement
      <4>2. PayoutsOK' /\ failedSince' \subseteq Tenants
        <5>1. caller[c].sid \in Settlements
          BY <3>5 DEF failSettlement, CallersOK, Aimed
        <5>2. CASE payout[caller[c].sid].status \in FINAL
          BY <3>5, <5>2 DEF failSettlement, PayoutsOK
        <5>3. CASE payout[caller[c].sid].status \notin FINAL
          BY <3>5, <5>1, <5>3, <2>p, StatusStep
          DEF failSettlement, failSettlementTx, ProviderFails, FINAL
        <5> QED BY <5>2, <5>3
      <4> QED BY <3>5, <4>1, <4>2 DEF failSettlement
    <3>6. CASE flagTimedOut(c)
      <4>1. CallersOK'
        BY <3>6, CallerGoesIdle DEF flagTimedOut
      <4>2. PayoutsOK'
        BY <3>6 DEF flagTimedOut, PayoutsOK, PayoutRecords
      <4> QED BY <3>6, <4>1, <4>2 DEF flagTimedOut
    <3> QED BY <2>3, <3>1, <3>2, <3>3, <3>4, <3>5, <3>6 DEF Continuing
  <2>4. ASSUME NEW c \in Callers, crash(c) PROVE TypeOK'
    BY <2>4, CallerGoesIdle DEF crash, PayoutsOK
  <2>5. ASSUME NEW c \in Callers, NEW s \in Settlements, readTimedOut(c, s) PROVE TypeOK'
    BY <2>5, CallerTakes DEF readTimedOut, PayoutsOK
  <2>6. ASSUME NEW c \in Callers, NEW s \in Settlements, approveSettlement(c, s) PROVE TypeOK'
    <3>1. PayoutsOK'
      BY <2>6, StatusStep DEF approveSettlement, LIVE, QUEUED
    <3>2. CallersOK'
      BY <2>6, CallerTakes DEF approveSettlement, CallersOK
    <3> QED BY <2>6, <3>1, <3>2 DEF approveSettlement, PersonActs
  <2>7. ASSUME NEW s \in Settlements, executeTransfer(s) \/ transferByHand(s) PROVE TypeOK'
    BY <2>7 DEF executeTransfer, transferByHand, TypeOK
  <2>8. ASSUME NEW s \in Settlements, Closing(s) PROVE TypeOK'
    <3>1. PayoutsOK'
      BY <2>8, StatusStep DEF Closing, applySettlementResult, cancelSettlement, resolveSettlement,
         failSettlementTx, markSettledTx, FINAL
    <3>2. failedSince' \subseteq Tenants
      BY <2>8, <2>p DEF Closing, applySettlementResult, cancelSettlement, resolveSettlement,
         ProviderFails, PersonActs
    <3>3. UNCHANGED <<caller, provider>>
      BY <2>8 DEF Closing, applySettlementResult, cancelSettlement, resolveSettlement
    <3> QED BY <3>1, <3>2, <3>3 DEF CallersOK
  <2>9. CASE UNCHANGED vars
    BY <2>9 DEF vars, settlementVars, TypeOK
  <2> QED BY <2>1, <2>2, <2>3, <2>4, <2>5, <2>6, <2>7, <2>8, <2>9 DEF Next
<1> QED BY <1>1, <1>2, PTL DEF Spec

-------------------------------------------------------------------------------
(* The dispatch: DispatchInv is inductive, given TypeOK. *)

\* What a step that only gives settlement s another status leaves of the table.
Turns(s, status) ==
    /\ \A r \in Settlements \ {s} : payout'[r] = payout[r]
    /\ payout'[s].status = status
    /\ payout'[s].tenantId = payout[s].tenantId
    /\ payout'[s].amountMinor = payout[s].amountMinor
    /\ payout'[s].automatic = payout[s].automatic

LEMMA StatusTurns ==
  ASSUME PayoutsOK, NEW s \in Settlements, NEW status,
         payout' = [payout EXCEPT ![s].status = status]
  PROVE  Turns(s, status)
  BY DEF PayoutsOK, PayoutRecords, Turns

\* Every status is one of these, and the sets of statuses are disjoint.
LEMMA StatusKinds ==
  ASSUME PayoutsOK, NEW s \in Settlements
  PROVE  payout[s].status \in {"NONE", "REQUESTED", "AWAITING_APPROVAL", "PROCESSING",
                               "SETTLED", "FAILED", "CANCELLED"}
  BY DEF PayoutsOK, PayoutRecords, LIVE, QUEUED, FINAL

\* A step that gives no settlement another status, tells the provider nothing and hands
\* the caller that takes it no dispatch.
LEMMA DispatchIdle ==
  ASSUME TypeOK, DispatchInv, NEW c \in Callers, NEW r,
         \A s \in Settlements : /\ payout'[s].status = payout[s].status
                                /\ payout'[s].tenantId = payout[s].tenantId
                                /\ payout'[s].automatic = payout[s].automatic,
         UNCHANGED provider, Becomes(c, r), r.pc \in {"idle", "claim", "flag"}
  PROVE  DispatchInv'
<1>1. /\ \A d \in Callers \ {c} : caller'[d] = caller[d]
      /\ caller'[c].pc \in {"idle", "claim", "flag"}
  BY DEF TypeOK, Becomes
<1>2. LockHeld' /\ OneQueuedPerTenant' /\ NothingSentEarly' /\ MoneyMovedIsReserved'
  BY <1>1 DEF DispatchInv, LockHeld, OneQueuedPerTenant, NothingSentEarly,
     MoneyMovedIsReserved, SettlementsOf, Exists
<1>3. DispatchOwned'
  <2> SUFFICES ASSUME NEW d \in Callers, d # c PROVE DispatchOwned!(d)'
    BY <1>1 DEF DispatchOwned
  <2>1. DispatchOwned!(d)
    BY DEF DispatchInv, DispatchOwned
  <2>2. caller[d].pc \in {"send", "store", "fail"} => caller[d].sid \in Settlements
    BY DEF TypeOK
  <2> QED BY <1>1, <2>1, <2>2
<1>4. OneDispatcher'
  BY <1>1 DEF DispatchInv, OneDispatcher
<1> QED BY <1>2, <1>3, <1>4 DEF DispatchInv

\* A step that changes one settlement's status, and neither callers nor provider, keeps
\* the dispatch invariant when the new status fits what the provider did.
LEMMA DispatchCloses ==
  ASSUME TypeOK, DispatchInv, NEW s \in Settlements, NEW status \in {"SETTLED", "FAILED", "CANCELLED"},
         Turns(s, status), UNCHANGED <<caller, provider>>,
         Exists(s), ~\E c \in Callers : caller[c].sid = s /\ caller[c].pc = "send",
         status = "SETTLED" => provider[s] = "moved",
         status = "FAILED" => provider[s] \in {"none", "dead"},
         status = "CANCELLED" => provider[s] = "none"
  PROVE  DispatchInv'
<1> USE DEF Turns, DispatchInv, Exists
<1>1. \A r \in Settlements : payout'[r].tenantId = payout[r].tenantId /\ payout'[r].automatic = payout[r].automatic
  OBVIOUS
<1>2. \A r \in Settlements : payout'[r].status # payout[r].status => r = s /\ payout'[r].status = status
  OBVIOUS
<1>3. LockHeld'
  BY <1>1, <1>2 DEF LockHeld, SettlementsOf, QUEUED
<1>4. OneQueuedPerTenant'
  BY <1>1, <1>2 DEF OneQueuedPerTenant, QUEUED
<1>5. NothingSentEarly'
  BY <1>1, <1>2 DEF NothingSentEarly, QUEUED
<1>6. MoneyMovedIsReserved'
  BY <1>1, <1>2 DEF MoneyMovedIsReserved
<1>7. DispatchOwned'
  <2> SUFFICES ASSUME NEW c \in Callers PROVE DispatchOwned!(c)'
    BY DEF DispatchOwned
  <2>1. DispatchOwned!(c)
    BY DEF DispatchOwned
  <2> QED BY <2>1, <1>1, <1>2 DEF FINAL, TypeOK
<1>8. OneDispatcher'
  BY DEF OneDispatcher
<1> QED BY <1>3, <1>4, <1>5, <1>6, <1>7, <1>8

\* No step of the next-state relation breaks the dispatch invariant.
LEMMA DispatchStep == TypeOK /\ DispatchInv /\ [Next]_vars => DispatchInv'
<1> SUFFICES ASSUME TypeOK, DispatchInv, [Next]_vars PROVE DispatchInv'
  OBVIOUS
<1>t. PayoutsOK /\ CallersOK
  BY TypeParts DEF TypeInParts
<1> USE DEF DispatchInv
<1>0. CASE UNCHANGED <<payout, caller, provider>>
  BY <1>0 DEF LockHeld, OneQueuedPerTenant, NothingSentEarly, MoneyMovedIsReserved,
     DispatchOwned, OneDispatcher, SettlementsOf, Exists
<1>1. CASE Collecting
  BY <1>0, <1>1 DEF Collecting, settlementVars
<1>2. ASSUME NEW c \in Callers, Requesting(c) PROVE DispatchInv'
  <2>1. ASSUME NEW t, NEW trigger, NEW r, requestSettlement(c, t, trigger, r) PROVE DispatchInv'
    <3> USE <2>1 DEF requestSettlement
    <3>1. \A d \in Callers \ {c} : caller'[d] = caller[d]
      BY <1>t DEF CallersOK
    <3>2. caller'[c].pc = "reserve" /\ caller'[c].tenantId = t
      BY <1>t DEF CallersOK
    <3>3. LockHeld'
      BY <3>1, <3>2 DEF LockHeld, Locked, SettlementsOf, Exists
    <3>4. DispatchOwned' /\ OneDispatcher'
      BY <3>1, <3>2 DEF DispatchOwned, OneDispatcher
    <3> QED BY <3>3, <3>4 DEF OneQueuedPerTenant, NothingSentEarly, MoneyMovedIsReserved
  <2> QED BY <1>2, <2>1 DEF Requesting, retrySettlement
<1>3. ASSUME NEW c \in Callers, NEW s \in Settlements, reserveBalance(c, s) PROVE DispatchInv'
  <2>1. settleableMinor(caller[c].tenantId) \in Nat
    BY <1>3, MaxMinorAssumption DEF reserveBalance, Amounts
  <2>2. PICK automatic \in BOOLEAN, manualMode \in BOOLEAN :
          /\ payout' = [payout EXCEPT ![s] = NewPayout(c, automatic, manualMode)]
          /\ Becomes(c, IF ~automatic \/ manualMode THEN Idle
                        ELSE [Idle EXCEPT !.pc = "claim", !.sid = s])
    BY <1>3, ReserveWrites
  <2>3. /\ payout[s].status = "NONE" /\ caller[c].pc = "reserve" /\ UNCHANGED provider
    BY <1>3 DEF reserveBalance, Exists
  <2>4. /\ \A r \in Settlements \ {s} : payout'[r] = payout[r]
        /\ payout'[s].status \in QUEUED
        /\ payout'[s].status = "REQUESTED" => payout'[s].automatic
        /\ payout'[s].tenantId = caller[c].tenantId
    BY <1>t, <2>1, <2>2, NewPayoutRecord DEF PayoutsOK
  <2>5. /\ \A d \in Callers \ {c} : caller'[d] = caller[d]
        /\ caller'[c].pc \in {"idle", "claim"}
    BY <1>t, <2>2 DEF CallersOK, Becomes, Idle
  <2>6. LockHeld' /\ OneQueuedPerTenant'
    BY <2>3, <2>4, <2>5 DEF LockHeld, OneQueuedPerTenant, SettlementsOf, Exists, QUEUED
  <2>7. NothingSentEarly' /\ MoneyMovedIsReserved'
    BY <2>3, <2>4 DEF NothingSentEarly, MoneyMovedIsReserved, QUEUED
  <2>8. DispatchOwned'
    <3> SUFFICES ASSUME NEW d \in Callers, d # c PROVE DispatchOwned!(d)'
      BY <2>5 DEF DispatchOwned
    <3>1. DispatchOwned!(d)
      BY DEF DispatchOwned
    <3>2. caller[d].pc \in {"send", "store", "fail"} => caller[d].sid \in Settlements \ {s}
      BY <3>1, <2>3, <1>t DEF CallersOK, Aimed, FINAL
    <3> QED BY <3>1, <3>2, <2>3, <2>4, <2>5
  <2>9. OneDispatcher'
    BY <2>5 DEF OneDispatcher
  <2> QED BY <2>6, <2>7, <2>8, <2>9
<1>4. ASSUME NEW c \in Callers, dispatchClaim(c) PROVE DispatchInv'
  <2> DEFINE s == caller[c].sid
  <2>1. s \in Settlements /\ caller[c].pc = "claim" /\ UNCHANGED provider
    BY <1>t, <1>4 DEF dispatchClaim, CallersOK, Aimed
  <2>2. CASE payout[s].status = "REQUESTED"
    <3>1. Turns(s, "PROCESSING") /\ Becomes(c, [caller[c] EXCEPT !.pc = "send"])
      BY <1>t, <1>4, <2>1, <2>2, StatusTurns DEF dispatchClaim
    <3>2. /\ \A d \in Callers \ {c} : caller'[d] = caller[d]
          /\ caller'[c].pc = "send" /\ caller'[c].sid = s
      BY <1>t, <3>1 DEF Becomes, CallersOK, CallerRecords
    <3>3. provider[s] = "none" /\ payout[s].automatic
      BY <2>1, <2>2 DEF NothingSentEarly, QUEUED
    <3>4. \A d \in Callers : caller[d].pc \in {"send", "store", "fail"} => caller[d].sid # s
      BY <2>2 DEF DispatchOwned, FINAL
    <3> HIDE DEF s
    <3>5. LockHeld' /\ OneQueuedPerTenant'
      BY <2>2, <3>1, <3>2 DEF Turns, LockHeld, OneQueuedPerTenant, SettlementsOf, Exists, QUEUED
    <3>6. NothingSentEarly' /\ MoneyMovedIsReserved'
      BY <2>1, <2>2, <3>1, <3>3 DEF Turns, NothingSentEarly, MoneyMovedIsReserved, QUEUED
    <3>7. DispatchOwned'
      <4> SUFFICES ASSUME NEW d \in Callers PROVE DispatchOwned!(d)'
        BY DEF DispatchOwned
      <4>1. CASE d = c
        BY <4>1, <2>1, <3>1, <3>2, <3>3 DEF Turns
      <4>2. CASE d # c
        <5>1. DispatchOwned!(d)
          BY DEF DispatchOwned
        <5>2. caller[d].pc \in {"send", "store", "fail"} => caller[d].sid \in Settlements \ {s}
          BY <3>4, <1>t DEF CallersOK, Aimed
        <5> QED BY <4>2, <5>1, <5>2, <2>1, <3>1, <3>2 DEF Turns
      <4> QED BY <4>1, <4>2
    <3>8. OneDispatcher'
      BY <3>2, <3>4 DEF OneDispatcher
    <3> QED BY <3>5, <3>6, <3>7, <3>8
  <2>3. CASE payout[s].status # "REQUESTED"
    BY <1>4, <2>3, DispatchIdle DEF dispatchClaim, Idle
  <2> QED BY <2>2, <2>3
<1>5. ASSUME NEW c \in Callers, initiateSettlement(c) PROVE DispatchInv'
  <2> DEFINE s == caller[c].sid
  <2>1. s \in Settlements /\ caller[c].pc = "send" /\ UNCHANGED payout
    BY <1>t, <1>5 DEF initiateSettlement, CallersOK, Aimed
  <2>2. payout[s].status = "PROCESSING" /\ provider[s] = "none"
    BY <2>1 DEF DispatchOwned
  <2>3. /\ \A r \in Settlements \ {s} : provider'[r] = provider[r]
        /\ provider'[s] \in {"accepted", "dead"}
    BY <2>1, <1>5 DEF initiateSettlement, TypeOK
  <2>4. /\ \A d \in Callers \ {c} : caller'[d] = caller[d]
        /\ caller'[c].pc \in {"store", "fail", "idle"}
        /\ caller'[c].pc # "idle" => caller'[c].sid = s
        /\ caller'[c].pc = "fail" => provider'[s] = "dead"
    BY <2>1, <1>5, <1>t DEF initiateSettlement, TypeOK, Becomes, CallersOK, CallerRecords, Idle
  <2>5. \A d \in Callers \ {c} : caller[d].pc \in {"send", "store", "fail"} => caller[d].sid # s
    BY <2>1 DEF OneDispatcher
  <2> HIDE DEF s
  <2>6. LockHeld' /\ OneQueuedPerTenant'
    BY <2>1, <2>4 DEF LockHeld, OneQueuedPerTenant, SettlementsOf, Exists
  <2>7. NothingSentEarly' /\ MoneyMovedIsReserved'
    BY <2>1, <2>2, <2>3 DEF NothingSentEarly, MoneyMovedIsReserved, QUEUED
  <2>8. DispatchOwned'
    <3> SUFFICES ASSUME NEW d \in Callers PROVE DispatchOwned!(d)'
      BY DEF DispatchOwned
    <3>1. CASE d = c
      BY <3>1, <2>1, <2>2, <2>4
    <3>2. CASE d # c
      <4>1. DispatchOwned!(d)
        BY DEF DispatchOwned
      <4>2. caller[d].pc \in {"send", "store", "fail"} => caller[d].sid \in Settlements \ {s}
        BY <3>2, <2>5, <1>t DEF CallersOK, Aimed
      <4> QED BY <3>2, <4>1, <4>2, <2>1, <2>3, <2>4
    <3> QED BY <3>1, <3>2
  <2>9. OneDispatcher'
    BY <2>4, <2>5 DEF OneDispatcher
  <2> QED BY <2>6, <2>7, <2>8, <2>9
<1>6. ASSUME NEW c \in Callers, storeConversation(c) \/ flagTimedOut(c) PROVE DispatchInv'
  <2>1. caller[c].sid \in Settlements
    BY <1>t, <1>6 DEF storeConversation, flagTimedOut, CallersOK, Aimed
  <2>2. \A s \in Settlements : /\ payout'[s].status = payout[s].status
                               /\ payout'[s].tenantId = payout[s].tenantId
                               /\ payout'[s].automatic = payout[s].automatic
    BY <1>t, <1>6, <2>1 DEF storeConversation, flagTimedOut, PayoutsOK, PayoutRecords
  <2>3. UNCHANGED provider /\ Becomes(c, Idle) /\ Idle.pc = "idle"
    BY <1>6 DEF storeConversation, flagTimedOut, Idle
  <2> QED BY <2>2, <2>3, DispatchIdle
<1>7. ASSUME NEW c \in Callers, failSettlement(c) PROVE DispatchInv'
  <2> DEFINE s == caller[c].sid
  <2>1. s \in Settlements /\ caller[c].pc = "fail" /\ UNCHANGED provider /\ Becomes(c, Idle)
    BY <1>t, <1>7 DEF failSettlement, CallersOK, Aimed
  <2>2. /\ provider[s] = "dead" /\ payout[s].status \in {"PROCESSING"} \cup FINAL
    BY <2>1 DEF DispatchOwned
  <2>3. CASE payout[s].status \in FINAL
    BY <1>7, <2>1, <2>3, DispatchIdle DEF failSettlement, Idle
  <2>4. CASE payout[s].status \notin FINAL
    \* The caller goes idle and the settlement is closed: two steps in one.
    <3>1. Turns(s, "FAILED")
      BY <1>t, <1>7, <2>1, <2>4, StatusTurns DEF failSettlement, failSettlementTx
    <3>2. /\ \A d \in Callers \ {c} : caller'[d] = caller[d]
          /\ caller'[c].pc = "idle"
      BY <1>t, <2>1 DEF Becomes, CallersOK, Idle
    <3>3. \A d \in Callers \ {c} : caller[d].pc \in {"send", "store", "fail"} => caller[d].sid # s
      BY <2>1 DEF OneDispatcher
    <3> HIDE DEF s
    <3>4. payout[s].status = "PROCESSING"
      BY <2>2, <2>4
    <3>5. LockHeld' /\ OneQueuedPerTenant'
      BY <3>1, <3>2, <3>4 DEF Turns, LockHeld, OneQueuedPerTenant, SettlementsOf, Exists, QUEUED
    <3>6. NothingSentEarly' /\ MoneyMovedIsReserved'
      BY <2>1, <2>2, <3>1, <3>4 DEF Turns, NothingSentEarly, MoneyMovedIsReserved, QUEUED
    <3>7. DispatchOwned'
      <4> SUFFICES ASSUME NEW d \in Callers, d # c PROVE DispatchOwned!(d)'
        BY <3>2 DEF DispatchOwned
      <4>1. DispatchOwned!(d)
        BY DEF DispatchOwned
      <4>2. caller[d].pc \in {"send", "store", "fail"} => caller[d].sid \in Settlements \ {s}
        BY <3>3, <1>t DEF CallersOK, Aimed
      <4> QED BY <4>1, <4>2, <2>1, <3>1, <3>2 DEF Turns
    <3>8. OneDispatcher'
      BY <3>2 DEF OneDispatcher
    <3> QED BY <3>5, <3>6, <3>7, <3>8
  <2> QED BY <2>3, <2>4
<1>8. ASSUME NEW c \in Callers, crash(c) PROVE DispatchInv'
  BY <1>8, DispatchIdle DEF crash, Idle
<1>9. ASSUME NEW c \in Callers, NEW s \in Settlements, readTimedOut(c, s) PROVE DispatchInv'
  BY <1>9, DispatchIdle DEF readTimedOut, Idle
<1>10. ASSUME NEW c \in Callers, NEW s \in Settlements, approveSettlement(c, s) PROVE DispatchInv'
  <2>1. /\ payout[s].status = "AWAITING_APPROVAL" /\ UNCHANGED provider
        /\ payout[s].automatic => Turns(s, "REQUESTED")
        /\ ~payout[s].automatic => Turns(s, "PROCESSING")
    BY <1>t, <1>10, StatusTurns DEF approveSettlement
  <2>2. /\ \A d \in Callers \ {c} : caller'[d] = caller[d]
        /\ caller[c].pc = "idle" /\ caller'[c].pc \in {"idle", "claim"}
    BY <1>t, <1>10 DEF approveSettlement, Becomes, CallersOK, Idle
  <2>3. provider[s] = "none"
    BY <2>1 DEF NothingSentEarly, QUEUED
  <2>4. \A d \in Callers : caller[d].pc \in {"send", "store", "fail"} => caller[d].sid \in Settlements \ {s}
    BY <2>1, <1>t DEF DispatchOwned, FINAL, CallersOK, Aimed
  <2>5. LockHeld' /\ OneQueuedPerTenant'
    BY <2>1, <2>2 DEF Turns, LockHeld, OneQueuedPerTenant, SettlementsOf, Exists, QUEUED
  <2>6. NothingSentEarly' /\ MoneyMovedIsReserved'
    BY <2>1, <2>3 DEF Turns, NothingSentEarly, MoneyMovedIsReserved, QUEUED
  <2>7. DispatchOwned'
    <3> SUFFICES ASSUME NEW d \in Callers, d # c PROVE DispatchOwned!(d)'
      BY <2>2 DEF DispatchOwned
    <3>1. DispatchOwned!(d)
      BY DEF DispatchOwned
    <3> QED BY <3>1, <2>1, <2>2, <2>4 DEF Turns
  <2>8. OneDispatcher'
    BY <2>2 DEF OneDispatcher
  <2> QED BY <2>5, <2>6, <2>7, <2>8
<1>11. ASSUME NEW s \in Settlements, executeTransfer(s) \/ transferByHand(s) PROVE DispatchInv'
  <2>1. /\ UNCHANGED <<payout, caller>>
        /\ payout[s].status = "PROCESSING"
        /\ provider[s] = "accepted" \/ (provider[s] = "none" /\ ~payout[s].automatic)
        /\ \A r \in Settlements \ {s} : provider'[r] = provider[r]
        /\ provider'[s] \in {"moved", "dead"}
    BY <1>11 DEF executeTransfer, transferByHand, MoneyMovedIsReserved, TypeOK
  <2>2. LockHeld' /\ OneQueuedPerTenant' /\ NothingSentEarly' /\ MoneyMovedIsReserved'
    BY <2>1 DEF LockHeld, OneQueuedPerTenant, NothingSentEarly, MoneyMovedIsReserved,
       SettlementsOf, Exists, QUEUED
  <2>3. DispatchOwned' /\ OneDispatcher'
    BY <2>1, <1>t DEF DispatchOwned, OneDispatcher, CallersOK, Aimed
  <2> QED BY <2>2, <2>3
<1>12. ASSUME NEW s \in Settlements, Closing(s) PROVE DispatchInv'
  <2>1. CASE applySettlementResult(s)
    <3>1. \A c \in Callers : caller[c].sid = s => caller[c].pc # "send"
      BY <2>1 DEF applySettlementResult, DispatchOwned
    <3>2. provider[s] = "moved" => Turns(s, "SETTLED")
      BY <1>t, <2>1, StatusTurns DEF applySettlementResult, markSettledTx
    <3>3. provider[s] # "moved" => Turns(s, "FAILED")
      BY <1>t, <2>1, StatusTurns DEF applySettlementResult, failSettlementTx
    <3> QED BY <2>1, <3>1, <3>2, <3>3, DispatchCloses DEF applySettlementResult, Exists
  <2>2. CASE cancelSettlement(s)
    <3>1. \A c \in Callers : caller[c].sid = s => caller[c].pc # "send"
      BY <2>2 DEF cancelSettlement, DispatchOwned, QUEUED
    <3>2. Turns(s, "CANCELLED")
      BY <1>t, <2>2, StatusTurns DEF cancelSettlement
    <3>3. provider[s] = "none"
      BY <2>2 DEF cancelSettlement, NothingSentEarly
    <3> QED BY <2>2, <3>1, <3>2, <3>3, DispatchCloses DEF cancelSettlement, Exists, QUEUED
  <2>3. CASE resolveSettlement(s)
    <3>1. \A c \in Callers : caller[c].sid = s => caller[c].pc # "send"
      BY <2>3 DEF resolveSettlement, UnderDispatch
    <3>2. \/ provider[s] = "moved" /\ Turns(s, "SETTLED")
          \/ provider[s] \in {"none", "dead"} /\ Turns(s, "FAILED")
      BY <1>t, <2>3, StatusTurns DEF resolveSettlement, markSettledTx, failSettlementTx
    <3> QED BY <2>3, <3>1, <3>2, DispatchCloses DEF resolveSettlement, Exists
  <2> QED BY <1>12, <2>1, <2>2, <2>3 DEF Closing
<1>13. CASE UNCHANGED vars
  BY <1>0, <1>13 DEF vars, settlementVars
<1> QED BY <1>1, <1>2, <1>3, <1>4, <1>5, <1>6, <1>7, <1>8, <1>9, <1>10, <1>11, <1>12, <1>13
     DEF Next, Continuing

\* The dispatch invariant holds: it says that a settlement is queued and dispatched once,
\* by one request, and that the money it moved stays reserved.
THEOREM DispatchCorrect == Spec => []DispatchInv
<1>1. Init => DispatchInv
  BY DEF Init, NotCreated, Idle, DispatchInv, LockHeld, OneQueuedPerTenant, NothingSentEarly,
     MoneyMovedIsReserved, DispatchOwned, OneDispatcher, QUEUED
<1> QED BY <1>1, TypeCorrect, DispatchStep, PTL DEF Spec

\* The three properties of it that the design relies on by name.
THEOREM PayoutSafety ==
  Spec => [](MoneyMovedIsReserved /\ OneQueuedPerTenant /\ OneDispatcher)
<1>1. DispatchInv => MoneyMovedIsReserved /\ OneQueuedPerTenant /\ OneDispatcher
  BY DEF DispatchInv
<1> QED BY <1>1, DispatchCorrect, PTL

-------------------------------------------------------------------------------
(* The ledger: SettlementLedgerAgree is inductive, given TypeOK. *)

\* The sources of a settlement's two rows name the settlement and the row.
LEMMA SettlementSources ==
  /\ \A r, s : SettlementSource(r) = SettlementSource(s) => r = s
  /\ \A r, s : ReversalSource(r) = ReversalSource(s) => r = s
  /\ \A r, s : SettlementSource(r) # ReversalSource(s)
<1>1. \A r, s : SettlementSource(r)[2] = r /\ ReversalSource(s)[2] = s
  BY DEF SettlementSource, ReversalSource
<1>2. \A r, s : SettlementSource(r)[1] = "Settlement" /\ ReversalSource(s)[1] = "SettlementReversal"
  BY DEF SettlementSource, ReversalSource
<1>3. "Settlement" # "SettlementReversal"
  OBVIOUS
<1> HIDE DEF SettlementSource, ReversalSource
<1> QED BY <1>1, <1>2, <1>3

LEMMA EntrySource ==
  \A source, t, direction, type, amount : Entry(source, t, direction, type, amount).source = source
  BY DEF Entry

\* Appending a row adds it, unless its source is there already.
LEMMA Appended ==
  ASSUME NEW L, NEW e
  PROVE  /\ HasEntry(L, e.source) => appendLedgerEntry(L, e) = L
         /\ ~HasEntry(L, e.source) => appendLedgerEntry(L, e) = L \cup {e}
  BY DEF appendLedgerEntry

SettlementTags == {"Settlement", "SettlementReversal"}

\* Collections and refunds write rows of other sources.
LEMMA GatewayRows ==
  ASSUME Collecting
  PROVE  /\ ledger \subseteq ledger'
         /\ \A e \in ledger' \ ledger : e.source[1] \notin SettlementTags
<1> DEFINE Foreign(L) == ledger \subseteq L /\ \A e \in L \ ledger : e.source[1] \notin SettlementTags
<1>1. Foreign(ledger)
  OBVIOUS
<1>2. ASSUME NEW L, Foreign(L), NEW e, e.source[1] \notin SettlementTags
      PROVE  Foreign(appendLedgerEntry(L, e))
  BY <1>2 DEF appendLedgerEntry
<1>3. \A x, k : /\ CollectionSource(x)[1] \notin SettlementTags
                /\ FeeSource(x)[1] \notin SettlementTags
                /\ RefundSource(x, k)[1] \notin SettlementTags
                /\ RefundFeeSource(x, k)[1] \notin SettlementTags
  BY DEF CollectionSource, FeeSource, RefundSource, RefundFeeSource, SettlementTags
<1> HIDE DEF Foreign
<1>4. ASSUME NEW x, NEW t, NEW gross, recordPlatformCollection(x, t, gross)
      PROVE  Foreign(ledger')
  <2> DEFINE fee == FeeOf(gross, FeeRule)
             collected == Entry(CollectionSource(x), t, "CREDIT", "CUSTOMER_PAYMENT", gross)
             charged == Entry(FeeSource(x), t, "DEBIT", "PLATFORM_FEE", fee)
             credited == appendLedgerEntry(ledger, collected)
  <2>1. collected.source[1] \notin SettlementTags /\ charged.source[1] \notin SettlementTags
    BY <1>3, EntrySource
  <2>2. ledger' = IF fee > 0 THEN appendLedgerEntry(credited, charged) ELSE credited
    BY <1>4 DEF recordPlatformCollection
  <2> HIDE DEF fee, collected, charged
  <2>3. Foreign(credited)
    BY <1>1, <1>2, <2>1
  <2> HIDE DEF credited
  <2>4. Foreign(appendLedgerEntry(credited, charged))
    BY <1>2, <2>1, <2>3
  <2> QED BY <2>2, <2>3, <2>4
<1>5. ASSUME NEW x, NEW kind, NEW amount, NEW completed, recordRefundRows(x, kind, amount, completed)
      PROVE  Foreign(ledger')
  BY <1>1, <1>2, <1>3, <1>5, EntrySource DEF recordRefundRows
<1>6. ASSUME NEW x \in Txns, UnlockedStep(x) \/ RefundStep(x) PROVE Foreign(ledger')
  BY <1>1, <1>4, <1>5, <1>6
  DEF UnlockedStep, RefundStep, recordRefund, recordReversal, reversePayment, completeGatewayRefund
<1>7. Foreign(ledger')
  BY <1>6 DEF Collecting
<1> QED BY <1>7 DEF Foreign

\* SettlementLedgerAgree for one settlement.
Agrees(s) ==
    /\ \A e \in ledger : e.source = SettlementSource(s) => Exists(s) /\ e = DebitOf(s)
    /\ \A e \in ledger : e.source = ReversalSource(s) =>
          payout[s].status \in {"FAILED", "CANCELLED"} /\ e = ReversalOf(s)
    /\ Exists(s) => HasEntry(ledger, SettlementSource(s))
    /\ payout[s].status \in {"FAILED", "CANCELLED"} => HasEntry(ledger, ReversalSource(s))

LEMMA AgreeParts ==
  /\ SettlementLedgerAgree <=> \A s \in Settlements : Agrees(s)
  /\ SettlementLedgerAgree' <=> \A s \in Settlements : Agrees(s)'
  BY DEF SettlementLedgerAgree, Agrees

\* A settlement that stays as it is agrees with a ledger that gains no row of its own.
LEMMA AgreesStays ==
  ASSUME NEW s \in Settlements, Agrees(s),
         payout'[s].tenantId = payout[s].tenantId, payout'[s].amountMinor = payout[s].amountMinor,
         (payout'[s].status = "NONE") <=> (payout[s].status = "NONE"),
         (payout'[s].status \in {"FAILED", "CANCELLED"}) <=> (payout[s].status \in {"FAILED", "CANCELLED"}),
         ledger \subseteq ledger',
         \A e \in ledger' \ ledger : e.source \notin {SettlementSource(s), ReversalSource(s)}
  PROVE  Agrees(s)'
  BY DEF Agrees, Exists, HasEntry, DebitOf, ReversalOf

\* Giving the balance back of a live settlement.
LEMMA AgreesRestored ==
  ASSUME SettlementLedgerAgree, NEW s \in Settlements, payout[s].status \in LIVE,
         restoreReservedBalance(s), NEW status \in {"FAILED", "CANCELLED"}, Turns(s, status)
  PROVE  SettlementLedgerAgree'
<1> USE AgreeParts
<1>1. Agrees(s) /\ Exists(s) /\ payout[s].status \notin {"FAILED", "CANCELLED"}
  BY DEF LIVE, QUEUED, Exists
<1>2. HasEntry(ledger, SettlementSource(s)) /\ ~HasEntry(ledger, ReversalSource(s))
  BY <1>1 DEF Agrees, HasEntry
<1>3. ledger' = ledger \cup {ReversalOf(s)} /\ ReversalOf(s).source = ReversalSource(s)
  <2>1. ReversalOf(s).source = ReversalSource(s)
    BY EntrySource DEF ReversalOf
  <2>2. ledger' = appendLedgerEntry(ledger, ReversalOf(s))
    BY <1>2 DEF restoreReservedBalance, ReversalOf
  <2> QED BY <1>2, <2>1, <2>2, Appended
<1>4. Agrees(s)'
  <2>1. DebitOf(s)' = DebitOf(s) /\ ReversalOf(s)' = ReversalOf(s) /\ Exists(s)'
    BY DEF Turns, DebitOf, ReversalOf, Exists
  <2> QED BY <1>1, <1>3, <2>1, SettlementSources DEF Agrees, HasEntry, Turns
<1>5. ASSUME NEW r \in Settlements \ {s} PROVE Agrees(r)'
  BY <1>3, <1>5, AgreesStays, SettlementSources DEF Turns
<1> QED BY <1>4, <1>5

LEMMA LedgerStep == TypeOK /\ DispatchInv /\ SettlementLedgerAgree /\ [Next]_vars => SettlementLedgerAgree'
<1> SUFFICES ASSUME TypeOK, DispatchInv, SettlementLedgerAgree, [Next]_vars
             PROVE  SettlementLedgerAgree'
  OBVIOUS
<1> USE AgreeParts
<1>t. PayoutsOK /\ CallersOK
  BY TypeParts DEF TypeInParts
<1>0. ASSUME UNCHANGED ledger,
             \A s \in Settlements :
                /\ payout'[s].tenantId = payout[s].tenantId
                /\ payout'[s].amountMinor = payout[s].amountMinor
                /\ payout'[s].status # payout[s].status =>
                      {payout[s].status, payout'[s].status} \cap {"NONE", "FAILED", "CANCELLED"} = {}
      PROVE  SettlementLedgerAgree'
  BY <1>0, AgreesStays
<1>1. CASE Collecting
  <2>1. \A s \in Settlements : SettlementSource(s)[1] \in SettlementTags /\ ReversalSource(s)[1] \in SettlementTags
    BY DEF SettlementSource, ReversalSource, SettlementTags
  <2> QED BY <1>1, <2>1, GatewayRows, AgreesStays DEF Collecting, settlementVars
<1>2. ASSUME NEW c \in Callers, NEW s \in Settlements, reserveBalance(c, s)
      PROVE  SettlementLedgerAgree'
  <2>1. settleableMinor(caller[c].tenantId) \in Nat
    BY <1>2, MaxMinorAssumption DEF reserveBalance, Amounts
  <2>2. PICK automatic \in BOOLEAN, manualMode \in BOOLEAN :
          payout' = [payout EXCEPT ![s] = NewPayout(c, automatic, manualMode)]
    BY <1>2, ReserveWrites
  <2>3. /\ \A r \in Settlements \ {s} : payout'[r] = payout[r]
        /\ payout'[s].status \in QUEUED
        /\ payout'[s].tenantId = caller[c].tenantId
        /\ payout'[s].amountMinor = settleableMinor(caller[c].tenantId)
    BY <1>t, <2>1, <2>2, NewPayoutRecord DEF PayoutsOK
  <2> DEFINE e == Entry(SettlementSource(s), caller[c].tenantId, "DEBIT", "SETTLEMENT",
                        settleableMinor(caller[c].tenantId))
  <2>4. DebitOf(s)' = e
    BY <2>3 DEF DebitOf
  <2>5. e.source = SettlementSource(s)
    BY EntrySource
  <2>6. ledger' = appendLedgerEntry(ledger, e) /\ payout[s].status = "NONE"
    BY <1>2 DEF reserveBalance, Exists
  <2> HIDE DEF e
  <2>7. Agrees(s)
    OBVIOUS
  <2>8. ~HasEntry(ledger, SettlementSource(s)) /\ ~HasEntry(ledger, ReversalSource(s))
    BY <2>6, <2>7 DEF Agrees, HasEntry, Exists
  <2>9. ledger' = ledger \cup {e}
    BY <2>5, <2>6, <2>8, Appended
  <2>10. Agrees(s)'
    BY <2>3, <2>4, <2>5, <2>8, <2>9, SettlementSources DEF Agrees, HasEntry, Exists, QUEUED
  <2>11. ASSUME NEW r \in Settlements \ {s} PROVE Agrees(r)'
    BY <2>3, <2>5, <2>9, <2>11, AgreesStays, SettlementSources
  <2> QED BY <2>10, <2>11
<1>3. ASSUME NEW c \in Callers, Continuing(c) PROVE SettlementLedgerAgree'
  <2>1. CASE dispatchClaim(c)
    <3>1. caller[c].sid \in Settlements
      BY <1>t, <2>1 DEF dispatchClaim, CallersOK, Aimed
    <3> QED BY <1>0, <1>t, <2>1, <3>1, StatusTurns DEF dispatchClaim, Turns, gatewayVars
  <2>2. CASE initiateSettlement(c)
    BY <1>0, <2>2 DEF initiateSettlement, gatewayVars
  <2>3. CASE storeConversation(c) \/ flagTimedOut(c)
    BY <1>0, <1>t, <2>3
    DEF storeConversation, flagTimedOut, gatewayVars, PayoutsOK, PayoutRecords, CallersOK, Aimed
  <2>4. CASE failSettlement(c)
    <3> DEFINE s == caller[c].sid
    <3>1. s \in Settlements
      BY <1>t, <2>4 DEF failSettlement, CallersOK, Aimed
    <3>2. CASE payout[s].status \in FINAL
      BY <1>0, <2>4, <3>2 DEF failSettlement, gatewayVars
    <3>3. CASE payout[s].status \notin FINAL
      <4>1. payout[s].status \in LIVE
        BY <2>4, <3>3 DEF failSettlement, DispatchInv, DispatchOwned, LIVE
      <4>2. restoreReservedBalance(s) /\ Turns(s, "FAILED")
        BY <1>t, <2>4, <3>1, <3>3, StatusTurns DEF failSettlement, failSettlementTx
      <4> QED BY <3>1, <4>1, <4>2, AgreesRestored
    <3> QED BY <3>2, <3>3
  <2> QED BY <1>2, <1>3, <2>1, <2>2, <2>3, <2>4 DEF Continuing
<1>4. ASSUME NEW s \in Settlements, Closing(s) PROVE SettlementLedgerAgree'
  <2>1. payout[s].status \in LIVE
    BY <1>4 DEF Closing, applySettlementResult, cancelSettlement, resolveSettlement, LIVE
  <2>2. CASE markSettledTx(s)
    <3>1. Turns(s, "SETTLED")
      BY <1>t, <2>2, StatusTurns DEF markSettledTx
    <3> QED BY <1>0, <2>1, <2>2, <3>1 DEF markSettledTx, Turns, LIVE, QUEUED
  <2>3. CASE failSettlementTx(s)
    BY <1>t, <2>1, <2>3, StatusTurns, AgreesRestored DEF failSettlementTx
  <2>4. CASE cancelSettlement(s)
    BY <1>t, <2>1, <2>4, StatusTurns, AgreesRestored DEF cancelSettlement
  <2> QED BY <1>4, <2>2, <2>3, <2>4 DEF Closing, applySettlementResult, resolveSettlement
<1>5. ASSUME NEW c \in Callers, NEW s \in Settlements, approveSettlement(c, s)
      PROVE  SettlementLedgerAgree'
  <2>1. \E status \in {"REQUESTED", "PROCESSING"} : Turns(s, status)
    BY <1>t, <1>5, StatusTurns DEF approveSettlement
  <2> QED BY <1>0, <1>5, <2>1 DEF approveSettlement, Turns, gatewayVars
<1>6. ASSUME UNCHANGED <<ledger, payout>> PROVE SettlementLedgerAgree'
  BY <1>0, <1>6
<1>7. ASSUME NEW c \in Callers, Requesting(c) \/ crash(c) PROVE SettlementLedgerAgree'
  BY <1>6, <1>7 DEF Requesting, retrySettlement, requestSettlement, crash, gatewayVars
<1>8. ASSUME NEW c \in Callers, NEW s \in Settlements, readTimedOut(c, s)
      PROVE  SettlementLedgerAgree'
  BY <1>6, <1>8 DEF readTimedOut, gatewayVars
<1>9. ASSUME NEW s \in Settlements, executeTransfer(s) \/ transferByHand(s)
      PROVE  SettlementLedgerAgree'
  BY <1>6, <1>9 DEF executeTransfer, transferByHand, gatewayVars
<1>10. CASE UNCHANGED vars
  BY <1>6, <1>10 DEF vars, gatewayVars, settlementVars
<1> QED BY <1>1, <1>3, <1>4, <1>5, <1>7, <1>8, <1>9, <1>10 DEF Next

\* Settlements and the ledger never disagree, so reconciliation never reports it.
THEOREM LedgerCorrect == Spec => []SettlementLedgerAgree
<1>1. Init => SettlementLedgerAgree
  BY DEF Init, GatewayInit, SettlementLedgerAgree, NotCreated, Exists
<1> QED BY <1>1, TypeCorrect, DispatchCorrect, LedgerStep, PTL DEF Spec

-------------------------------------------------------------------------------
(* Final states. *)

\* What a step may make of a settlement.
Keeps(s) ==
    /\ Exists(s) =>
         payout'[s].tenantId = payout[s].tenantId /\ payout'[s].amountMinor = payout[s].amountMinor
    /\ payout[s].status \in FINAL => payout'[s].status = payout[s].status
    /\ payout[s].status = "NONE" => payout'[s].status \in {"NONE"} \cup QUEUED

LEMMA StatusKept ==
  ASSUME TypeOK, DispatchInv, [Next]_vars, NEW r \in Settlements
  PROVE  Keeps(r)
<1>t. PayoutsOK /\ CallersOK
  BY TypeParts DEF TypeInParts
<1>0. ASSUME UNCHANGED payout PROVE Keeps(r)
  BY <1>0 DEF Keeps
<1>s. ASSUME NEW s \in Settlements, NEW status, Turns(s, status), payout[s].status \in LIVE
      PROVE  Keeps(r)
  BY <1>s DEF Turns, Keeps, LIVE, QUEUED, FINAL, Exists
<1>1. ASSUME NEW c \in Callers, NEW s \in Settlements, reserveBalance(c, s) PROVE Keeps(r)
  <2>1. settleableMinor(caller[c].tenantId) \in Nat
    BY <1>1, MaxMinorAssumption DEF reserveBalance, Amounts
  <2>2. PICK automatic \in BOOLEAN, manualMode \in BOOLEAN :
          payout' = [payout EXCEPT ![s] = NewPayout(c, automatic, manualMode)]
    BY <1>1, ReserveWrites
  <2>3. /\ \A q \in Settlements \ {s} : payout'[q] = payout[q]
        /\ payout'[s].status \in QUEUED /\ payout[s].status = "NONE"
    BY <1>t, <1>1, <2>1, <2>2, NewPayoutRecord DEF PayoutsOK, reserveBalance, Exists
  <2> QED BY <2>3 DEF Keeps, Exists, FINAL
<1>2. ASSUME NEW c \in Callers, Continuing(c) PROVE Keeps(r)
  <2>1. CASE dispatchClaim(c)
    <3>1. caller[c].sid \in Settlements
      BY <1>t, <2>1 DEF dispatchClaim, CallersOK, Aimed
    <3>2. CASE payout[caller[c].sid].status = "REQUESTED"
      BY <1>t, <1>s, <2>1, <3>1, <3>2, StatusTurns DEF dispatchClaim, LIVE, QUEUED
    <3>3. CASE payout[caller[c].sid].status # "REQUESTED"
      BY <1>0, <2>1, <3>3 DEF dispatchClaim
    <3> QED BY <3>2, <3>3
  <2>2. CASE initiateSettlement(c)
    BY <1>0, <2>2 DEF initiateSettlement
  <2>3. CASE storeConversation(c) \/ flagTimedOut(c)
    BY <1>t, <2>3
    DEF storeConversation, flagTimedOut, PayoutsOK, PayoutRecords, CallersOK, Aimed, Keeps
  <2>4. CASE failSettlement(c)
    <3>1. caller[c].sid \in Settlements
      BY <1>t, <2>4 DEF failSettlement, CallersOK, Aimed
    <3>2. payout[caller[c].sid].status \in {"PROCESSING"} \cup FINAL
      BY <2>4 DEF failSettlement, DispatchInv, DispatchOwned
    <3>3. CASE payout[caller[c].sid].status \in FINAL
      BY <1>0, <2>4, <3>3 DEF failSettlement
    <3>4. CASE payout[caller[c].sid].status \notin FINAL
      BY <1>t, <1>s, <2>4, <3>1, <3>2, <3>4, StatusTurns DEF failSettlement, failSettlementTx, LIVE
    <3> QED BY <3>3, <3>4
  <2> QED BY <1>1, <1>2, <2>1, <2>2, <2>3, <2>4 DEF Continuing
<1>3. ASSUME NEW s \in Settlements, Closing(s) PROVE Keeps(r)
  <2>1. payout[s].status \in LIVE
    BY <1>3 DEF Closing, applySettlementResult, cancelSettlement, resolveSettlement, LIVE
  <2>2. \E status \in FINAL : payout' = [payout EXCEPT ![s].status = status]
    BY <1>3 DEF Closing, applySettlementResult, cancelSettlement, resolveSettlement,
       markSettledTx, failSettlementTx, FINAL
  <2> QED BY <1>t, <1>s, <2>1, <2>2, StatusTurns
<1>4. ASSUME NEW c \in Callers, NEW s \in Settlements, approveSettlement(c, s) PROVE Keeps(r)
  BY <1>t, <1>s, <1>4, StatusTurns DEF approveSettlement, LIVE, QUEUED
<1>5. ASSUME NEW c \in Callers, NEW s \in Settlements,
             \/ Requesting(c) \/ crash(c) \/ readTimedOut(c, s)
      PROVE  Keeps(r)
  BY <1>0, <1>5 DEF Requesting, retrySettlement, requestSettlement, crash, readTimedOut
<1>6. ASSUME NEW s \in Settlements, executeTransfer(s) \/ transferByHand(s) PROVE Keeps(r)
  BY <1>0, <1>6 DEF executeTransfer, transferByHand
<1>7. CASE Collecting \/ UNCHANGED vars
  BY <1>0, <1>7 DEF Collecting, vars, settlementVars
<1> QED BY <1>2, <1>3, <1>4, <1>5, <1>6, <1>7 DEF Next

\* A final status never changes, a settlement keeps its tenant and amount, and its balance
\* comes back only in the step that fails or cancels it.
THEOREM FinalStates == Spec => FinalStatesStand
<1> DEFINE Stands(s) ==
      /\ Exists(s) =>
           payout'[s].tenantId = payout[s].tenantId /\ payout'[s].amountMinor = payout[s].amountMinor
      /\ payout[s].status \in FINAL => payout'[s].status = payout[s].status
      /\ ~HasEntry(ledger, ReversalSource(s)) /\ HasEntry(ledger', ReversalSource(s)) =>
           payout[s].status \in LIVE /\ payout'[s].status \in {"FAILED", "CANCELLED"}
<1>1. TypeOK /\ DispatchInv /\ SettlementLedgerAgree /\ SettlementLedgerAgree' /\ [Next]_vars
        => [\A s \in Settlements : Stands(s)]_vars
  <2> SUFFICES ASSUME TypeOK, DispatchInv, SettlementLedgerAgree, SettlementLedgerAgree',
                      [Next]_vars, NEW s \in Settlements
               PROVE  Stands(s)
    OBVIOUS
  <2>1. Keeps(s)
    BY StatusKept
  <2>2. ASSUME ~HasEntry(ledger, ReversalSource(s)), HasEntry(ledger', ReversalSource(s))
        PROVE  payout[s].status \in LIVE /\ payout'[s].status \in {"FAILED", "CANCELLED"}
    <3>1. payout'[s].status \in {"FAILED", "CANCELLED"} /\ payout[s].status \notin {"FAILED", "CANCELLED"}
      BY <2>2, AgreeParts DEF Agrees, HasEntry
    <3>2. payout[s].status \in {"NONE"} \cup LIVE \cup FINAL
      BY DEF TypeOK, PayoutRecords
    <3> QED BY <2>1, <3>1, <3>2 DEF Keeps, FINAL, QUEUED
  <2> QED BY <2>1, <2>2 DEF Keeps
<1> QED BY <1>1, TypeCorrect, DispatchCorrect, LedgerCorrect, PTL DEF Spec, FinalStatesStand

-------------------------------------------------------------------------------
(* The balance.  A tenant's rows come to what was earned, less what refunds    *)
(* took back, less what their live and settled settlements hold; what those    *)
(* hold is never more than was earned.                                         *)

Collected == {x \in Txns : gw[x].status # "NONE"}

TakenFrom(t) == [x \in Txns |-> IF gw[x].tenantId = t THEN TakenBack(x) ELSE 0]
RefundedBy(t) == SumFunctionOnSet(TakenFrom(t), Collected)

Holding == LIVE \cup {"SETTLED"}

HoldOf(t) ==
    [s \in Settlements |-> IF payout[s].tenantId = t /\ payout[s].status \in Holding
                           THEN payout[s].amountMinor ELSE 0]
Held(t) == SumFunctionOnSet(HoldOf(t), Settlements)

BalanceInv ==
    /\ GatewayInv
    /\ IsFiniteSet(Collected)
    /\ \A t \in Tenants :
         /\ TotalBy(ledger, t, BackKinds) = - RefundedBy(t)
         /\ TotalBy(ledger, t, PayKinds) = - Held(t)
         /\ Held(t) <= TotalBy(ledger, t, EarnKinds)

LEMMA TakenIsNat ==
  /\ GatewayInv => \A x \in Txns : TakenBack(x) \in Nat
  /\ GatewayInv' => \A x \in Txns : TakenBack(x)' \in Nat
<1>1. ASSUME NEW g \in TxnRecords, NEW fees, NEW p, NEW total, MoneyOK(g, fees, p, total)
      PROVE  g.refundedMinor - fees \in Nat
  BY <1>1 DEF MoneyOK, TxnRecords
<1>2. ASSUME GatewayInv, NEW x \in Txns PROVE TakenBack(x) \in Nat
  BY <1>1, <1>2 DEF GatewayInv, TablesOK, TxnMoney, TakenBack
<1>3. ASSUME GatewayInv', NEW x \in Txns PROVE TakenBack(x)' \in Nat
  BY <1>1, <1>3 DEF GatewayInv, TablesOK, TxnMoney, TakenBack
<1> QED BY <1>2, <1>3

LEMMA RefundedIsNat ==
  ASSUME BalanceInv, NEW t
  PROVE  RefundedBy(t) \in Nat
<1>1. \A x \in Collected : TakenFrom(t)[x] \in Nat
  BY TakenIsNat DEF BalanceInv, TakenFrom, Collected
<1> QED BY <1>1, SumNat DEF RefundedBy, BalanceInv

LEMMA SettlementsFinite == IsFiniteSet(Settlements)
  BY FS_Interval, SettlementAssumption DEF Settlements

LEMMA HeldIsNat ==
  ASSUME PayoutsOK, NEW t
  PROVE  Held(t) \in Nat /\ \A s \in Settlements : HoldOf(t)[s] \in Nat
<1>1. \A s \in Settlements : HoldOf(t)[s] \in Nat
  BY DEF PayoutsOK, PayoutRecords, HoldOf
<1> QED BY <1>1, SettlementsFinite, SumNat DEF Held

LEMMA EarnedIsInt ==
  ASSUME GatewayInv, NEW t
  PROVE  /\ TotalBy(ledger, t, EarnKinds) \in Int /\ TotalBy(ledger, t, BackKinds) \in Int
         /\ TotalBy(ledger, t, PayKinds) \in Int
  BY GatewayInvTypes, TotalByIsInt

LEMMA GatewayInvTypesNext == GatewayInv' => RowsAdd(ledger')
<1>1. Amounts \subseteq Nat
  BY MaxMinorAssumption DEF Amounts
<1> QED BY <1>1 DEF GatewayInv, LedgerOK, RowsAdd, Amounts

\* The balance as availableMinor computes it.
LEMMA AvailableSplits ==
  ASSUME GatewayInv, NEW t
  PROVE  availableMinor(t) = TotalBy(ledger, t, EarnKinds) + TotalBy(ledger, t, BackKinds)
                               + TotalBy(ledger, t, PayKinds)
<1>1. RowsAdd(ledger) /\ \A e \in ledger : e.entryType \in RowKinds
  BY GatewayInvTypes DEF GatewayInv, LedgerOK
<1> QED BY <1>1, BalanceSplits DEF availableMinor

LEMMA AvailableSplitsNext ==
  ASSUME GatewayInv', NEW t
  PROVE  availableMinor(t)' = TotalBy(ledger', t, EarnKinds) + TotalBy(ledger', t, BackKinds)
                                + TotalBy(ledger', t, PayKinds)
<1>1. RowsAdd(ledger') /\ \A e \in ledger' : e.entryType \in RowKinds
  BY GatewayInvTypesNext DEF GatewayInv, LedgerOK
<1> QED BY <1>1, BalanceSplits DEF availableMinor

\* Refunds and collections.
LEMMA CollectingBalance ==
  ASSUME BalanceInv, PayoutsOK, Collecting
  PROVE  BalanceInv'
<1>1. PICK x \in Txns : RefundStep(x) \/ UnlockedStep(x)
  BY DEF Collecting
<1>2. GatewayInv /\ GatewayInv' /\ (RefundMoves(x) \/ NothingMoves \/ \E t \in Tenants : CollectionMoves(x, t))
  BY <1>1, GatewayMoves DEF BalanceInv
<1>3. \A t : Held(t)' = Held(t)
  BY DEF Collecting, settlementVars, Held, HoldOf
<1>4. \A y \in Txns : TakenBack(y) \in Nat
  BY <1>2, TakenIsNat
<1>5. \A y \in Txns : TakenBack(y)' \in Nat
  BY <1>2, TakenIsNat
<1>6. ASSUME NEW t \in Tenants
      PROVE  /\ Held(t) \in Nat /\ RefundedBy(t) \in Nat
             /\ TotalBy(ledger, t, EarnKinds) \in Int
             /\ TotalBy(ledger, t, BackKinds) = - RefundedBy(t)
             /\ TotalBy(ledger, t, PayKinds) = - Held(t)
             /\ Held(t) <= TotalBy(ledger, t, EarnKinds)
  BY <1>2, HeldIsNat, RefundedIsNat, EarnedIsInt DEF BalanceInv
<1>7. CASE NothingMoves
  <2>1. Collected' = Collected /\ UNCHANGED <<gw, ledger>>
    BY <1>7 DEF NothingMoves, Collected
  <2>2. \A t : TakenFrom(t)' = TakenFrom(t)
    BY <1>7 DEF NothingMoves, TakenFrom, TakenBack
  <2>3. \A t : RefundedBy(t)' = RefundedBy(t)
    BY <2>1, <2>2 DEF RefundedBy
  <2> QED BY <1>2, <1>3, <2>1, <2>3 DEF BalanceInv
<1>8. CASE RefundMoves(x)
  <2>1. Collected' = Collected /\ x \in Collected
    BY <1>8 DEF RefundMoves, Collected
  <2>2. ASSUME NEW t \in Tenants
        PROVE  RefundedBy(t)' = RefundedBy(t)
                 + (IF gw[x].tenantId = t THEN TakenBack(x)' - TakenBack(x) ELSE 0)
    <3> DEFINE f == TakenFrom(t)
               h == TakenFrom(t)'
    <3>1. \A y \in Collected : f[y] \in Int
      BY <1>4 DEF TakenFrom, Collected
    <3>2. h[x] = (IF gw[x].tenantId = t THEN TakenBack(x)' ELSE 0) /\ h[x] \in Int
      BY <1>5, <1>8 DEF TakenFrom, RefundMoves
    <3>3. f[x] = (IF gw[x].tenantId = t THEN TakenBack(x) ELSE 0)
      BY DEF TakenFrom
    <3>4. \A y \in Collected \ {x} : h[y] = f[y]
      BY <1>8, FeesReturnedOf DEF TakenFrom, RefundMoves, TakenBack, Collected
    <3>5. RefundedBy(t) = SumFunctionOnSet(f, Collected) /\ RefundedBy(t)' = SumFunctionOnSet(h, Collected)
      BY <2>1 DEF RefundedBy
    <3>6. IsFiniteSet(Collected)
      BY DEF BalanceInv
    <3> HIDE DEF f, h
    <3>7. SumFunctionOnSet(h, Collected) = SumFunctionOnSet(f, Collected) - f[x] + h[x]
      BY <2>1, <3>1, <3>2, <3>4, <3>6, SumUpdate
    <3> QED BY <1>4, <1>5, <1>6, <3>2, <3>3, <3>5, <3>7
  <2>3. ASSUME NEW t \in Tenants
        PROVE  /\ TotalBy(ledger', t, BackKinds) = - RefundedBy(t)'
               /\ TotalBy(ledger', t, PayKinds) = - Held(t)'
               /\ Held(t)' <= TotalBy(ledger', t, EarnKinds)
    <3>1. /\ TotalBy(ledger', t, EarnKinds) = TotalBy(ledger, t, EarnKinds)
          /\ TotalBy(ledger', t, PayKinds) = TotalBy(ledger, t, PayKinds)
          /\ TotalBy(ledger', t, BackKinds) = TotalBy(ledger, t, BackKinds)
               - (IF gw[x].tenantId = t THEN TakenBack(x)' - TakenBack(x) ELSE 0)
      BY <1>8 DEF RefundMoves
    <3> QED BY <1>3, <1>4, <1>5, <1>6, <2>2, <3>1
  <2> QED BY <1>2, <2>1, <2>3 DEF BalanceInv
<1>9. ASSUME NEW t \in Tenants, CollectionMoves(x, t) PROVE BalanceInv'
  <2>1. Collected' = Collected \cup {x} /\ x \notin Collected
    BY <1>9 DEF CollectionMoves, Collected
  <2>2. IsFiniteSet(Collected) /\ IsFiniteSet(Collected')
    BY <2>1, FS_AddElement DEF BalanceInv
  <2>3. ASSUME NEW u PROVE RefundedBy(u)' = RefundedBy(u)
    <3> DEFINE f == TakenFrom(u)
               h == TakenFrom(u)'
    <3>1. \A y \in Collected : f[y] \in Int /\ f[y] = h[y]
      BY <1>4, <1>9, <2>1, FeesReturnedOf DEF TakenFrom, CollectionMoves, TakenBack, Collected
    <3>2. h[x] = 0
      BY <1>9 DEF TakenFrom, CollectionMoves
    <3>3. \A y \in Collected \cup {x} : h[y] \in Int
      BY <3>1, <3>2
    <3>4. RefundedBy(u) = SumFunctionOnSet(f, Collected) /\ RefundedBy(u)' = SumFunctionOnSet(h, Collected \cup {x})
      BY <2>1, Zenon DEF RefundedBy
    <3> HIDE DEF f, h
    <3>5. SumFunctionOnSet(f, Collected) = SumFunctionOnSet(h, Collected)
      BY <2>2, <3>1, SumSame
    <3>6. SumFunctionOnSet(h, Collected \cup {x}) = h[x] + SumFunctionOnSet(h, Collected)
      BY <2>1, <2>2, <3>3, SumAdd
    <3>7. SumFunctionOnSet(h, Collected) \in Int
      <4>1. \A y \in Collected : h[y] \in Int
        BY <3>3
      <4> QED BY <2>2, <4>1, SumType
    <3> QED BY <3>2, <3>4, <3>5, <3>6, <3>7
  <2>4. ASSUME NEW u \in Tenants
        PROVE  /\ TotalBy(ledger', u, BackKinds) = - RefundedBy(u)'
               /\ TotalBy(ledger', u, PayKinds) = - Held(u)'
               /\ Held(u)' <= TotalBy(ledger', u, EarnKinds)
    <3>1. /\ TotalBy(ledger', u, BackKinds) = TotalBy(ledger, u, BackKinds)
          /\ TotalBy(ledger', u, PayKinds) = TotalBy(ledger, u, PayKinds)
          /\ TotalBy(ledger', u, EarnKinds) >= TotalBy(ledger, u, EarnKinds)
      BY <1>9 DEF CollectionMoves
    <3>2. TotalBy(ledger', u, EarnKinds) \in Int
      BY <1>2, GatewayInvTypesNext, TotalByIsInt
    <3> QED BY <1>3, <1>6, <2>3, <3>1, <3>2
  <2> QED BY <1>2, <2>2, <2>4 DEF BalanceInv
<1> QED BY <1>2, <1>7, <1>8, <1>9

\* What a settlement's step leaves of a transaction: everything but the two columns
\* that link it to the settlement.
MoneyColumnsKept ==
    /\ gw' \in [Txns -> TxnRecords]
    /\ \A x \in Txns :
         /\ gw'[x].status = gw[x].status /\ gw'[x].tenantId = gw[x].tenantId
         /\ gw'[x].grossMinor = gw[x].grossMinor /\ gw'[x].feeMinor = gw[x].feeMinor
         /\ gw'[x].refundedMinor = gw[x].refundedMinor
    /\ UNCHANGED <<refunds, payment>>

LEMMA LinksKeepMoney ==
  ASSUME GatewayInv, UNCHANGED <<refunds, payment>>, NEW next,
         gw' = [x \in Txns |-> next[x]],
         \A x \in Txns :
            \/ next[x] = gw[x]
            \/ \E status \in {"UNSETTLED", "SETTLEMENT_PENDING", "SETTLED"}, s \in Nat :
                 \/ next[x] = [gw[x] EXCEPT !.settlementStatus = status, !.settlementId = s]
                 \/ next[x] = [gw[x] EXCEPT !.settlementStatus = status]
  PROVE  MoneyColumnsKept
<1>1. ASSUME NEW x \in Txns
      PROVE  /\ next[x] \in TxnRecords
             /\ next[x].status = gw[x].status /\ next[x].tenantId = gw[x].tenantId
             /\ next[x].grossMinor = gw[x].grossMinor /\ next[x].feeMinor = gw[x].feeMinor
             /\ next[x].refundedMinor = gw[x].refundedMinor
  <2>1. gw[x] \in TxnRecords
    BY DEF GatewayInv, TablesOK
  <2> QED BY <2>1 DEF TxnRecords
<1> QED BY <1>1 DEF MoneyColumnsKept

LEMMA RefundedKept ==
  ASSUME MoneyColumnsKept
  PROVE  Collected' = Collected /\ \A t : RefundedBy(t)' = RefundedBy(t)
<1>1. Collected' = Collected
  BY DEF MoneyColumnsKept, Collected
<1>2. \A t : TakenFrom(t)' = TakenFrom(t)
  BY FeesReturnedOf DEF MoneyColumnsKept, TakenFrom, TakenBack
<1> QED BY <1>1, <1>2 DEF RefundedBy

\* A settlement's row is not one of the gateway's.
LEMMA GatewayKept ==
  ASSUME GatewayInv, MoneyColumnsKept,
         \/ ledger' = ledger
         \/ \E e : /\ ledger' = ledger \cup {e} /\ e.source[1] \in SettlementTags
                   /\ e.tenantId \in Tenants /\ e.amountMinor \in Amounts /\ e.entryType \in PayKinds
  PROVE  GatewayInv'
<1>1. LedgerOK /\ TablesOK
  BY DEF GatewayInv
<1>2. LedgerOK'
  <2>1. CASE ledger' = ledger
    BY <1>1, <2>1 DEF LedgerOK, Amounts
  <2>2. ASSUME NEW e, ledger' = ledger \cup {e}, e.tenantId \in Tenants,
               e.amountMinor \in Amounts, e.entryType \in PayKinds
        PROVE  LedgerOK'
    <3>1. IsFiniteSet(ledger')
      BY <1>1, <2>2, FS_AddElement DEF LedgerOK
    <3> QED BY <1>1, <2>2, <3>1 DEF LedgerOK, Amounts, RowKinds
  <2> QED BY <2>1, <2>2
<1>3. TablesOK'
  BY <1>1 DEF TablesOK, MoneyColumnsKept
<1>4. ASSUME NEW y \in Txns PROVE TxnMoney(y)' /\ KeysFree(y)'
  <2>1. ledger \subseteq ledger' /\ \A e \in ledger' \ ledger : ~RowOf(e, y)
    BY DEF RowOf, SettlementTags, GatewaySources
  <2>2. TxnMoney(y) /\ KeysFree(y)
    BY DEF GatewayInv
  <2> QED BY <2>1, <2>2, TxnKept DEF MoneyColumnsKept
<1> QED BY <1>2, <1>3, <1>4 DEF GatewayInv

\* One settlement at a time changes what it holds.
LEMMA HeldMoves ==
  ASSUME PayoutsOK, PayoutsOK', NEW s \in Settlements,
         \A r \in Settlements \ {s} : payout'[r] = payout[r], NEW t
  PROVE  Held(t)' = Held(t) - HoldOf(t)[s] + HoldOf(t)'[s]
<1> DEFINE f == HoldOf(t)
           h == HoldOf(t)'
<1>1. \A r \in Settlements : f[r] \in Int
  BY HeldIsNat
<1>2. h[s] \in Int
  BY DEF PayoutsOK, PayoutRecords, HoldOf
<1>3. \A r \in Settlements \ {s} : h[r] = f[r]
  BY DEF HoldOf
<1>4. Held(t) = SumFunctionOnSet(f, Settlements) /\ Held(t)' = SumFunctionOnSet(h, Settlements)
  BY DEF Held
<1> HIDE DEF f, h
<1>5. SumFunctionOnSet(h, Settlements) = SumFunctionOnSet(f, Settlements) - f[s] + h[s]
  BY <1>1, <1>2, <1>3, SettlementsFinite, SumUpdate
<1> QED BY <1>4, <1>5 DEF f, h

\* A step that writes no row and takes no settlement out of those that hold, or into them.
LEMMA BalanceStays ==
  ASSUME BalanceInv, MoneyColumnsKept, UNCHANGED ledger,
         \A s \in Settlements :
            /\ payout'[s].tenantId = payout[s].tenantId
            /\ payout'[s].amountMinor = payout[s].amountMinor
            /\ (payout'[s].status \in Holding) <=> (payout[s].status \in Holding)
  PROVE  BalanceInv'
<1>1. GatewayInv'
  BY GatewayKept DEF BalanceInv
<1>2. Collected' = Collected /\ \A t : RefundedBy(t)' = RefundedBy(t)
  BY RefundedKept
<1>3. \A t : HoldOf(t)' = HoldOf(t)
  BY DEF HoldOf
<1>4. \A t : Held(t)' = Held(t)
  BY <1>3 DEF Held
<1> QED BY <1>1, <1>2, <1>4 DEF BalanceInv

\* A row that a settlement writes, and what the settlement comes to hold with it.
LEMMA BalanceMoves ==
  ASSUME BalanceInv, MoneyColumnsKept, PayoutsOK, PayoutsOK', NEW s \in Settlements,
         \A r \in Settlements \ {s} : payout'[r] = payout[r],
         NEW e, ledger' = ledger \cup {e}, ~HasEntry(ledger, e.source),
         e.source[1] \in SettlementTags, e.tenantId \in Tenants, e.amountMinor \in Amounts,
         e.entryType \in PayKinds,
         \A t \in Tenants : /\ HoldOf(t)'[s] - HoldOf(t)[s] = IF e.tenantId = t THEN - Signed(e) ELSE 0
                            /\ Held(t)' <= TotalBy(ledger, t, EarnKinds)
  PROVE  BalanceInv'
<1>1. GatewayInv'
  BY GatewayKept DEF BalanceInv
<1>2. Collected' = Collected /\ \A t : RefundedBy(t)' = RefundedBy(t)
  BY RefundedKept
<1>3. ASSUME NEW t \in Tenants
      PROVE  /\ TotalBy(ledger, t, EarnKinds) \in Int /\ TotalBy(ledger, t, BackKinds) \in Int
             /\ TotalBy(ledger, t, PayKinds) \in Int
             /\ Held(t) \in Nat /\ HoldOf(t)[s] \in Nat /\ HoldOf(t)'[s] \in Nat
             /\ TotalBy(ledger, t, PayKinds) = - Held(t)
             /\ Held(t)' = Held(t) - HoldOf(t)[s] + HoldOf(t)'[s]
  <2>1. HoldOf(t)'[s] \in Nat
    BY DEF PayoutsOK, PayoutRecords, HoldOf
  <2>2. Held(t)' = Held(t) - HoldOf(t)[s] + HoldOf(t)'[s]
    BY HeldMoves
  <2> QED BY <2>1, <2>2, HeldIsNat, EarnedIsInt DEF BalanceInv
<1>4. e.amountMinor \in Nat /\ Signed(e) \in Int /\ RowsAdd(ledger)
  BY MaxMinorAssumption, SignedIsInt, GatewayInvTypes DEF Amounts, BalanceInv
<1>5. ASSUME NEW t \in Tenants, NEW kinds \in {EarnKinds, BackKinds, PayKinds}
      PROVE  TotalBy(ledger', t, kinds) = TotalBy(ledger, t, kinds)
               + (IF e.tenantId = t /\ kinds = PayKinds THEN Signed(e) ELSE 0)
  <2>1. e.entryType \in kinds <=> kinds = PayKinds
    BY DEF EarnKinds, BackKinds, PayKinds
  <2>2. TotalBy(ledger \cup {e}, t, kinds) = TotalBy(ledger, t, kinds)
          + (IF e.tenantId = t /\ e.entryType \in kinds THEN Signed(e) ELSE 0)
    BY <1>4, KindRow
  <2>3. TotalBy(ledger', t, kinds) = TotalBy(ledger \cup {e}, t, kinds)
    OBVIOUS
  <2> HIDE DEF TotalBy
  <2> QED BY <2>1, <2>2, <2>3
<1>6. PayKinds # EarnKinds /\ PayKinds # BackKinds
  BY DEF EarnKinds, BackKinds, PayKinds
<1>7. ASSUME NEW t \in Tenants
      PROVE  /\ TotalBy(ledger', t, BackKinds) = - RefundedBy(t)'
             /\ TotalBy(ledger', t, PayKinds) = - Held(t)'
             /\ Held(t)' <= TotalBy(ledger', t, EarnKinds)
  <2>1. TotalBy(ledger', t, EarnKinds) = TotalBy(ledger, t, EarnKinds)
        /\ TotalBy(ledger', t, BackKinds) = TotalBy(ledger, t, BackKinds)
    <3>1. \A n \in Int : n + 0 = n
      OBVIOUS
    <3>2. TotalBy(ledger', t, EarnKinds) = TotalBy(ledger, t, EarnKinds) + 0
      BY <1>5, <1>6
    <3>3. TotalBy(ledger', t, BackKinds) = TotalBy(ledger, t, BackKinds) + 0
      BY <1>5, <1>6
    <3> QED BY <1>3, <3>1, <3>2, <3>3
  <2>2. TotalBy(ledger', t, PayKinds) = TotalBy(ledger, t, PayKinds)
          + (IF e.tenantId = t THEN Signed(e) ELSE 0)
    BY <1>5
  <2>3. TotalBy(ledger', t, PayKinds) = - Held(t)'
    BY <1>3, <1>4, <2>2
  <2> QED BY <1>2, <2>1, <2>3 DEF BalanceInv
<1> QED BY <1>1, <1>2, <1>7 DEF BalanceInv

\* Reserving: no more than the balance, of which refunds only ever take away.
LEMMA ReserveBalance ==
  ASSUME BalanceInv, TypeOK, TypeOK', SettlementLedgerAgree,
         NEW c \in Callers, NEW s \in Settlements, reserveBalance(c, s)
  PROVE  BalanceInv'
<1> DEFINE u == caller[c].tenantId
           amount == settleableMinor(u)
           e == Entry(SettlementSource(s), u, "DEBIT", "SETTLEMENT", amount)
<1>1. PayoutsOK /\ PayoutsOK' /\ CallersOK
  BY TypeParts DEF TypeInParts
<1>2. u \in Tenants /\ amount \in Amounts /\ amount \in Nat /\ payout[s].status = "NONE"
  BY <1>1, MaxMinorAssumption DEF reserveBalance, CallersOK, CallerRecords, Exists, Amounts
<1>3. PICK automatic \in BOOLEAN, manualMode \in BOOLEAN :
        payout' = [payout EXCEPT ![s] = NewPayout(c, automatic, manualMode)]
  BY ReserveWrites
<1>4. /\ \A r \in Settlements \ {s} : payout'[r] = payout[r]
      /\ payout'[s].status \in QUEUED
      /\ payout'[s].tenantId = u /\ payout'[s].amountMinor = amount
  BY <1>1, <1>2, <1>3, NewPayoutRecord DEF PayoutsOK
<1>5. /\ e.source = SettlementSource(s) /\ e.source[1] \in SettlementTags
      /\ e.tenantId = u /\ e.amountMinor = amount /\ Signed(e) = - amount /\ e.entryType \in PayKinds
  BY DEF Entry, Signed, PayKinds, SettlementSource, SettlementTags
<1>6. ledger' = ledger \cup {e} /\ ~HasEntry(ledger, e.source)
  <2>1. ledger' = appendLedgerEntry(ledger, e)
    BY DEF reserveBalance
  <2>2. ~HasEntry(ledger, SettlementSource(s))
    BY <1>2 DEF SettlementLedgerAgree, HasEntry, Exists
  <2> QED BY <1>5, <2>1, <2>2 DEF appendLedgerEntry
<1>7. MoneyColumnsKept
  <2> DEFINE next == linkCollections(u, s)
  <2>1. gw' = [x \in Txns |-> next[x]] /\ UNCHANGED <<refunds, payment>>
    BY DEF reserveBalance, linkCollections
  <2>2. \A x \in Txns :
          \/ next[x] = gw[x]
          \/ next[x] = [gw[x] EXCEPT !.settlementStatus = "SETTLEMENT_PENDING", !.settlementId = s]
    BY DEF linkCollections
  <2>3. s \in Nat
    BY DEF Settlements
  <2> HIDE DEF next
  <2> QED BY <2>1, <2>2, <2>3, LinksKeepMoney DEF BalanceInv
<1> HIDE DEF e
<1>8. ASSUME NEW t \in Tenants
      PROVE  /\ HoldOf(t)[s] = 0
             /\ HoldOf(t)'[s] = IF u = t THEN amount ELSE 0
  BY <1>2, <1>4 DEF HoldOf, Holding, LIVE, QUEUED
<1>9. ASSUME NEW t \in Tenants
      PROVE  Held(t)' <= TotalBy(ledger, t, EarnKinds)
  <2>1. Held(t)' = Held(t) - HoldOf(t)[s] + HoldOf(t)'[s]
    BY <1>1, <1>4, HeldMoves
  <2>2. /\ Held(t) \in Nat /\ RefundedBy(t) \in Nat /\ TotalBy(ledger, t, EarnKinds) \in Int
        /\ TotalBy(ledger, t, BackKinds) = - RefundedBy(t)
        /\ TotalBy(ledger, t, PayKinds) = - Held(t)
        /\ Held(t) <= TotalBy(ledger, t, EarnKinds)
    BY <1>1, HeldIsNat, RefundedIsNat, EarnedIsInt DEF BalanceInv
  <2>3. CASE u = t
    <3>1. availableMinor(t) = TotalBy(ledger, t, EarnKinds) + TotalBy(ledger, t, BackKinds)
                                + TotalBy(ledger, t, PayKinds)
      BY AvailableSplits DEF BalanceInv
    <3>2. availableMinor(t) \in Int
      BY <2>2, <3>1
    <3>3. amount <= availableMinor(t)
      BY <1>2, <2>3, <3>2 DEF settleableMinor, Amounts
    <3> HIDE DEF amount
    <3> QED BY <1>2, <1>8, <2>1, <2>2, <2>3, <3>1, <3>3
  <2>4. CASE u # t
    BY <1>8, <2>1, <2>2, <2>4
  <2> QED BY <2>3, <2>4
<1>10. ASSUME NEW t \in Tenants
       PROVE  HoldOf(t)'[s] - HoldOf(t)[s] = IF e.tenantId = t THEN - Signed(e) ELSE 0
  <2> HIDE DEF amount, u
  <2> QED BY <1>2, <1>5, <1>8
<1>11. e.tenantId \in Tenants /\ e.amountMinor \in Amounts
  BY <1>2, <1>5
<1> QED BY <1>1, <1>4, <1>5, <1>6, <1>7, <1>9, <1>10, <1>11, BalanceMoves

\* Failing or cancelling gives back exactly what the settlement held.
LEMMA RestoreBalance ==
  ASSUME BalanceInv, TypeOK, TypeOK', SettlementLedgerAgree,
         NEW s \in Settlements, payout[s].status \in LIVE,
         NEW status \in {"FAILED", "CANCELLED"}, Turns(s, status), restoreReservedBalance(s)
  PROVE  BalanceInv'
<1> DEFINE u == payout[s].tenantId
           amount == payout[s].amountMinor
           e == ReversalOf(s)
<1>1. PayoutsOK /\ PayoutsOK'
  BY TypeParts DEF TypeInParts
<1>2. Agrees(s) /\ Exists(s) /\ payout[s].status \notin {"FAILED", "CANCELLED"}
  BY AgreeParts DEF LIVE, QUEUED, Exists
<1>3. HasEntry(ledger, SettlementSource(s)) /\ ~HasEntry(ledger, ReversalSource(s))
  BY <1>2 DEF Agrees, HasEntry
<1>4. /\ e.source = ReversalSource(s) /\ e.source[1] \in SettlementTags
      /\ e.tenantId = u /\ e.amountMinor = amount /\ Signed(e) = amount /\ e.entryType \in PayKinds
  BY DEF ReversalOf, Entry, Signed, PayKinds, ReversalSource, SettlementTags
<1>5. ledger' = ledger \cup {e} /\ ~HasEntry(ledger, e.source)
  <2>1. ledger' = appendLedgerEntry(ledger, e)
    BY <1>3 DEF restoreReservedBalance, ReversalOf
  <2> QED BY <1>3, <1>4, <2>1 DEF appendLedgerEntry
<1>6. u \in Tenants /\ amount \in Amounts /\ amount \in Nat
  <2>1. PICK d \in ledger : d.source = SettlementSource(s)
    BY <1>3 DEF HasEntry
  <2>2. d = DebitOf(s)
    BY <1>2, <2>1 DEF Agrees
  <2>3. d.tenantId = u /\ d.amountMinor = amount
    BY <2>2 DEF DebitOf, Entry
  <2>4. d.tenantId \in Tenants /\ d.amountMinor \in Amounts
    BY DEF BalanceInv, GatewayInv, LedgerOK
  <2> QED BY <2>3, <2>4, MaxMinorAssumption DEF Amounts
<1>7. MoneyColumnsKept
  <2> DEFINE next == [x \in Txns |->
                IF gw[x].settlementId = s
                THEN [gw[x] EXCEPT !.settlementStatus = "UNSETTLED", !.settlementId = NoSettlement]
                ELSE gw[x]]
  <2>1. gw' = [x \in Txns |-> next[x]] /\ UNCHANGED <<refunds, payment>>
    BY DEF restoreReservedBalance
  <2>2. \A x \in Txns :
          \/ next[x] = gw[x]
          \/ next[x] = [gw[x] EXCEPT !.settlementStatus = "UNSETTLED", !.settlementId = NoSettlement]
    OBVIOUS
  <2>3. NoSettlement \in Nat
    BY DEF NoSettlement
  <2> HIDE DEF next
  <2> QED BY <2>1, <2>2, <2>3, LinksKeepMoney DEF BalanceInv
<1> HIDE DEF e
<1>8. ASSUME NEW t \in Tenants
      PROVE  /\ HoldOf(t)[s] = IF u = t THEN amount ELSE 0
             /\ HoldOf(t)'[s] = 0
  BY DEF HoldOf, Holding, Turns, LIVE, QUEUED
<1>9. \A r \in Settlements \ {s} : payout'[r] = payout[r]
  BY DEF Turns
<1> HIDE DEF u, amount
<1>10. ASSUME NEW t \in Tenants
       PROVE  /\ HoldOf(t)'[s] - HoldOf(t)[s] = IF e.tenantId = t THEN - Signed(e) ELSE 0
              /\ Held(t)' <= TotalBy(ledger, t, EarnKinds)
  <2>1. Held(t)' = Held(t) - HoldOf(t)[s] + HoldOf(t)'[s]
    BY <1>1, <1>9, HeldMoves
  <2>2. Held(t) \in Nat /\ TotalBy(ledger, t, EarnKinds) \in Int
        /\ Held(t) <= TotalBy(ledger, t, EarnKinds)
    BY <1>1, HeldIsNat, EarnedIsInt DEF BalanceInv
  <2>3. HoldOf(t)'[s] - HoldOf(t)[s] = IF e.tenantId = t THEN - Signed(e) ELSE 0
    BY <1>4, <1>6, <1>8
  <2>4. Held(t)' <= TotalBy(ledger, t, EarnKinds)
    BY <1>6, <1>8, <2>1, <2>2
  <2> QED BY <2>3, <2>4
<1>11. e.tenantId \in Tenants /\ e.amountMinor \in Amounts
  BY <1>4, <1>6
<1> QED BY <1>1, <1>4, <1>5, <1>7, <1>9, <1>10, <1>11, BalanceMoves

\* A step that leaves the gateway's tables alone, and takes no settlement out of those that
\* hold their balance, or into them.
LEMMA BalanceTurns ==
  ASSUME BalanceInv, UNCHANGED gatewayVars,
         \A s \in Settlements :
            /\ payout'[s].tenantId = payout[s].tenantId
            /\ payout'[s].amountMinor = payout[s].amountMinor
            /\ (payout'[s].status \in Holding) <=> (payout[s].status \in Holding)
  PROVE  BalanceInv'
<1>1. MoneyColumnsKept
  BY DEF MoneyColumnsKept, gatewayVars, BalanceInv, GatewayInv, TablesOK
<1> QED BY <1>1, BalanceStays DEF gatewayVars

LEMMA SettledBalance ==
  ASSUME BalanceInv, TypeOK, NEW s \in Settlements, payout[s].status \in LIVE, markSettledTx(s)
  PROVE  BalanceInv'
<1>1. Turns(s, "SETTLED")
  BY TypeParts, StatusTurns DEF TypeInParts, markSettledTx
<1>2. MoneyColumnsKept
  <2> DEFINE next == [x \in Txns |->
                IF gw[x].settlementId = s
                THEN [gw[x] EXCEPT !.settlementStatus = "SETTLED"] ELSE gw[x]]
  <2>1. gw' = [x \in Txns |-> next[x]] /\ UNCHANGED <<refunds, payment>>
    BY DEF markSettledTx
  <2>2. \A x \in Txns :
          \/ next[x] = gw[x]
          \/ next[x] = [gw[x] EXCEPT !.settlementStatus = "SETTLED"]
    OBVIOUS
  <2>3. 0 \in Nat
    OBVIOUS
  <2> HIDE DEF next
  <2> QED BY <2>1, <2>2, <2>3, LinksKeepMoney DEF BalanceInv
<1> QED BY <1>1, <1>2, BalanceStays DEF Turns, Holding, markSettledTx

LEMMA BalanceStep ==
  TypeOK /\ TypeOK' /\ DispatchInv /\ SettlementLedgerAgree /\ BalanceInv /\ [Next]_vars => BalanceInv'
<1> SUFFICES ASSUME TypeOK, TypeOK', DispatchInv, SettlementLedgerAgree, BalanceInv, [Next]_vars
             PROVE  BalanceInv'
  OBVIOUS
<1>t. PayoutsOK /\ CallersOK
  BY TypeParts DEF TypeInParts
<1>0. ASSUME UNCHANGED <<gatewayVars, payout>> PROVE BalanceInv'
  BY <1>0, BalanceTurns
<1>s. ASSUME UNCHANGED gatewayVars, NEW s \in Settlements, payout[s].status \in Holding,
             NEW status \in Holding, Turns(s, status)
      PROVE  BalanceInv'
  BY <1>s, BalanceTurns DEF Turns
<1>1. CASE Collecting
  BY <1>1, <1>t, CollectingBalance
<1>2. ASSUME NEW c \in Callers, Continuing(c) PROVE BalanceInv'
  <2>1. ASSUME NEW s \in Settlements, reserveBalance(c, s) PROVE BalanceInv'
    BY <2>1, ReserveBalance
  <2>2. CASE dispatchClaim(c)
    <3>1. caller[c].sid \in Settlements /\ UNCHANGED gatewayVars
      BY <1>t, <2>2 DEF dispatchClaim, CallersOK, Aimed
    <3>2. CASE payout[caller[c].sid].status = "REQUESTED"
      BY <1>t, <1>s, <2>2, <3>1, <3>2, StatusTurns DEF dispatchClaim, Holding, LIVE, QUEUED
    <3>3. CASE payout[caller[c].sid].status # "REQUESTED"
      BY <1>0, <2>2, <3>1, <3>3 DEF dispatchClaim
    <3> QED BY <3>2, <3>3
  <2>3. CASE initiateSettlement(c)
    BY <1>0, <2>3 DEF initiateSettlement
  <2>4. CASE storeConversation(c) \/ flagTimedOut(c)
    <3>1. UNCHANGED gatewayVars
      BY <2>4 DEF storeConversation, flagTimedOut
    <3>2. \A s \in Settlements : /\ payout'[s].tenantId = payout[s].tenantId
                                 /\ payout'[s].amountMinor = payout[s].amountMinor
                                 /\ payout'[s].status = payout[s].status
      BY <1>t, <2>4
      DEF storeConversation, flagTimedOut, PayoutsOK, PayoutRecords, CallersOK, Aimed
    <3> QED BY <3>1, <3>2, BalanceTurns
  <2>5. CASE failSettlement(c)
    <3> DEFINE s == caller[c].sid
    <3>1. s \in Settlements
      BY <1>t, <2>5 DEF failSettlement, CallersOK, Aimed
    <3>2. CASE payout[s].status \in FINAL
      BY <1>0, <2>5, <3>2 DEF failSettlement
    <3>3. CASE payout[s].status \notin FINAL
      <4>1. payout[s].status \in LIVE
        BY <2>5, <3>3 DEF failSettlement, DispatchInv, DispatchOwned, LIVE
      <4>2. restoreReservedBalance(s) /\ Turns(s, "FAILED")
        BY <1>t, <2>5, <3>1, <3>3, StatusTurns DEF failSettlement, failSettlementTx
      <4> QED BY <3>1, <4>1, <4>2, RestoreBalance
    <3> QED BY <3>2, <3>3
  <2> QED BY <1>2, <2>1, <2>2, <2>3, <2>4, <2>5 DEF Continuing
<1>3. ASSUME NEW s \in Settlements, Closing(s) PROVE BalanceInv'
  <2>1. payout[s].status \in LIVE
    BY <1>3 DEF Closing, applySettlementResult, cancelSettlement, resolveSettlement, LIVE
  <2>2. CASE markSettledTx(s)
    BY <2>1, <2>2, SettledBalance
  <2>3. CASE failSettlementTx(s)
    BY <1>t, <2>1, <2>3, StatusTurns, RestoreBalance DEF failSettlementTx
  <2>4. CASE cancelSettlement(s)
    BY <1>t, <2>1, <2>4, StatusTurns, RestoreBalance DEF cancelSettlement
  <2> QED BY <1>3, <2>2, <2>3, <2>4 DEF Closing, applySettlementResult, resolveSettlement
<1>4. ASSUME NEW c \in Callers, NEW s \in Settlements, approveSettlement(c, s)
      PROVE  BalanceInv'
  <2>1. \E status \in {"REQUESTED", "PROCESSING"} : Turns(s, status)
    BY <1>t, <1>4, StatusTurns DEF approveSettlement
  <2> QED BY <1>s, <1>4, <2>1 DEF approveSettlement, Holding, LIVE, QUEUED
<1>5. ASSUME NEW c \in Callers, Requesting(c) \/ crash(c) PROVE BalanceInv'
  BY <1>0, <1>5 DEF Requesting, retrySettlement, requestSettlement, crash
<1>6. ASSUME NEW c \in Callers, NEW s \in Settlements, readTimedOut(c, s) PROVE BalanceInv'
  BY <1>0, <1>6 DEF readTimedOut
<1>7. ASSUME NEW s \in Settlements, executeTransfer(s) \/ transferByHand(s) PROVE BalanceInv'
  BY <1>0, <1>7 DEF executeTransfer, transferByHand
<1>8. CASE UNCHANGED vars
  BY <1>0, <1>8 DEF vars, settlementVars
<1> QED BY <1>1, <1>2, <1>3, <1>4, <1>5, <1>6, <1>7, <1>8 DEF Next

LEMMA BalanceInit == Init => BalanceInv
<1> SUFFICES ASSUME Init PROVE BalanceInv
  OBVIOUS
<1>1. GatewayInv /\ Collected = {} /\ ledger = {}
  <2>1. Uncollected.status = "NONE"
    BY DEF Uncollected
  <2> QED BY <2>1, GatewayInvInit DEF Init, GatewayInit, Collected
<1>2. \A t : RefundedBy(t) = 0
  BY <1>1, SumEmpty DEF RefundedBy
<1>3. \A t, kinds : TotalBy(ledger, t, kinds) = 0
  <2>1. \A t, kinds : RowsBy({}, t, kinds) = {}
    BY DEF RowsBy
  <2> QED BY <1>1, <2>1, TotalOfNone DEF TotalBy
<1>4. ASSUME NEW t PROVE Held(t) = 0
  <2> DEFINE f == HoldOf(t)
             none == [s \in Settlements |-> 0]
  <2>1. f = none
    BY DEF Init, NotCreated, HoldOf, Holding, LIVE, QUEUED
  <2>2. SumFunctionOnSet(none, Settlements) = 0
    BY SettlementsFinite, SumZero
  <2> QED BY <2>1, <2>2 DEF Held
<1> QED BY <1>1, <1>2, <1>3, <1>4, FS_EmptySet DEF BalanceInv

THEOREM BalanceCorrect == Spec => []BalanceInv
  BY BalanceInit, BalanceStep, TypeCorrect, DispatchCorrect, LedgerCorrect, PTL DEF Spec

\* The properties follow: what was sent is held, and what is held was earned.
LEMMA BalanceSuffices == TypeOK /\ DispatchInv /\ BalanceInv => NeverOverpaid
<1> SUFFICES ASSUME TypeOK, DispatchInv, BalanceInv, NEW t \in Tenants
             PROVE  /\ PaidTo(t) <= EarnedBy(t)
                    /\ availableMinor(t) + TakenBackFrom(t) >= 0
  BY DEF NeverOverpaid
<1>1. PayoutsOK
  BY TypeParts DEF TypeInParts
<1>2. /\ Held(t) \in Nat /\ RefundedBy(t) \in Nat /\ TotalBy(ledger, t, EarnKinds) \in Int
      /\ TotalBy(ledger, t, BackKinds) = - RefundedBy(t)
      /\ TotalBy(ledger, t, PayKinds) = - Held(t)
      /\ Held(t) <= TotalBy(ledger, t, EarnKinds)
  BY <1>1, HeldIsNat, RefundedIsNat, EarnedIsInt DEF BalanceInv
<1>3. EarnedBy(t) = TotalBy(ledger, t, EarnKinds) /\ TakenBackFrom(t) = - TotalBy(ledger, t, BackKinds)
  BY DEF EarnedBy, TakenBackFrom, TotalBy, RowsBy, EarnKinds, BackKinds
<1>4. PaidTo(t) <= Held(t)
  <2> DEFINE sent == {s \in Settlements : payout[s].tenantId = t /\ provider[s] = "moved"}
             f == [s \in Settlements |-> payout[s].amountMinor]
             h == HoldOf(t)
  <2>1. sent \in SUBSET Settlements /\ IsFiniteSet(sent)
    BY SettlementsFinite, FS_Subset
  <2>2. \A s \in sent : f[s] \in Int /\ f[s] = h[s]
    BY <1>1 DEF PayoutsOK, PayoutRecords, HoldOf, Holding, LIVE, DispatchInv, MoneyMovedIsReserved
  <2>3. \A s \in Settlements : h[s] \in Nat
    BY <1>1, HeldIsNat
  <2>4. PaidTo(t) = SumFunctionOnSet(f, sent) /\ Held(t) = SumFunctionOnSet(h, Settlements)
    BY DEF PaidTo, Held
  <2> HIDE DEF sent, f, h
  <2>5. SumFunctionOnSet(f, sent) = SumFunctionOnSet(h, sent)
    BY <2>1, <2>2, SumSame
  <2>6. SumFunctionOnSet(h, sent) <= SumFunctionOnSet(h, Settlements)
    BY <2>1, <2>3, SettlementsFinite, SumOfPart
  <2> QED BY <2>4, <2>5, <2>6
<1>5. PaidTo(t) \in Int
  <2> DEFINE sent == {s \in Settlements : payout[s].tenantId = t /\ provider[s] = "moved"}
             f == [s \in Settlements |-> payout[s].amountMinor]
  <2>1. IsFiniteSet(sent)
    BY SettlementsFinite, FS_Subset
  <2>2. \A s \in sent : f[s] \in Int
    BY <1>1 DEF PayoutsOK, PayoutRecords
  <2> HIDE DEF sent, f
  <2>3. SumFunctionOnSet(f, sent) \in Int
    BY <2>1, <2>2, SumType
  <2> QED BY <2>3 DEF PaidTo, sent, f
<1>6. availableMinor(t) = TotalBy(ledger, t, EarnKinds) + TotalBy(ledger, t, BackKinds)
                            + TotalBy(ledger, t, PayKinds)
  BY AvailableSplits DEF BalanceInv
<1> QED BY <1>2, <1>3, <1>4, <1>5, <1>6

\* However settlements, provider results, cancellations, refunds and collections interleave,
\* a tenant is never sent more than was collected for them net of fees, and a balance is
\* negative only by what was refunded after it had been settled.
THEOREM NoOverpayment == Spec => []NeverOverpaid
  BY BalanceSuffices, TypeCorrect, DispatchCorrect, BalanceCorrect, PTL

-------------------------------------------------------------------------------
(* The refinement of PayoutPromise.                                            *)

ClaimOf(s) == [state |-> ClaimState(s), tenant |-> payout[s].tenantId, amount |-> payout[s].amountMinor]

ClaimRows == [s \in Settlements |-> ClaimOf(s)]
Balances == [t \in Tenants |-> availableMinor(t)]

\* A step that the promise does not see.
Unseen == ClaimRows' = ClaimRows /\ Balances' = Balances

PromiseStep == Promise!Next \/ Unseen

\* A row moves the balance of its tenant by its signed amount.
LEMMA BalanceRow ==
  ASSUME GatewayInv, NEW e, ~HasEntry(ledger, e.source), e.amountMinor \in Nat,
         ledger' = ledger \cup {e}, NEW t
  PROVE  availableMinor(t)' = availableMinor(t) + (IF e.tenantId = t THEN Signed(e) ELSE 0)
<1> DEFINE rows == {r \in ledger : r.tenantId = t}
<1>1. RowsAdd(rows) /\ e \notin rows
  BY GatewayInvTypes, PartAdds DEF HasEntry
<1>2. availableMinor(t) = TotalOf(rows)
  BY DEF availableMinor
<1>3. CASE e.tenantId = t
  <2>1. {r \in ledger' : r.tenantId = t} = rows \cup {e}
    BY <1>3
  <2>2. TotalOf(rows \cup {e}) = TotalOf(rows) + Signed(e)
    BY <1>1, TotalAppend
  <2> HIDE DEF rows
  <2>3. availableMinor(t)' = TotalOf(rows \cup {e})
    BY <2>1, Zenon DEF availableMinor
  <2> QED BY <1>2, <1>3, <2>2, <2>3
<1>4. CASE e.tenantId # t
  <2>1. {r \in ledger' : r.tenantId = t} = rows
    BY <1>4
  <2>2. TotalOf(rows) \in Int
    BY <1>1, TotalIsInt
  <2> HIDE DEF rows
  <2>3. availableMinor(t)' = TotalOf(rows)
    BY <2>1, Zenon DEF availableMinor
  <2> QED BY <1>2, <1>4, <2>2, <2>3
<1> QED BY <1>3, <1>4

\* Nothing of the ledger moved, and no claim changed its state, tenant or amount.
LEMMA LedgerUnseen ==
  ASSUME UNCHANGED ledger, \A s \in Settlements : ClaimOf(s)' = ClaimOf(s)
  PROVE  Unseen
<1>1. \A t : availableMinor(t)' = availableMinor(t)
  BY DEF availableMinor
<1> QED BY <1>1 DEF Unseen, ClaimRows, Balances

\* What one row means to the balances as a whole.
LEMMA BalancesMove ==
  ASSUME GatewayInv, NEW e, ~HasEntry(ledger, e.source), e.amountMinor \in Nat,
         ledger' = ledger \cup {e}, e.tenantId \in Tenants
  PROVE  Promise!OwedMoves(e.tenantId, Signed(e))
<1> DEFINE u == e.tenantId
<1>1. \A t \in Tenants : availableMinor(t)' = availableMinor(t) + (IF u = t THEN Signed(e) ELSE 0)
  BY BalanceRow
<1>2. \A t \in Tenants : availableMinor(t) \in Int
  <2>1. \A t : RowsAdd({r \in ledger : r.tenantId = t})
    BY GatewayInvTypes, PartAdds
  <2> QED BY <2>1, TotalIsInt DEF availableMinor
<1> HIDE DEF u
<1>3. \A t \in Tenants : t # u => availableMinor(t)' = availableMinor(t)
  BY <1>1, <1>2
<1>4. availableMinor(u)' = availableMinor(u) + Signed(e)
  BY <1>1 DEF u
<1>5. Balances' = [Balances EXCEPT ![u] = Balances[u] + Signed(e)]
  BY <1>3, <1>4 DEF Balances, u
<1> QED BY <1>5 DEF Promise!OwedMoves, Balances, u

\* Refunds and collections are the account of one tenant.
LEMMA CollectingPromise ==
  ASSUME BalanceInv, PayoutsOK, Collecting
  PROVE  PromiseStep
<1>1. PICK x \in Txns : RefundStep(x) \/ UnlockedStep(x)
  BY DEF Collecting
<1>2. GatewayInv /\ GatewayInv' /\ (RefundMoves(x) \/ NothingMoves \/ \E t \in Tenants : CollectionMoves(x, t))
  BY <1>1, GatewayMoves DEF BalanceInv
<1>3. \A s \in Settlements : ClaimOf(s)' = ClaimOf(s)
  BY DEF Collecting, settlementVars, ClaimOf, ClaimState, Exists
<1>4. CASE NothingMoves
  BY <1>3, <1>4, LedgerUnseen DEF NothingMoves, PromiseStep
<1>5. ASSUME NEW t \in Tenants,
             \A u \in Tenants \ {t} : \A kinds \in {EarnKinds, BackKinds, PayKinds} :
                TotalBy(ledger', u, kinds) = TotalBy(ledger, u, kinds)
      PROVE  PromiseStep
  <2>1. \A u \in Tenants \ {t} : availableMinor(u)' = availableMinor(u)
    BY <1>2, <1>5, AvailableSplits, AvailableSplitsNext
  <2>2. \A u \in Tenants \ {t} : Balances'[u] = Balances[u]
    BY <2>1 DEF Balances
  <2>3. ClaimRows' = ClaimRows
    BY <1>3 DEF ClaimRows
  <2>4. Promise!Account(t)
    BY <2>2, <2>3 DEF Promise!Account, Balances, ClaimRows, ClaimOf
  <2> QED BY <2>4 DEF PromiseStep, Promise!Next
<1>6. CASE RefundMoves(x)
  <2>1. gw[x].tenantId \in Tenants
    BY <1>2 DEF GatewayInv, TablesOK, TxnRecords
  <2>2. \A u \in Tenants \ {gw[x].tenantId} : \A kinds \in {EarnKinds, BackKinds, PayKinds} :
          TotalBy(ledger', u, kinds) = TotalBy(ledger, u, kinds)
    <3>1. \A u : TotalBy(ledger, u, BackKinds) \in Int
      BY <1>2, EarnedIsInt
    <3> QED BY <1>6, <3>1 DEF RefundMoves
  <2> QED BY <1>5, <2>1, <2>2
<1>7. ASSUME NEW t \in Tenants, CollectionMoves(x, t) PROVE PromiseStep
  BY <1>5, <1>7 DEF CollectionMoves
<1> QED BY <1>2, <1>4, <1>6, <1>7

\* A settlement is reserved, paid or returned; nobody else's claim moves.
LEMMA OnlyClaim ==
  ASSUME NEW s \in Settlements, \A r \in Settlements \ {s} : ClaimOf(r)' = ClaimOf(r)
  PROVE  Promise!OthersKept(s)
  BY DEF Promise!OthersKept, ClaimOf

LEMMA ReservePromise ==
  ASSUME BalanceInv, TypeOK, DispatchInv, SettlementLedgerAgree,
         NEW c \in Callers, NEW s \in Settlements, reserveBalance(c, s)
  PROVE  PromiseStep
<1> DEFINE u == caller[c].tenantId
           amount == settleableMinor(u)
           e == Entry(SettlementSource(s), u, "DEBIT", "SETTLEMENT", amount)
<1>1. PayoutsOK /\ CallersOK
  BY TypeParts DEF TypeInParts
<1>2. u \in Tenants /\ amount \in Amounts /\ amount \in Nat /\ payout[s].status = "NONE"
      /\ UNCHANGED provider
  BY <1>1, MaxMinorAssumption DEF reserveBalance, CallersOK, CallerRecords, Exists, Amounts
<1>3. PICK automatic \in BOOLEAN, manualMode \in BOOLEAN :
        payout' = [payout EXCEPT ![s] = NewPayout(c, automatic, manualMode)]
  BY ReserveWrites
<1>4. /\ \A r \in Settlements \ {s} : payout'[r] = payout[r]
      /\ payout'[s].status \in QUEUED
      /\ payout'[s].tenantId = u /\ payout'[s].amountMinor = amount
  BY <1>1, <1>2, <1>3, NewPayoutRecord DEF PayoutsOK
<1>5. /\ e.source = SettlementSource(s) /\ e.tenantId = u /\ e.amountMinor = amount
      /\ Signed(e) = - amount
  BY DEF Entry, Signed
<1>6. ledger' = ledger \cup {e} /\ ~HasEntry(ledger, e.source)
  <2>1. ledger' = appendLedgerEntry(ledger, e)
    BY DEF reserveBalance
  <2>2. ~HasEntry(ledger, SettlementSource(s))
    BY <1>2 DEF SettlementLedgerAgree, HasEntry, Exists
  <2> QED BY <1>5, <2>1, <2>2 DEF appendLedgerEntry
<1>7. provider[s] = "none"
  BY <1>2 DEF DispatchInv, NothingSentEarly
<1>8. ClaimOf(s).state = "absent"
  BY <1>2, <1>7 DEF ClaimOf, ClaimState, Exists
<1>9. ClaimOf(s)' = [state |-> "reserved", tenant |-> u, amount |-> amount]
  BY <1>2, <1>4, <1>7 DEF ClaimOf, ClaimState, Exists, QUEUED
<1>10. \A r \in Settlements \ {s} : ClaimOf(r)' = ClaimOf(r)
  BY <1>2, <1>4 DEF ClaimOf, ClaimState, Exists
<1>11. amount \in 1..availableMinor(u)
  <2>1. availableMinor(u) \in Int
    <3>1. RowsAdd({r \in ledger : r.tenantId = u})
      BY GatewayInvTypes, PartAdds DEF BalanceInv
    <3> QED BY <3>1, TotalIsInt DEF availableMinor
  <2> QED BY <1>2, <2>1 DEF settleableMinor, Amounts
<1> HIDE DEF e, amount, u
<1>12. Promise!OwedMoves(u, - amount)
  <2>1. GatewayInv /\ e.amountMinor \in Nat /\ e.tenantId \in Tenants
    BY <1>2, <1>5 DEF BalanceInv
  <2>2. Promise!OwedMoves(e.tenantId, Signed(e))
    BY <1>6, <2>1, BalancesMove
  <2> QED BY <1>5, <2>2
<1>13. Promise!Reserve(s)
  <2>1. Promise!OthersKept(s)
    BY <1>10, OnlyClaim
  <2>2. ClaimRows[s].state = "absent" /\ ClaimRows'[s] = [state |-> "reserved", tenant |-> u, amount |-> amount]
    BY <1>8, <1>9 DEF ClaimRows
  <2>3. ClaimRows'[s].amount \in 1..Balances[ClaimRows'[s].tenant]
    BY <1>2, <1>11, <2>2 DEF Balances
  <2>4. Promise!OwedMoves(ClaimRows'[s].tenant, - ClaimRows'[s].amount)
    BY <1>12, <2>2
  <2> QED BY <2>1, <2>2, <2>3, <2>4 DEF Promise!Reserve, ClaimRows, ClaimOf, Balances
<1> QED BY <1>13 DEF PromiseStep, Promise!Next

LEMMA ReturnPromise ==
  ASSUME BalanceInv, TypeOK, SettlementLedgerAgree,
         NEW s \in Settlements, payout[s].status \in LIVE, provider[s] # "moved",
         NEW status \in {"FAILED", "CANCELLED"}, Turns(s, status), restoreReservedBalance(s),
         UNCHANGED provider
  PROVE  PromiseStep
<1> DEFINE u == payout[s].tenantId
           amount == payout[s].amountMinor
           e == ReversalOf(s)
<1>1. PayoutsOK
  BY TypeParts DEF TypeInParts
<1>2. Agrees(s) /\ Exists(s) /\ payout[s].status \notin {"FAILED", "CANCELLED"}
  BY AgreeParts DEF LIVE, QUEUED, Exists
<1>3. HasEntry(ledger, SettlementSource(s)) /\ ~HasEntry(ledger, ReversalSource(s))
  BY <1>2 DEF Agrees, HasEntry
<1>4. /\ e.source = ReversalSource(s) /\ e.tenantId = u /\ e.amountMinor = amount /\ Signed(e) = amount
  BY DEF ReversalOf, Entry, Signed
<1>5. ledger' = ledger \cup {e} /\ ~HasEntry(ledger, e.source)
  <2>1. ledger' = appendLedgerEntry(ledger, e)
    BY <1>3 DEF restoreReservedBalance, ReversalOf
  <2> QED BY <1>3, <1>4, <2>1 DEF appendLedgerEntry
<1>6. u \in Tenants /\ amount \in Nat
  BY <1>1 DEF PayoutsOK, PayoutRecords
<1>7. ClaimOf(s) = [state |-> "reserved", tenant |-> u, amount |-> amount]
  BY <1>2 DEF ClaimOf, ClaimState
<1>8. ClaimOf(s)' = [state |-> "returned", tenant |-> u, amount |-> amount]
  BY DEF ClaimOf, ClaimState, Turns
<1>9. \A r \in Settlements \ {s} : ClaimOf(r)' = ClaimOf(r)
  BY DEF ClaimOf, ClaimState, Exists, Turns
<1> HIDE DEF e, amount, u
<1>10. Promise!OwedMoves(u, amount)
  <2>1. GatewayInv /\ e.amountMinor \in Nat /\ e.tenantId \in Tenants
    BY <1>4, <1>6 DEF BalanceInv
  <2>2. Promise!OwedMoves(e.tenantId, Signed(e))
    BY <1>5, <2>1, BalancesMove
  <2> QED BY <1>4, <2>2
<1>11. Promise!Return(s)
  <2>1. Promise!OthersKept(s)
    BY <1>9, OnlyClaim
  <2>2. /\ ClaimRows[s] = [state |-> "reserved", tenant |-> u, amount |-> amount]
        /\ ClaimRows'[s] = [ClaimRows[s] EXCEPT !.state = "returned"]
    BY <1>7, <1>8 DEF ClaimRows
  <2>3. Promise!OwedMoves(ClaimRows[s].tenant, ClaimRows[s].amount) /\ ClaimRows[s].state = "reserved"
    BY <1>10, <2>2
  <2> QED BY <2>1, <2>2, <2>3 DEF Promise!Return, ClaimRows, ClaimOf
<1> QED BY <1>11 DEF PromiseStep, Promise!Next

\* The provider moves the money of a settlement that holds it.
LEMMA PayPromise ==
  ASSUME NEW s \in Settlements, payout[s].status = "PROCESSING", provider[s] # "moved",
         provider' = [provider EXCEPT ![s] = "moved"], TypeOK, UNCHANGED <<ledger, payout>>
  PROVE  PromiseStep
<1>1. \A r \in Settlements : provider'[r] = IF r = s THEN "moved" ELSE provider[r]
  BY DEF TypeOK
<1>2. ClaimOf(s) = [state |-> "reserved", tenant |-> payout[s].tenantId, amount |-> payout[s].amountMinor]
  BY DEF ClaimOf, ClaimState, Exists
<1>3. ClaimOf(s)' = [state |-> "paid", tenant |-> payout[s].tenantId, amount |-> payout[s].amountMinor]
  BY <1>1 DEF ClaimOf, ClaimState
<1>4. \A r \in Settlements \ {s} : ClaimOf(r)' = ClaimOf(r)
  BY <1>1 DEF ClaimOf, ClaimState, Exists
<1>5. Balances' = Balances
  BY DEF Balances, availableMinor
<1>6. Promise!Pay(s)
  <2>1. Promise!OthersKept(s)
    BY <1>4, OnlyClaim
  <2>2. ClaimRows'[s] = [ClaimRows[s] EXCEPT !.state = "paid"] /\ ClaimRows[s].state = "reserved"
    BY <1>2, <1>3 DEF ClaimRows
  <2> QED BY <1>5, <2>1, <2>2 DEF Promise!Pay, ClaimRows, ClaimOf, Balances
<1> QED BY <1>6 DEF PromiseStep, Promise!Next

\* A step that moves no money and neither begins nor ends a settlement.
LEMMA QuietStep ==
  ASSUME UNCHANGED ledger,
         \A s \in Settlements :
            /\ payout'[s].tenantId = payout[s].tenantId
            /\ payout'[s].amountMinor = payout[s].amountMinor
            /\ (payout'[s].status = "NONE") <=> (payout[s].status = "NONE")
            /\ (payout'[s].status \in {"FAILED", "CANCELLED"}) <=> (payout[s].status \in {"FAILED", "CANCELLED"})
            /\ (provider'[s] = "moved") <=> (provider[s] = "moved")
  PROVE  PromiseStep
<1>1. \A s \in Settlements : ClaimOf(s)' = ClaimOf(s)
  BY DEF ClaimOf, ClaimState, Exists
<1> QED BY <1>1, LedgerUnseen DEF PromiseStep

LEMMA QuietTurn ==
  ASSUME UNCHANGED <<ledger, provider>>, NEW s \in Settlements, payout[s].status \in Holding,
         NEW status \in Holding, Turns(s, status)
  PROVE  PromiseStep
  BY QuietStep DEF Turns, Holding, LIVE, QUEUED

LEMMA SettlementKeepsPromise ==
  TypeOK /\ DispatchInv /\ SettlementLedgerAgree /\ BalanceInv /\ [Next]_vars => PromiseStep
<1> SUFFICES ASSUME TypeOK, DispatchInv, SettlementLedgerAgree, BalanceInv, [Next]_vars
             PROVE  PromiseStep
  OBVIOUS
<1>t. PayoutsOK /\ CallersOK
  BY TypeParts DEF TypeInParts
<1>0. ASSUME UNCHANGED <<ledger, payout, provider>> PROVE PromiseStep
  BY <1>0, QuietStep
<1>1. CASE Collecting
  BY <1>1, <1>t, CollectingPromise
<1>2. ASSUME NEW c \in Callers, Continuing(c) PROVE PromiseStep
  <2>1. ASSUME NEW s \in Settlements, reserveBalance(c, s) PROVE PromiseStep
    BY <2>1, ReservePromise
  <2>2. CASE dispatchClaim(c)
    <3>1. caller[c].sid \in Settlements /\ UNCHANGED <<ledger, provider>>
      BY <1>t, <2>2 DEF dispatchClaim, CallersOK, Aimed, gatewayVars
    <3>2. CASE payout[caller[c].sid].status = "REQUESTED"
      <4>1. Turns(caller[c].sid, "PROCESSING")
        BY <1>t, <2>2, <3>1, <3>2, StatusTurns DEF dispatchClaim
      <4> QED BY <3>1, <3>2, <4>1, QuietTurn DEF Holding, LIVE, QUEUED
    <3>3. CASE payout[caller[c].sid].status # "REQUESTED"
      BY <1>0, <2>2, <3>1, <3>3 DEF dispatchClaim
    <3> QED BY <3>2, <3>3
  <2>3. CASE initiateSettlement(c)
    <3>1. caller[c].sid \in Settlements /\ provider[caller[c].sid] = "none"
          /\ UNCHANGED <<ledger, payout>>
      BY <1>t, <2>3 DEF initiateSettlement, CallersOK, Aimed, gatewayVars, DispatchInv, DispatchOwned
    <3>2. \E fate \in {"accepted", "dead"} : provider' = [provider EXCEPT ![caller[c].sid] = fate]
      BY <2>3 DEF initiateSettlement
    <3>3. \A s \in Settlements : (provider'[s] = "moved") <=> (provider[s] = "moved")
      BY <3>1, <3>2 DEF TypeOK
    <3> QED BY <3>1, <3>3, QuietStep
  <2>4. CASE storeConversation(c) \/ flagTimedOut(c)
    <3>1. UNCHANGED <<ledger, provider>>
      BY <2>4 DEF storeConversation, flagTimedOut, gatewayVars
    <3>2. \A s \in Settlements : /\ payout'[s].tenantId = payout[s].tenantId
                                 /\ payout'[s].amountMinor = payout[s].amountMinor
                                 /\ payout'[s].status = payout[s].status
      BY <1>t, <2>4
      DEF storeConversation, flagTimedOut, PayoutsOK, PayoutRecords, CallersOK, Aimed
    <3> QED BY <3>1, <3>2, QuietStep
  <2>5. CASE failSettlement(c)
    <3> DEFINE s == caller[c].sid
    <3>1. s \in Settlements /\ UNCHANGED provider /\ provider[s] = "dead"
      BY <1>t, <2>5 DEF failSettlement, CallersOK, Aimed, DispatchInv, DispatchOwned
    <3>2. CASE payout[s].status \in FINAL
      BY <1>0, <2>5, <3>2 DEF failSettlement, gatewayVars
    <3>3. CASE payout[s].status \notin FINAL
      <4>1. payout[s].status \in LIVE
        BY <2>5, <3>3 DEF failSettlement, DispatchInv, DispatchOwned, LIVE
      <4>2. restoreReservedBalance(s) /\ Turns(s, "FAILED")
        BY <1>t, <2>5, <3>1, <3>3, StatusTurns DEF failSettlement, failSettlementTx
      <4> QED BY <3>1, <4>1, <4>2, ReturnPromise
    <3> QED BY <3>2, <3>3
  <2> QED BY <1>2, <2>1, <2>2, <2>3, <2>4, <2>5 DEF Continuing
<1>3. ASSUME NEW s \in Settlements, Closing(s) PROVE PromiseStep
  <2>1. payout[s].status \in LIVE /\ UNCHANGED provider
    BY <1>3 DEF Closing, applySettlementResult, cancelSettlement, resolveSettlement, LIVE
  <2>2. CASE markSettledTx(s)
    <3>1. Turns(s, "SETTLED") /\ UNCHANGED ledger
      BY <1>t, <2>2, StatusTurns DEF markSettledTx
    <3> QED BY <2>1, <3>1, QuietTurn DEF Holding
  <2>3. ASSUME failSettlementTx(s), provider[s] # "moved" PROVE PromiseStep
    BY <1>t, <2>1, <2>3, StatusTurns, ReturnPromise DEF failSettlementTx
  <2>4. CASE cancelSettlement(s)
    <3>1. provider[s] = "none"
      BY <2>4 DEF cancelSettlement, DispatchInv, NothingSentEarly
    <3> QED BY <1>t, <2>1, <2>4, <3>1, StatusTurns, ReturnPromise DEF cancelSettlement
  <2>5. CASE applySettlementResult(s)
    BY <2>2, <2>3, <2>5 DEF applySettlementResult
  <2>6. CASE resolveSettlement(s)
    BY <2>2, <2>3, <2>6 DEF resolveSettlement
  <2> QED BY <1>3, <2>4, <2>5, <2>6 DEF Closing
<1>4. ASSUME NEW c \in Callers, NEW s \in Settlements, approveSettlement(c, s)
      PROVE  PromiseStep
  <2>1. \E status \in {"REQUESTED", "PROCESSING"} : Turns(s, status)
    BY <1>t, <1>4, StatusTurns DEF approveSettlement
  <2>2. UNCHANGED <<ledger, provider>> /\ payout[s].status \in Holding
    BY <1>4 DEF approveSettlement, gatewayVars, Holding, LIVE, QUEUED
  <2> QED BY <2>1, <2>2, QuietTurn DEF Holding, LIVE, QUEUED
<1>5. ASSUME NEW c \in Callers, Requesting(c) \/ crash(c) PROVE PromiseStep
  BY <1>0, <1>5 DEF Requesting, retrySettlement, requestSettlement, crash, gatewayVars
<1>6. ASSUME NEW c \in Callers, NEW s \in Settlements, readTimedOut(c, s) PROVE PromiseStep
  BY <1>0, <1>6 DEF readTimedOut, gatewayVars
<1>7. ASSUME NEW s \in Settlements, executeTransfer(s) PROVE PromiseStep
  <2>1. payout[s].status = "PROCESSING" /\ provider[s] # "moved" /\ UNCHANGED <<ledger, payout>>
    BY <1>7 DEF executeTransfer, DispatchInv, MoneyMovedIsReserved, gatewayVars
  <2>2. CASE provider' = [provider EXCEPT ![s] = "moved"]
    BY <2>1, <2>2, PayPromise
  <2>3. CASE provider' = [provider EXCEPT ![s] = "dead"]
    <3>1. \A r \in Settlements : (provider'[r] = "moved") <=> (provider[r] = "moved")
      BY <2>1, <2>3 DEF TypeOK
    <3> QED BY <2>1, <3>1, QuietStep
  <2> QED BY <1>7, <2>2, <2>3 DEF executeTransfer
<1>8. ASSUME NEW s \in Settlements, transferByHand(s) PROVE PromiseStep
  BY <1>8, PayPromise DEF transferByHand, gatewayVars
<1>9. CASE UNCHANGED vars
  BY <1>0, <1>9 DEF vars, gatewayVars, settlementVars
<1> QED BY <1>1, <1>2, <1>3, <1>4, <1>5, <1>6, <1>7, <1>8, <1>9 DEF Next

LEMMA PromiseInit == Init => Promise!Init
<1> SUFFICES ASSUME Init PROVE Promise!Init
  OBVIOUS
<1>1. \A t : availableMinor(t) = 0
  <2>1. \A t : {e \in {} : e.tenantId = t} = {}
    OBVIOUS
  <2>2. ledger = {}
    BY DEF Init, GatewayInit
  <2> QED BY <2>1, <2>2, TotalOfNone DEF availableMinor
<1>2. \A s \in Settlements : ClaimState(s) = "absent"
  BY DEF Init, NotCreated, ClaimState, Exists
<1> QED BY <1>1, <1>2 DEF Promise!Init

\* Settlements implement PayoutPromise: each is a claim reserved out of the tenant's balance,
\* then paid once or given back once, in full, whatever requests, providers, callbacks and
\* administrators do in between.
THEOREM SettlementImplements == Spec => KeepsPromise
<1>1. TypeOK /\ DispatchInv /\ SettlementLedgerAgree /\ BalanceInv /\ [Next]_vars
        => [Promise!Next]_(Promise!promiseVars)
  BY SettlementKeepsPromise
  DEF PromiseStep, Unseen, Promise!promiseVars, ClaimRows, ClaimOf, Balances
<1> QED BY <1>1, PromiseInit, TypeCorrect, DispatchCorrect, LedgerCorrect, BalanceCorrect, PTL
        DEF Spec, KeepsPromise, Promise!Spec
===============================================================================
