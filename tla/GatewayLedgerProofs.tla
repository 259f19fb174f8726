-------------------------- MODULE GatewayLedgerProofs --------------------------
(***************************************************************************)
(* Proofs about the platform's fees and the gateway ledger, for every fee  *)
(* rule, every amount and any number of tenants, payments and refunds.     *)
(***************************************************************************)
EXTENDS GatewayLedger, SumTheorems

-------------------------------------------------------------------------------
(* Fees. *)

\* The two parts of a fee rule are natural numbers.
LEMMA RuleParts ==
  ASSUME NEW rule \in FeeRules
  PROVE  rule.percentBps \in Nat /\ rule.fixedMinor \in Nat
<1> DEFINE Points == 0..10000
<1>1. Points \subseteq Nat
  OBVIOUS
<1>2. rule \in [percentBps : Points, fixedMinor : Nat]
  BY DEF FeeRules
<1> HIDE DEF Points
<1>3. rule.percentBps \in Points /\ rule.fixedMinor \in Nat
  BY <1>2
<1> QED BY <1>1, <1>3

\* calculateFee takes nothing below zero and no more than the payment: the net amount
\* that a tenant is credited is never negative.
THEOREM FeeWithinGross ==
  ASSUME NEW gross \in Nat, NEW rule \in FeeRules
  PROVE  /\ FeeOf(gross, rule) \in 0..gross
         /\ calculateFee(gross, rule).netMinor \in 0..gross
<1>1. rule.percentBps \in Nat /\ rule.fixedMinor \in Nat
  BY RuleParts
<1> DEFINE percentPart == (gross * rule.percentBps + 5000) \div 10000
<1>2. gross * rule.percentBps \in Nat
  BY <1>1
<1>3. percentPart \in Nat
  BY <1>2
<1> HIDE DEF percentPart
<1>4. FeeOf(gross, rule) = Smaller(gross, percentPart + rule.fixedMinor)
  BY DEF FeeOf, percentPart
<1>5. FeeOf(gross, rule) \in 0..gross
  BY <1>1, <1>3, <1>4 DEF Smaller
<1> QED BY <1>5 DEF calculateFee

\* feeShareForRefund returns no more than what is left of the fee, and nothing negative;
\* the refund that completes the transaction returns all of it.
THEOREM ShareWithinFee ==
  ASSUME NEW gross \in Nat \ {0}, NEW fee \in Nat, NEW refunded \in Nat,
         NEW returned \in 0..fee, NEW amount \in Nat
  PROVE  /\ feeShareForRefund(gross, fee, refunded, returned, amount) \in 0..(fee - returned)
         /\ refunded + amount >= gross =>
              feeShareForRefund(gross, fee, refunded, returned, amount) = fee - returned
<1> DEFINE part == (fee * amount) \div gross
<1>1. fee * amount \in Nat
  OBVIOUS
<1>2. part \in Nat
  BY <1>1
<1> HIDE DEF part
<1>3. feeShareForRefund(gross, fee, refunded, returned, amount) =
        IF refunded + amount >= gross THEN fee - returned ELSE Smaller(fee - returned, part)
  BY DEF feeShareForRefund, part
<1> QED BY <1>2, <1>3 DEF Smaller

-------------------------------------------------------------------------------
(* The money columns. *)

\* The columns a refund adds to, as far as MoneyRowsOnlyGrow needs them.
ColumnsOK ==
    /\ gw \in [Txns -> TxnRecords]
    /\ \A x \in Txns :
         /\ gw[x].refundedMinor <= gw[x].grossMinor
         /\ gw[x].status = "NONE" => gw[x].refundedMinor = 0

LEMMA AppendedOnly ==
  ASSUME NEW L, NEW e
  PROVE  L \subseteq appendLedgerEntry(L, e)
  BY DEF appendLedgerEntry

\* What every refund or reversal does to the transaction and the ledger.
LEMMA RefundRows ==
  ASSUME ColumnsOK, NEW x \in Txns, NEW kind \in {"REFUND", "REVERSAL"}, NEW amount,
         NEW completed, recordRefundRows(x, kind, amount, completed)
  PROVE  /\ ColumnsOK'
         /\ ledger \subseteq ledger'
         /\ \A y \in Txns :
              /\ gw'[y].refundedMinor >= gw[y].refundedMinor
              /\ gw[y].status \in {"REVERSED", "REFUNDED"} => gw'[y].status = gw[y].status
<1> DEFINE total == refundedAfter(x, amount)
           status == IF total < gw[x].grossMinor THEN "PARTIALLY_REFUNDED"
                     ELSE IF kind = "REVERSAL" THEN "REVERSED" ELSE "REFUNDED"
<1>1. gw[x] \in TxnRecords /\ gw[x].refundedMinor <= gw[x].grossMinor
  BY DEF ColumnsOK
<1>2. amount \in Int /\ 1 <= amount /\ amount <= gw[x].grossMinor - gw[x].refundedMinor
  BY <1>1 DEF recordRefundRows, remainingMinor, TxnRecords
<1>3. total \in Nat /\ gw[x].refundedMinor <= total /\ total <= gw[x].grossMinor
  BY <1>1, <1>2 DEF refundedAfter, TxnRecords
<1>4. gw' = [gw EXCEPT ![x].refundedMinor = total, ![x].status = status]
  BY DEF recordRefundRows
<1>5. gw[x].status \notin {"REVERSED", "REFUNDED"}
  BY DEF recordRefundRows, Open
<1>6. ledger \subseteq ledger'
  <2> DEFINE debit == Entry(RefundSource(x, Len(refunds[x]) + 1), gw[x].tenantId, "DEBIT",
                            IF kind = "REVERSAL" THEN "PAYMENT_REVERSAL" ELSE "REFUND", amount)
             debited == appendLedgerEntry(ledger, debit)
  <2>1. \E e : ledger' = appendLedgerEntry(debited, e) \/ ledger' = debited
    BY DEF recordRefundRows
  <2>2. ledger \subseteq debited
    BY AppendedOnly
  <2> HIDE DEF debited
  <2> QED BY <2>1, <2>2, AppendedOnly
<1>7. status \in {"PARTIALLY_REFUNDED", "REVERSED", "REFUNDED"}
  OBVIOUS
<1> HIDE DEF total, status
<1>8. gw'[x] = [gw[x] EXCEPT !.refundedMinor = total, !.status = status]
  BY <1>4 DEF ColumnsOK
<1>9. /\ gw'[x] \in TxnRecords /\ gw'[x].refundedMinor = total /\ gw'[x].status # "NONE"
      /\ gw'[x].grossMinor = gw[x].grossMinor
  BY <1>1, <1>3, <1>7, <1>8 DEF TxnRecords
<1>10. /\ gw' \in [Txns -> TxnRecords]
       /\ \A y \in Txns \ {x} : gw'[y] = gw[y]
  BY <1>4, <1>9 DEF ColumnsOK
<1>11. \A y \in Txns : gw[y].refundedMinor \in Nat
  BY DEF ColumnsOK, TxnRecords
<1> QED BY <1>3, <1>5, <1>6, <1>9, <1>10, <1>11 DEF ColumnsOK

\* The row a collection starts from.
LEMMA UncollectedRow ==
  Uncollected \in TxnRecords /\ Uncollected.refundedMinor = 0 /\ Uncollected.grossMinor = 0
<1>1. Uncollected = [status |-> "NONE", tenantId |-> CHOOSE t \in Tenants : TRUE,
                     grossMinor |-> 0, feeMinor |-> 0, refundedMinor |-> 0,
                     settlementStatus |-> "UNSETTLED", settlementId |-> NoSettlement]
  BY DEF Uncollected
<1>2. (CHOOSE t \in Tenants : TRUE) \in Tenants
  BY TenantsAssumption
<1> QED BY <1>1, <1>2 DEF TxnRecords, NoSettlement

\* A collection fills an empty row and appends to the ledger.
LEMMA CollectionRows ==
  ASSUME ColumnsOK, NEW x \in Txns, NEW t \in Tenants, NEW gross \in Grosses,
         recordPlatformCollection(x, t, gross)
  PROVE  /\ ColumnsOK'
         /\ ledger \subseteq ledger'
         /\ \A y \in Txns :
              /\ gw'[y].refundedMinor >= gw[y].refundedMinor
              /\ gw[y].status \in {"REVERSED", "REFUNDED"} => gw'[y].status = gw[y].status
<1> DEFINE fee == FeeOf(gross, FeeRule)
           new == [Uncollected EXCEPT !.status = "COMPLETED", !.tenantId = t,
                                      !.grossMinor = gross, !.feeMinor = fee]
<1>1. gross \in Nat /\ fee \in Nat
  BY GrossesAssumption, FeeRuleAssumption, MaxMinorAssumption, FeeWithinGross
<1>2. gw' = [gw EXCEPT ![x] = new] /\ gw[x].status = "NONE"
  BY DEF recordPlatformCollection
<1>3. ledger \subseteq ledger'
  <2> DEFINE credit == Entry(CollectionSource(x), t, "CREDIT", "CUSTOMER_PAYMENT", gross)
             credited == appendLedgerEntry(ledger, credit)
  <2>1. \E e : ledger' = appendLedgerEntry(credited, e) \/ ledger' = credited
    BY DEF recordPlatformCollection
  <2>2. ledger \subseteq credited
    BY AppendedOnly
  <2> HIDE DEF credited
  <2> QED BY <2>1, <2>2, AppendedOnly
<1> HIDE DEF fee
<1>4. new \in TxnRecords /\ new.refundedMinor = 0 /\ new.grossMinor = gross
  BY <1>1, UncollectedRow DEF TxnRecords
<1> HIDE DEF new
<1>5. new.refundedMinor <= new.grossMinor /\ new \in TxnRecords /\ new.refundedMinor = 0
      /\ (new.status = "NONE" => new.refundedMinor = 0)
  BY <1>1, <1>4
<1>6. /\ gw' \in [Txns -> TxnRecords] /\ gw'[x] = new
      /\ \A y \in Txns \ {x} : gw'[y] = gw[y]
  BY <1>2, <1>5 DEF ColumnsOK
<1>7. \A y \in Txns : gw[y].refundedMinor \in Nat
  BY DEF ColumnsOK, TxnRecords
<1> QED BY <1>2, <1>3, <1>5, <1>6, <1>7 DEF ColumnsOK

\* Steps that leave both tables alone.
LEMMA Untouched ==
  ASSUME ColumnsOK, UNCHANGED <<ledger, gw>>
  PROVE  /\ ColumnsOK'
         /\ ledger \subseteq ledger'
         /\ \A y \in Txns :
              /\ gw'[y].refundedMinor >= gw[y].refundedMinor
              /\ gw[y].status \in {"REVERSED", "REFUNDED"} => gw'[y].status = gw[y].status
  BY DEF ColumnsOK, TxnRecords

-------------------------------------------------------------------------------

\* The ledger is append-only, a refunded amount never shrinks and a fully refunded
\* transaction stays as it is: what the database's triggers guard, no step of the code
\* ever asks of them.
THEOREM MoneyRows == GatewaySpec => MoneyRowsOnlyGrow
<1> DEFINE Grows ==
      /\ ledger \subseteq ledger'
      /\ \A x \in Txns :
           /\ gw'[x].refundedMinor >= gw[x].refundedMinor
           /\ gw[x].status \in {"REVERSED", "REFUNDED"} => gw'[x].status = gw[x].status
<1>1. GatewayInit => ColumnsOK
  BY UncollectedRow DEF GatewayInit, ColumnsOK
<1>2. ASSUME ColumnsOK, GatewayNext PROVE ColumnsOK' /\ Grows
  <2>1. PICK x \in Txns : RefundStep(x) \/ UnlockedStep(x)
    BY <1>2 DEF GatewayNext
  <2>2. CASE RefundStep(x)
    BY <1>2, <2>2, RefundRows, Untouched DEF RefundStep, recordRefund, recordReversal, reversePayment
  <2>3. CASE UnlockedStep(x)
    BY <1>2, <2>3, CollectionRows, Untouched DEF UnlockedStep, completeGatewayRefund
  <2> QED BY <2>1, <2>2, <2>3
<1>3. ColumnsOK /\ UNCHANGED gatewayVars => ColumnsOK'
  BY DEF ColumnsOK, gatewayVars
<1>4. ColumnsOK /\ [GatewayNext]_gatewayVars => ColumnsOK' /\ [Grows]_gatewayVars
  BY <1>2, <1>3
<1> QED BY <1>1, <1>4, PTL DEF GatewaySpec, MoneyRowsOnlyGrow

-------------------------------------------------------------------------------
(* Sums of the ledger's rows. *)

\* Rows whose amounts can be added up.
RowsAdd(L) == IsFiniteSet(L) /\ \A e \in L : e.amountMinor \in Nat

LEMMA SignedIsInt ==
  ASSUME NEW e, e.amountMinor \in Nat
  PROVE  Signed(e) \in Int
  BY DEF Signed

LEMMA TotalIsInt ==
  ASSUME NEW L, RowsAdd(L)
  PROVE  TotalOf(L) \in Int
<1> DEFINE f == [e \in L |-> Signed(e)]
<1>1. \A e \in L : f[e] \in Int
  BY SignedIsInt DEF RowsAdd
<1> HIDE DEF f
<1>2. SumFunctionOnSet(f, L) \in Int
  BY <1>1, SumType DEF RowsAdd
<1> QED BY <1>2 DEF TotalOf, f

LEMMA TotalOfNone == TotalOf({}) = 0
  BY SumEmpty DEF TotalOf

\* One more row moves the total by its own signed amount.
LEMMA TotalAppend ==
  ASSUME NEW L, RowsAdd(L), NEW e, e \notin L, e.amountMinor \in Nat
  PROVE  /\ RowsAdd(L \cup {e})
         /\ TotalOf(L \cup {e}) = TotalOf(L) + Signed(e)
<1> DEFINE f == [r \in L |-> Signed(r)]
           g == [r \in L \cup {e} |-> Signed(r)]
<1>1. RowsAdd(L \cup {e})
  BY FS_AddElement DEF RowsAdd
<1>2. \A r \in L : f[r] \in Int /\ f[r] = g[r]
  BY SignedIsInt DEF RowsAdd
<1>3. \A r \in L \cup {e} : g[r] \in Int
  BY SignedIsInt DEF RowsAdd
<1>4. g[e] = Signed(e)
  OBVIOUS
<1> HIDE DEF f, g
<1>5. SumFunctionOnSet(f, L) = SumFunctionOnSet(g, L)
  BY <1>2, SumSame DEF RowsAdd
<1>6. SumFunctionOnSet(g, L \cup {e}) = g[e] + SumFunctionOnSet(g, L)
  BY <1>3, SumAdd DEF RowsAdd
<1>7. SumFunctionOnSet(f, L) \in Int
  <2>1. \A r \in L : f[r] \in Int
    BY <1>2
  <2> QED BY <2>1, SumType DEF RowsAdd
<1>8. Signed(e) \in Int
  BY SignedIsInt
<1>9. TotalOf(L) = SumFunctionOnSet(f, L) /\ TotalOf(L \cup {e}) = SumFunctionOnSet(g, L \cup {e})
  BY DEF TotalOf, f, g
<1> QED BY <1>1, <1>4, <1>5, <1>6, <1>7, <1>8, <1>9

GatewaySources == {"GatewayTransaction", "GatewayTransactionFee", "GatewayRefund", "GatewayRefundFee"}

\* The rows of transaction x among L: EntriesOf(x), for a ledger that is half written.
EntriesIn(L, x) == {e \in L : e.source[1] \in GatewaySources /\ e.source[2] = x}

LEMMA EntriesOfLedger ==
  /\ \A x : EntriesOf(x) = EntriesIn(ledger, x)
  /\ (\A x : EntriesOf(x) = EntriesIn(ledger, x))'
  BY DEF EntriesOf, EntriesIn, GatewaySources

LEMMA PartAdds ==
  ASSUME NEW L, RowsAdd(L), NEW P, P \subseteq L
  PROVE  RowsAdd(P)
  BY FS_Subset DEF RowsAdd

\* A row of transaction x under a key that is free adds to the total of x alone.
LEMMA GatewayRow ==
  ASSUME NEW L, RowsAdd(L), NEW x, NEW e, ~HasEntry(L, e.source), e.amountMinor \in Nat,
         e.source[1] \in GatewaySources, e.source[2] = x
  PROVE  /\ appendLedgerEntry(L, e) = L \cup {e}
         /\ RowsAdd(L \cup {e})
         /\ TotalOf(EntriesIn(L \cup {e}, x)) = TotalOf(EntriesIn(L, x)) + Signed(e)
         /\ \A y : y # x => EntriesIn(L \cup {e}, y) = EntriesIn(L, y)
<1>1. e \notin L
  BY DEF HasEntry
<1>2. EntriesIn(L \cup {e}, x) = EntriesIn(L, x) \cup {e}
  BY DEF EntriesIn
<1>3. RowsAdd(EntriesIn(L, x)) /\ e \notin EntriesIn(L, x)
  BY <1>1, PartAdds DEF EntriesIn
<1>4. TotalOf(EntriesIn(L, x) \cup {e}) = TotalOf(EntriesIn(L, x)) + Signed(e)
  BY <1>3, TotalAppend
<1>5. RowsAdd(L \cup {e})
  BY <1>1, TotalAppend
<1> QED BY <1>2, <1>4, <1>5 DEF EntriesIn, appendLedgerEntry

-------------------------------------------------------------------------------
(* A tenant's side of the ledger, by the kind of its rows: what was earned,    *)
(* what was taken back, what settlements took and returned.                    *)

EarnKinds == {"CUSTOMER_PAYMENT", "PLATFORM_FEE"}
BackKinds == {"PAYMENT_REVERSAL", "REFUND", "FEE_REVERSAL"}
PayKinds  == {"SETTLEMENT", "SETTLEMENT_REVERSAL"}
RowKinds  == EarnKinds \cup BackKinds \cup PayKinds

RowsBy(L, t, kinds) == {e \in L : e.tenantId = t /\ e.entryType \in kinds}

TotalBy(L, t, kinds) == TotalOf(RowsBy(L, t, kinds))

LEMMA TotalByIsInt ==
  ASSUME NEW L, RowsAdd(L), NEW t, NEW kinds
  PROVE  TotalBy(L, t, kinds) \in Int
  BY PartAdds, TotalIsInt DEF TotalBy, RowsBy

\* A row under a free key adds to the totals it belongs to.
LEMMA KindRow ==
  ASSUME NEW L, RowsAdd(L), NEW e, ~HasEntry(L, e.source), e.amountMinor \in Nat, NEW t, NEW kinds
  PROVE  TotalBy(L \cup {e}, t, kinds) =
           TotalBy(L, t, kinds) + (IF e.tenantId = t /\ e.entryType \in kinds THEN Signed(e) ELSE 0)
<1>1. e \notin L
  BY DEF HasEntry
<1>2. RowsAdd(RowsBy(L, t, kinds)) /\ e \notin RowsBy(L, t, kinds)
  BY <1>1, PartAdds DEF RowsBy
<1>3. CASE e.tenantId = t /\ e.entryType \in kinds
  <2>1. RowsBy(L \cup {e}, t, kinds) = RowsBy(L, t, kinds) \cup {e}
    BY <1>3 DEF RowsBy
  <2> QED BY <1>2, <1>3, <2>1, TotalAppend DEF TotalBy
<1>4. CASE ~(e.tenantId = t /\ e.entryType \in kinds)
  <2>1. RowsBy(L \cup {e}, t, kinds) = RowsBy(L, t, kinds)
    BY <1>4 DEF RowsBy
  <2>2. TotalBy(L, t, kinds) \in Int
    BY TotalByIsInt
  <2> QED BY <1>4, <2>1, <2>2 DEF TotalBy
<1> QED BY <1>3, <1>4

\* The total of a set of rows is the total of a part and of the rest.
LEMMA TotalSplit ==
  ASSUME NEW L, RowsAdd(L), NEW P \in SUBSET L
  PROVE  TotalOf(L) = TotalOf(P) + TotalOf(L \ P)
<1> DEFINE f == [e \in L |-> Signed(e)]
           Q == L \ P
           g == [e \in P |-> Signed(e)]
           h == [e \in Q |-> Signed(e)]
<1>1. \A e \in L : f[e] \in Int
  BY SignedIsInt DEF RowsAdd
<1>2. \A e \in P : g[e] \in Int /\ g[e] = f[e]
  BY SignedIsInt DEF RowsAdd
<1>3. \A e \in Q : h[e] \in Int /\ h[e] = f[e]
  BY SignedIsInt DEF RowsAdd
<1>4. IsFiniteSet(L) /\ IsFiniteSet(P) /\ IsFiniteSet(Q)
  BY FS_Subset DEF RowsAdd
<1>5. TotalOf(L) = SumFunctionOnSet(f, L) /\ TotalOf(P) = SumFunctionOnSet(g, P)
      /\ TotalOf(Q) = SumFunctionOnSet(h, Q)
  BY DEF TotalOf
<1> HIDE DEF f, g, h
<1>6. SumFunctionOnSet(f, L) = SumFunctionOnSet(f, P) + SumFunctionOnSet(f, Q)
  BY <1>1, <1>4, SumSplit
<1>7. SumFunctionOnSet(g, P) = SumFunctionOnSet(f, P)
  BY <1>2, <1>4, SumSame
<1> HIDE DEF Q
<1>8. SumFunctionOnSet(h, Q) = SumFunctionOnSet(f, Q)
  BY <1>3, <1>4, SumSame
<1>9. TotalOf(L) = TotalOf(P) + TotalOf(Q)
  BY <1>5, <1>6, <1>7, <1>8
<1> QED BY <1>9 DEF Q

\* The balance of a tenant is what was earned, taken back and paid.
LEMMA BalanceSplits ==
  ASSUME NEW L, RowsAdd(L), \A e \in L : e.entryType \in RowKinds, NEW t
  PROVE  TotalOf({e \in L : e.tenantId = t}) =
           TotalBy(L, t, EarnKinds) + TotalBy(L, t, BackKinds) + TotalBy(L, t, PayKinds)
<1> DEFINE all == {e \in L : e.tenantId = t}
           rest == RowsBy(L, t, BackKinds \cup PayKinds)
<1>1. RowsAdd(all) /\ RowsAdd(rest)
  BY PartAdds DEF RowsBy
<1>2. RowsBy(L, t, EarnKinds) \in SUBSET all /\ all \ RowsBy(L, t, EarnKinds) = rest
  BY DEF RowsBy, RowKinds, EarnKinds, BackKinds, PayKinds
<1>3. RowsBy(L, t, BackKinds) \in SUBSET rest
      /\ rest \ RowsBy(L, t, BackKinds) = RowsBy(L, t, PayKinds)
  BY DEF RowsBy, BackKinds, PayKinds
<1> HIDE DEF all, rest
<1>4. TotalOf(all) = TotalOf(RowsBy(L, t, EarnKinds)) + TotalOf(all \ RowsBy(L, t, EarnKinds))
  BY <1>1, <1>2, TotalSplit
<1>5. TotalOf(all \ RowsBy(L, t, EarnKinds)) = TotalOf(rest)
  BY <1>2, Zenon
<1>6. TotalOf(rest) = TotalOf(RowsBy(L, t, BackKinds)) + TotalOf(rest \ RowsBy(L, t, BackKinds))
  BY <1>1, <1>3, TotalSplit
<1>7. TotalOf(rest \ RowsBy(L, t, BackKinds)) = TotalOf(RowsBy(L, t, PayKinds))
  BY <1>3, Zenon
<1>8. /\ TotalBy(L, t, EarnKinds) \in Int /\ TotalBy(L, t, BackKinds) \in Int
      /\ TotalBy(L, t, PayKinds) \in Int
  BY TotalByIsInt
<1>9. TotalOf(all) = TotalBy(L, t, EarnKinds) + TotalBy(L, t, BackKinds) + TotalBy(L, t, PayKinds)
  BY <1>4, <1>5, <1>6, <1>7, <1>8 DEF TotalBy
<1> QED BY <1>9 DEF all

\* What a transaction's refunds took back, net of the fees they returned.
TakenBack(x) == gw[x].refundedMinor - feesReturned(x)

\* The tenants' totals after a refund of x, and after x was collected for t.
RefundMoves(x) ==
    /\ gw'[x].tenantId = gw[x].tenantId /\ gw[x].status # "NONE" /\ gw'[x].status # "NONE"
    /\ \A y \in Txns \ {x} : gw'[y] = gw[y] /\ refunds'[y] = refunds[y]
    /\ \A t : /\ TotalBy(ledger', t, EarnKinds) = TotalBy(ledger, t, EarnKinds)
              /\ TotalBy(ledger', t, PayKinds) = TotalBy(ledger, t, PayKinds)
              /\ TotalBy(ledger', t, BackKinds) = TotalBy(ledger, t, BackKinds)
                   - (IF gw[x].tenantId = t THEN TakenBack(x)' - TakenBack(x) ELSE 0)

CollectionMoves(x, t) ==
    /\ gw'[x].tenantId = t /\ gw[x].status = "NONE" /\ gw'[x].status # "NONE" /\ TakenBack(x)' = 0
    /\ \A y \in Txns \ {x} : gw'[y] = gw[y] /\ refunds'[y] = refunds[y]
    /\ \A u : /\ TotalBy(ledger', u, BackKinds) = TotalBy(ledger, u, BackKinds)
              /\ TotalBy(ledger', u, PayKinds) = TotalBy(ledger, u, PayKinds)
              /\ TotalBy(ledger', u, EarnKinds) >= TotalBy(ledger, u, EarnKinds)
              /\ u # t => TotalBy(ledger', u, EarnKinds) = TotalBy(ledger, u, EarnKinds)

\* A step that moves no money of a tenant.
NothingMoves == UNCHANGED <<ledger, gw>> /\ \A y \in Txns : feesReturned(y)' = feesReturned(y)

-------------------------------------------------------------------------------
(* The fees returned by a transaction's refunds. *)

FeesOf(rows) == SumFunctionOnSet([k \in DOMAIN rows |-> rows[k].feeReturnedMinor], DOMAIN rows)

LEMMA FeesReturnedOf ==
  /\ \A x : feesReturned(x) = FeesOf(refunds[x])
  /\ (\A x : feesReturned(x) = FeesOf(refunds[x]))'
  BY DEF feesReturned, FeesOf, SumFunction

LEMMA FeesAppend ==
  ASSUME NEW rows \in Seq(RefundRecords), NEW r \in RefundRecords
  PROVE  /\ FeesOf(rows) \in Nat
         /\ FeesOf(Append(rows, r)) = FeesOf(rows) + r.feeReturnedMinor
<1> DEFINE longer == Append(rows, r)
           n == Len(rows)
           f == [k \in DOMAIN rows |-> rows[k].feeReturnedMinor]
           g == [k \in DOMAIN longer |-> longer[k].feeReturnedMinor]
<1>1. /\ n \in Nat /\ DOMAIN rows = 1..n /\ DOMAIN longer = 1..(n + 1)
      /\ longer[n + 1] = r /\ \A k \in 1..n : longer[k] = rows[k] /\ rows[k] \in RefundRecords
  OBVIOUS
<1>2. r.feeReturnedMinor \in Nat /\ \A k \in 1..n : rows[k].feeReturnedMinor \in Nat
  BY <1>1 DEF RefundRecords
<1>3. /\ \A k \in 1..n : f[k] \in Nat /\ f[k] = g[k]
      /\ g[n + 1] = r.feeReturnedMinor
  BY <1>1, <1>2
<1>4. FeesOf(rows) = SumFunctionOnSet(f, 1..n) /\ FeesOf(longer) = SumFunctionOnSet(g, 1..(n + 1))
  BY <1>1, Zenon DEF FeesOf
<1>5. IsFiniteSet(1..n) /\ (1..n) \cup {n + 1} = 1..(n + 1) /\ (n + 1) \notin 1..n
  <2>1. IsFiniteSet(1..n)
    BY <1>1, FS_Interval
  <2> QED BY <1>1, <2>1
<1> HIDE DEF f, g, longer, n
<1>6. SumFunctionOnSet(f, 1..n) \in Nat
  BY <1>3, <1>5, SumNat
<1>7. SumFunctionOnSet(f, 1..n) = SumFunctionOnSet(g, 1..n)
  <2>1. \A k \in 1..n : f[k] \in Int /\ f[k] = g[k]
    BY <1>3
  <2> QED BY <1>5, <2>1, SumSame
<1>8. SumFunctionOnSet(g, (1..n) \cup {n + 1}) = g[n + 1] + SumFunctionOnSet(g, 1..n)
  <2>1. \A k \in (1..n) \cup {n + 1} : g[k] \in Int
    BY <1>2, <1>3
  <2> QED BY <1>5, <2>1, SumAdd
<1>9. SumFunctionOnSet(g, 1..(n + 1)) = g[n + 1] + SumFunctionOnSet(g, 1..n)
  BY <1>5, <1>8, Zenon
<1> QED BY <1>2, <1>3, <1>4, <1>6, <1>7, <1>9 DEF longer

LEMMA FeesOfNone == FeesOf(<<>>) = 0
<1>1. DOMAIN <<>> = {}
  OBVIOUS
<1> QED BY <1>1, SumEmpty DEF FeesOf

\* Nothing else about a refund's row changes what it returned.
LEMMA FeesSame ==
  ASSUME NEW rows \in Seq(RefundRecords), NEW new \in Seq(RefundRecords), Len(new) = Len(rows),
         \A k \in 1..Len(rows) : new[k].feeReturnedMinor = rows[k].feeReturnedMinor
  PROVE  FeesOf(new) = FeesOf(rows)
<1>1. DOMAIN new = DOMAIN rows
  OBVIOUS
<1>2. [k \in DOMAIN new |-> new[k].feeReturnedMinor] = [k \in DOMAIN rows |-> rows[k].feeReturnedMinor]
  BY <1>1
<1> QED BY <1>1, <1>2, Zenon DEF FeesOf

\* A share of the fee is never more than the refund it comes with.
LEMMA ShareWithinAmount ==
  ASSUME NEW gross \in Nat \ {0}, NEW fee \in 0..gross, NEW refunded \in Nat,
         NEW returned \in 0..fee, NEW amount \in Nat, returned <= refunded,
         refunded + amount <= gross
  PROVE  returned + feeShareForRefund(gross, fee, refunded, returned, amount) <= refunded + amount
<1> DEFINE part == (fee * amount) \div gross
<1>1. part \in Nat /\ part <= amount
  <2>1. fee * amount \in Nat /\ gross * amount \in Nat /\ fee * amount <= gross * amount
    <3>1. (gross - fee) * amount >= 0
      BY gross - fee \in Nat
    <3>2. (gross - fee) * amount = gross * amount - fee * amount
      OBVIOUS
    <3> QED BY <3>1, <3>2
  <2>2. part \in Nat /\ part * gross <= fee * amount
    BY <2>1
  <2>3. ASSUME part > amount PROVE FALSE
    <3>1. (part - amount) * gross > 0
      BY <2>2, <2>3
    <3>2. (part - amount) * gross = part * gross - amount * gross
      BY <2>2
    <3> HIDE DEF part
    <3> QED BY <2>1, <2>2, <3>1, <3>2
  <2> QED BY <2>2, <2>3
<1> HIDE DEF part
<1>2. feeShareForRefund(gross, fee, refunded, returned, amount) =
        IF refunded + amount >= gross THEN fee - returned ELSE Smaller(fee - returned, part)
  BY DEF feeShareForRefund, part
<1> QED BY <1>1, <1>2 DEF Smaller

-------------------------------------------------------------------------------
(* The inductive invariant of the gateway's money.  A transaction's row, the   *)
(* fees its refunds returned, its billing payment and the total of its ledger  *)
(* rows say the same thing, and the keys of its next rows are free.            *)

TablesOK ==
    /\ gw \in [Txns -> TxnRecords]
    /\ refunds \in [Txns -> Seq(RefundRecords)]
    /\ payment \in [Txns -> {"NONE", "COMPLETED", "REVERSED"}]

LedgerOK ==
    /\ IsFiniteSet(ledger)
    /\ \A e \in ledger : /\ e.tenantId \in Tenants /\ e.amountMinor \in Amounts
                          /\ e.entryType \in RowKinds

\* g is the transaction's row, fees what its refunds returned, p its payment's status
\* and total what its rows come to.
MoneyOK(g, fees, p, total) ==
    /\ g.grossMinor <= MaxMinor /\ g.feeMinor <= g.grossMinor /\ g.refundedMinor <= g.grossMinor
    /\ g.status = "NONE" => g.grossMinor = 0 /\ p = "NONE"
    /\ g.status = "COMPLETED" => g.refundedMinor = 0
    /\ g.status \in {"REVERSED", "REFUNDED"} => g.refundedMinor = g.grossMinor /\ fees = g.feeMinor
    /\ fees \in 0..g.feeMinor /\ fees <= g.refundedMinor
    /\ total = g.grossMinor - g.feeMinor - g.refundedMinor + fees
    /\ p = "REVERSED" => g.status \in {"REVERSED", "REFUNDED"}

TxnMoney(x) == MoneyOK(gw[x], feesReturned(x), payment[x], TotalOf(EntriesOf(x)))

\* The keys of rows not yet written.
KeysFree(x) ==
    \A e \in ledger :
        /\ e.source \in {CollectionSource(x), FeeSource(x)} => gw[x].status # "NONE"
        /\ \A k \in Nat : e.source \in {RefundSource(x, k), RefundFeeSource(x, k)} => k <= Len(refunds[x])

GatewayInv ==
    /\ TablesOK
    /\ LedgerOK
    /\ \A x \in Txns : TxnMoney(x) /\ KeysFree(x)

LEMMA GatewayInvTypes == GatewayInv => GatewayTypeOK /\ RowsAdd(ledger)
<1> SUFFICES ASSUME GatewayInv PROVE GatewayTypeOK /\ RowsAdd(ledger)
  OBVIOUS
<1>1. Amounts \subseteq Nat
  BY MaxMinorAssumption DEF Amounts
<1> QED BY <1>1 DEF GatewayInv, GatewayTypeOK, TablesOK, LedgerOK, TxnMoney, MoneyOK, RowsAdd

\* The properties follow from it.
LEMMA GatewayInvSuffices == GatewayInv => RefundsUnwindExactly /\ ReversedPaymentNotCredited
<1> SUFFICES ASSUME GatewayInv, NEW x \in Txns
             PROVE  /\ gw[x].status \in {"REVERSED", "REFUNDED"} => TotalOf(EntriesOf(x)) = 0
                    /\ gw[x].status = "COMPLETED" =>
                          TotalOf(EntriesOf(x)) = gw[x].grossMinor - gw[x].feeMinor
                    /\ feesReturned(x) \in 0..gw[x].feeMinor
                    /\ payment[x] = "REVERSED" => ~Open(x) /\ TotalOf(EntriesOf(x)) = 0
  BY DEF RefundsUnwindExactly, ReversedPaymentNotCredited
<1>1. gw[x] \in TxnRecords /\ MoneyOK(gw[x], feesReturned(x), payment[x], TotalOf(EntriesOf(x)))
  BY DEF GatewayInv, TablesOK, TxnMoney
<1>2. /\ gw[x].grossMinor \in Nat /\ gw[x].feeMinor \in Nat /\ gw[x].refundedMinor \in Nat
  BY <1>1 DEF TxnRecords
<1> DEFINE total == TotalOf(EntriesOf(x))
           fees == feesReturned(x)
<1>3. MoneyOK(gw[x], fees, payment[x], total)
  BY <1>1
<1> HIDE DEF total, fees
<1>4. fees \in 0..gw[x].feeMinor /\ total = gw[x].grossMinor - gw[x].feeMinor - gw[x].refundedMinor + fees
  BY <1>3 DEF MoneyOK
<1>5. gw[x].status \in {"REVERSED", "REFUNDED"} => total = 0
  BY <1>2, <1>3, <1>4 DEF MoneyOK
<1>6. gw[x].status = "COMPLETED" => total = gw[x].grossMinor - gw[x].feeMinor
  BY <1>2, <1>3, <1>4 DEF MoneyOK
<1>7. payment[x] = "REVERSED" => ~Open(x) /\ total = 0
  BY <1>3, <1>5 DEF MoneyOK, Open
<1> QED BY <1>4, <1>5, <1>6, <1>7 DEF total, fees

LEMMA GatewayInvInit == GatewayInit => GatewayInv
<1> SUFFICES ASSUME GatewayInit PROVE GatewayInv
  OBVIOUS
<1>1. TablesOK
  BY UncollectedRow DEF GatewayInit, TablesOK
<1>2. LedgerOK
  BY FS_EmptySet DEF GatewayInit, LedgerOK
<1>3. ASSUME NEW x \in Txns PROVE TxnMoney(x) /\ KeysFree(x)
  <2>1. EntriesOf(x) = {} /\ refunds[x] = <<>> /\ gw[x] = Uncollected /\ payment[x] = "NONE"
    BY <1>3 DEF GatewayInit, EntriesOf
  <2>2. TotalOf(EntriesOf(x)) = 0 /\ feesReturned(x) = 0
    BY <2>1, TotalOfNone, FeesOfNone, FeesReturnedOf
  <2>3. /\ Uncollected.status = "NONE" /\ Uncollected.grossMinor = 0
        /\ Uncollected.feeMinor = 0 /\ Uncollected.refundedMinor = 0
    BY DEF Uncollected
  <2>4. TxnMoney(x)
    BY <2>1, <2>2, <2>3, MaxMinorAssumption DEF TxnMoney, MoneyOK
  <2> QED BY <2>4 DEF KeysFree, GatewayInit
<1> QED BY <1>1, <1>2, <1>3 DEF GatewayInv

\* Rows that belong to y.
RowOf(e, y) == e.source[1] \in GatewaySources /\ e.source[2] = y

LEMMA KeysNamed ==
  ASSUME NEW e, NEW y
  PROVE  /\ e.source \in {CollectionSource(y), FeeSource(y)} => RowOf(e, y)
         /\ \A k : e.source \in {RefundSource(y, k), RefundFeeSource(y, k)} => RowOf(e, y)
  BY DEF RowOf, GatewaySources, CollectionSource, FeeSource, RefundSource, RefundFeeSource

\* A transaction is not touched by a step that leaves its money columns and writes no row of it.
LEMMA TxnKept ==
  ASSUME NEW y \in Txns, TxnMoney(y), KeysFree(y),
         gw'[y].status = gw[y].status, gw'[y].grossMinor = gw[y].grossMinor,
         gw'[y].feeMinor = gw[y].feeMinor, gw'[y].refundedMinor = gw[y].refundedMinor,
         refunds'[y] = refunds[y], payment'[y] = payment[y],
         ledger \subseteq ledger', \A e \in ledger' \ ledger : ~RowOf(e, y)
  PROVE  TxnMoney(y)' /\ KeysFree(y)'
<1>1. EntriesOf(y)' = EntriesOf(y)
  BY EntriesOfLedger DEF EntriesIn, RowOf
<1>2. feesReturned(y)' = feesReturned(y)
  BY FeesReturnedOf
<1>3. TotalOf(EntriesOf(y))' = TotalOf(EntriesOf(y))
  BY <1>1 DEF TotalOf
<1>4. TxnMoney(y)'
  BY <1>2, <1>3 DEF TxnMoney, MoneyOK
<1>5. ASSUME NEW e \in ledger'
      PROVE  /\ e.source \in {CollectionSource(y), FeeSource(y)} => gw'[y].status # "NONE"
             /\ \A k \in Nat : e.source \in {RefundSource(y, k), RefundFeeSource(y, k)} =>
                                  k <= Len(refunds'[y])
  <2>1. CASE e \in ledger
    BY <2>1 DEF KeysFree
  <2>2. CASE e \notin ledger
    BY <2>2, KeysNamed
  <2> QED BY <2>1, <2>2
<1>6. KeysFree(y)'
  BY <1>5 DEF KeysFree, CollectionSource, FeeSource, RefundSource, RefundFeeSource
<1> QED BY <1>4, <1>6

\* What a refund writes.
LEMMA RefundMoney ==
  ASSUME GatewayInv, NEW x \in Txns, NEW kind \in {"REFUND", "REVERSAL"}, NEW amount,
         NEW completed \in BOOLEAN, recordRefundRows(x, kind, amount, completed),
         payment' \in [Txns -> {"NONE", "COMPLETED", "REVERSED"}],
         \A y \in Txns \ {x} : payment'[y] = payment[y],
         \/ payment'[x] = payment[x]
         \/ payment'[x] = "REVERSED" /\ amount = remainingMinor(x)
  PROVE  GatewayInv' /\ RefundMoves(x)
<1> DEFINE g == gw[x]
           returned == feesReturned(x)
           share == feeShareForRefund(g.grossMinor, g.feeMinor, g.refundedMinor, returned, amount)
           k == Len(refunds[x]) + 1
           total == refundedAfter(x, amount)
           status == IF total < g.grossMinor THEN "PARTIALLY_REFUNDED"
                     ELSE IF kind = "REVERSAL" THEN "REVERSED" ELSE "REFUNDED"
           row == [kind |-> kind, amountMinor |-> amount, feeReturnedMinor |-> share,
                   status |-> IF completed THEN "COMPLETED" ELSE "PENDING_CUSTOMER_PAYOUT"]
           debit == Entry(RefundSource(x, k), g.tenantId, "DEBIT",
                          IF kind = "REVERSAL" THEN "PAYMENT_REVERSAL" ELSE "REFUND", amount)
           credit == Entry(RefundFeeSource(x, k), g.tenantId, "CREDIT", "FEE_REVERSAL", share)
           before == TotalOf(EntriesOf(x))
<1>1. /\ g \in TxnRecords /\ refunds[x] \in Seq(RefundRecords)
      /\ MoneyOK(g, returned, payment[x], before) /\ KeysFree(x)
      /\ g.status \in {"COMPLETED", "PARTIALLY_REFUNDED"}
  BY DEF GatewayInv, TablesOK, TxnMoney, recordRefundRows, Open
<1>2. /\ g.grossMinor \in Nat /\ g.feeMinor \in Nat /\ g.refundedMinor \in Nat
      /\ g.tenantId \in Tenants
  BY <1>1 DEF TxnRecords
<1>3. amount \in Int /\ 1 <= amount /\ amount <= g.grossMinor - g.refundedMinor
  BY <1>2 DEF recordRefundRows, remainingMinor
<1> HIDE DEF returned, before
<1>4. /\ returned \in 0..g.feeMinor /\ returned <= g.refundedMinor
      /\ g.feeMinor <= g.grossMinor /\ g.grossMinor <= MaxMinor
      /\ before = g.grossMinor - g.feeMinor - g.refundedMinor + returned
  BY <1>1 DEF MoneyOK
<1>5. /\ share \in 0..(g.feeMinor - returned)
      /\ g.refundedMinor + amount >= g.grossMinor => share = g.feeMinor - returned
  <2>1. g.grossMinor \in Nat \ {0} /\ amount \in Nat
    BY <1>2, <1>3
  <2> HIDE DEF g
  <2>2. share \in 0..(g.feeMinor - returned)
    BY <1>2, <1>4, <2>1, ShareWithinFee
  <2>3. g.refundedMinor + amount >= g.grossMinor => share = g.feeMinor - returned
    BY <1>2, <2>1 DEF feeShareForRefund
  <2> QED BY <2>2, <2>3
<1>6. returned + share <= g.refundedMinor + amount
  <2>1. g.grossMinor \in Nat \ {0} /\ amount \in Nat /\ g.feeMinor \in 0..g.grossMinor
        /\ g.refundedMinor + amount <= g.grossMinor
    BY <1>2, <1>3, <1>4
  <2> HIDE DEF g
  <2> QED BY <1>2, <1>4, <2>1, ShareWithinAmount
<1>7. total \in Nat /\ total = g.refundedMinor + amount /\ total <= g.grossMinor
  BY <1>2, <1>3 DEF refundedAfter
<1>8. amount \in Amounts /\ share \in Nat /\ (share > 0 => share \in Amounts) /\ k \in Nat
  <2>1. k \in Nat
    BY <1>1
  <2> HIDE DEF k, g, share
  <2> QED BY <1>2, <1>3, <1>4, <1>5, <2>1, MaxMinorAssumption DEF Amounts
<1>9. refunds' = [refunds EXCEPT ![x] = Append(@, row)]
  BY DEF recordRefundRows, returned
<1>10. ledger' = IF share > 0 THEN appendLedgerEntry(appendLedgerEntry(ledger, debit), credit)
                 ELSE appendLedgerEntry(ledger, debit)
  BY DEF recordRefundRows, returned
<1>11. gw' = [gw EXCEPT ![x].refundedMinor = total, ![x].status = status]
  BY DEF recordRefundRows
<1>12. status \in {"PARTIALLY_REFUNDED", "REVERSED", "REFUNDED"}
       /\ (status # "PARTIALLY_REFUNDED" <=> total >= g.grossMinor)
  BY <1>2, <1>7
<1>13. row \in RefundRecords
  BY <1>8 DEF RefundRecords
<1>14. /\ debit.source = RefundSource(x, k) /\ debit.amountMinor = amount
       /\ debit.tenantId = g.tenantId /\ Signed(debit) = - amount
       /\ credit.source = RefundFeeSource(x, k) /\ credit.amountMinor = share
       /\ credit.tenantId = g.tenantId /\ Signed(credit) = share
      /\ debit.entryType \in {"PAYMENT_REVERSAL", "REFUND"} /\ credit.entryType = "FEE_REVERSAL"
  BY DEF Entry, Signed
<1>15. row.feeReturnedMinor = share
  OBVIOUS
<1> HIDE DEF g, share, k, total, status, row, debit, credit
<1>16. refunds'[x] = Append(refunds[x], row) /\ \A y \in Txns \ {x} : refunds'[y] = refunds[y]
  BY <1>9 DEF GatewayInv, TablesOK
<1>17. feesReturned(x)' = returned + share
  BY <1>1, <1>13, <1>15, <1>16, FeesAppend, FeesReturnedOf DEF returned
<1>18. refunds' \in [Txns -> Seq(RefundRecords)] /\ Len(refunds'[x]) = k
  <2>1. Append(refunds[x], row) \in Seq(RefundRecords) /\ Len(Append(refunds[x], row)) = k
    BY <1>1, <1>13 DEF k
  <2> QED BY <1>9, <2>1 DEF GatewayInv, TablesOK
<1>19. /\ gw' \in [Txns -> TxnRecords]
       /\ gw'[x].refundedMinor = total /\ gw'[x].status = status
       /\ gw'[x].grossMinor = g.grossMinor /\ gw'[x].feeMinor = g.feeMinor
       /\ gw'[x].tenantId = g.tenantId
       /\ \A y \in Txns \ {x} : gw'[y] = gw[y]
  <2>1. gw'[x] = [gw[x] EXCEPT !.refundedMinor = total, !.status = status]
    BY <1>11 DEF GatewayInv, TablesOK
  <2>2. gw'[x] \in TxnRecords /\ gw'[x].refundedMinor = total /\ gw'[x].status = status
        /\ gw'[x].grossMinor = gw[x].grossMinor /\ gw'[x].feeMinor = gw[x].feeMinor
        /\ gw'[x].tenantId = gw[x].tenantId
    BY <1>1, <1>7, <1>12, <2>1 DEF TxnRecords, g
  <2> QED BY <1>11, <2>2 DEF GatewayInv, TablesOK, g
<1>20. /\ RowsAdd(ledger)
       /\ RowOf(debit, x) /\ RowOf(credit, x)
       /\ ~HasEntry(ledger, debit.source) /\ ~HasEntry(ledger, credit.source)
       /\ debit.source # credit.source
  <2>1. RowsAdd(ledger)
    BY GatewayInvTypes
  <2>2. RowOf(debit, x) /\ RowOf(credit, x)
    BY <1>14, KeysNamed
  <2>3. k > Len(refunds[x])
    BY <1>1 DEF k
  <2>4. ~HasEntry(ledger, debit.source) /\ ~HasEntry(ledger, credit.source)
    <3> SUFFICES ASSUME NEW e \in ledger, e.source \in {RefundSource(x, k), RefundFeeSource(x, k)}
                 PROVE  FALSE
      BY <1>14 DEF HasEntry
    <3>1. k <= Len(refunds[x])
      BY <1>1, <1>8 DEF KeysFree
    <3> QED BY <1>1, <1>8, <2>3, <3>1
  <2> QED BY <1>14, <2>1, <2>2, <2>4 DEF RefundSource, RefundFeeSource
<1>21. /\ IsFiniteSet(ledger') /\ ledger \subseteq ledger'
       /\ \A e \in ledger' \ ledger : e \in {debit, credit} /\ (e = credit => share > 0)
       /\ TotalOf(EntriesIn(ledger', x)) = before - amount + share
  <2> DEFINE L == ledger \cup {debit}
  <2>1. /\ appendLedgerEntry(ledger, debit) = L /\ RowsAdd(L)
        /\ TotalOf(EntriesIn(L, x)) = TotalOf(EntriesIn(ledger, x)) + Signed(debit)
    <3>1. debit.amountMinor \in Nat
      BY <1>3, <1>14
    <3> QED BY <1>20, <3>1, GatewayRow DEF RowOf
  <2>2. TotalOf(EntriesIn(ledger, x)) = before
    BY EntriesOfLedger DEF before
  <2>3. CASE share > 0
    <3>1. ~HasEntry(L, credit.source)
      BY <1>20 DEF HasEntry
    <3> HIDE DEF L
    <3>2. /\ appendLedgerEntry(L, credit) = L \cup {credit} /\ RowsAdd(L \cup {credit})
          /\ TotalOf(EntriesIn(L \cup {credit}, x)) = TotalOf(EntriesIn(L, x)) + Signed(credit)
      <4>1. credit.amountMinor \in Nat
        BY <1>8, <1>14
      <4> QED BY <1>20, <2>1, <3>1, <4>1, GatewayRow DEF RowOf
    <3>3. ledger' = L \cup {credit}
      BY <1>10, <2>1, <2>3, <3>2
    <3>4. TotalOf(EntriesIn(ledger', x)) = before - amount + share
      BY <1>2, <1>3, <1>4, <1>8, <1>14, <2>1, <2>2, <3>2, <3>3
    <3>5. \A e \in ledger' \ ledger : e \in {debit, credit}
      BY <3>3 DEF L
    <3> QED BY <2>3, <3>2, <3>3, <3>4, <3>5 DEF RowsAdd, L
  <2>4. CASE ~(share > 0)
    <3>1. ledger' = L /\ share = 0
      BY <1>8, <1>10, <2>1, <2>4
    <3>2. debit # credit
      BY <1>20
    <3> QED BY <1>3, <1>4, <1>14, <2>1, <2>2, <3>1, <3>2 DEF RowsAdd
  <2> QED BY <2>3, <2>4
<1>22. LedgerOK'
  <2>1. ASSUME NEW e \in ledger'
        PROVE  e.tenantId \in Tenants /\ e.amountMinor \in Amounts /\ e.entryType \in RowKinds
    <3>1. CASE e \in ledger
      BY <3>1 DEF GatewayInv, LedgerOK
    <3>2. CASE e \notin ledger
      BY <1>2, <1>8, <1>14, <1>21, <3>2 DEF RowKinds, BackKinds
    <3> QED BY <3>1, <3>2
  <2> QED BY <1>21, <2>1 DEF LedgerOK, Amounts
<1>23. TxnMoney(x)'
  <2>1. MoneyOK(gw'[x], returned + share, payment'[x], before - amount + share)
    <3>1. returned + share \in 0..g.feeMinor
      BY <1>2, <1>4, <1>5
    <3>2. status \in {"REVERSED", "REFUNDED"} => total = g.grossMinor /\ returned + share = g.feeMinor
      BY <1>2, <1>4, <1>5, <1>7, <1>12
    <3>3. payment'[x] = "REVERSED" => status \in {"REVERSED", "REFUNDED"}
      <4>1. payment[x] # "REVERSED"
        BY <1>1 DEF MoneyOK
      <4>2. amount = remainingMinor(x) => total >= g.grossMinor
        BY <1>2, <1>7 DEF remainingMinor, g
      <4> QED BY <1>12, <4>1, <4>2
    <3>4. before - amount + share = g.grossMinor - g.feeMinor - total + (returned + share)
      BY <1>2, <1>3, <1>4, <1>7, <1>8
    <3> QED BY <1>2, <1>4, <1>6, <1>7, <1>12, <1>19, <3>1, <3>2, <3>3, <3>4 DEF MoneyOK
  <2> QED BY <1>17, <1>21, <2>1, EntriesOfLedger DEF TxnMoney
<1>24. KeysFree(x)'
  <2>1. ASSUME NEW e \in ledger'
        PROVE  /\ e.source \in {CollectionSource(x), FeeSource(x)} => gw'[x].status # "NONE"
               /\ \A n \in Nat : e.source \in {RefundSource(x, n), RefundFeeSource(x, n)} =>
                                    n <= Len(refunds'[x])
    <3>1. gw'[x].status # "NONE"
      BY <1>12, <1>19
    <3>2. ASSUME NEW n \in Nat, e.source \in {RefundSource(x, n), RefundFeeSource(x, n)}
          PROVE  n <= k
      <4>1. CASE e \in ledger
        <5>1. n <= Len(refunds[x])
          BY <1>1, <3>2, <4>1 DEF KeysFree
        <5>2. Len(refunds[x]) \in Nat /\ k = Len(refunds[x]) + 1
          BY <1>1 DEF k
        <5> QED BY <5>1, <5>2
      <4>2. CASE e \notin ledger
        <5>1. e.source \in {RefundSource(x, k), RefundFeeSource(x, k)}
          BY <1>14, <1>21, <4>2
        <5>2. n = k
          BY <3>2, <5>1 DEF RefundSource, RefundFeeSource
        <5> QED BY <1>8, <5>2
      <4> QED BY <4>1, <4>2
    <3> QED BY <1>18, <3>1, <3>2
  <2> QED BY <2>1 DEF KeysFree, CollectionSource, FeeSource, RefundSource, RefundFeeSource
<1>25. ASSUME NEW y \in Txns \ {x} PROVE TxnMoney(y)' /\ KeysFree(y)'
  <2>1. \A e \in ledger' \ ledger : ~RowOf(e, y)
    BY <1>20, <1>21 DEF RowOf
  <2>2. TxnMoney(y) /\ KeysFree(y)
    BY DEF GatewayInv
  <2> QED BY <1>16, <1>19, <1>21, <2>1, <2>2, TxnKept
<1>26. ASSUME NEW t, NEW kinds \in {EarnKinds, BackKinds, PayKinds}
       PROVE  TotalBy(ledger', t, kinds) = TotalBy(ledger, t, kinds)
                - (IF g.tenantId = t /\ kinds = BackKinds THEN amount - share ELSE 0)
  <2> DEFINE L == ledger \cup {debit}
  <2>1. debit.amountMinor \in Nat /\ credit.amountMinor \in Nat
    BY <1>3, <1>8, <1>14
  <2>2. appendLedgerEntry(ledger, debit) = L /\ RowsAdd(L) /\ ~HasEntry(L, credit.source)
    <3>1. appendLedgerEntry(ledger, debit) = L /\ RowsAdd(L)
      BY <1>20, <2>1, GatewayRow DEF RowOf
    <3> QED BY <1>20, <3>1 DEF HasEntry
  <2>3. TotalBy(L, t, kinds) = TotalBy(ledger, t, kinds)
           + (IF debit.tenantId = t /\ debit.entryType \in kinds THEN Signed(debit) ELSE 0)
    BY <1>20, <2>1, KindRow
  <2> HIDE DEF L
  <2>4. TotalBy(L \cup {credit}, t, kinds) = TotalBy(L, t, kinds)
           + (IF credit.tenantId = t /\ credit.entryType \in kinds THEN Signed(credit) ELSE 0)
    BY <2>1, <2>2, KindRow
  <2>5. debit.entryType \in kinds <=> kinds = BackKinds
    BY <1>14 DEF EarnKinds, BackKinds, PayKinds
  <2>6. credit.entryType \in kinds <=> kinds = BackKinds
    BY <1>14 DEF EarnKinds, BackKinds, PayKinds
  <2>7. TotalBy(ledger, t, kinds) \in Int
    BY <1>20, TotalByIsInt
  <2>8. CASE share > 0
    <3>1. ledger' = L \cup {credit}
      BY <1>10, <2>2, <2>8 DEF appendLedgerEntry
    <3> QED BY <1>3, <1>8, <1>14, <2>3, <2>4, <2>5, <2>6, <2>7, <3>1
  <2>9. CASE ~(share > 0)
    <3>1. ledger' = L /\ share = 0
      BY <1>8, <1>10, <2>2, <2>9
    <3> QED BY <1>3, <1>14, <2>3, <2>5, <2>7, <3>1
  <2> QED BY <2>8, <2>9
<1>27. RefundMoves(x)
  <2>1. TakenBack(x)' - TakenBack(x) = amount - share
    BY <1>2, <1>3, <1>4, <1>7, <1>8, <1>17, <1>19 DEF TakenBack, returned, g
  <2>2. BackKinds # EarnKinds /\ BackKinds # PayKinds
    BY DEF EarnKinds, BackKinds, PayKinds
  <2>3. \A t : TotalBy(ledger, t, EarnKinds) \in Int /\ TotalBy(ledger, t, PayKinds) \in Int
    BY <1>20, TotalByIsInt
  <2>4. \A t : /\ TotalBy(ledger', t, EarnKinds) = TotalBy(ledger, t, EarnKinds)
              /\ TotalBy(ledger', t, PayKinds) = TotalBy(ledger, t, PayKinds)
    BY <1>26, <2>2, <2>3
  <2>5. \A t : TotalBy(ledger', t, BackKinds) = TotalBy(ledger, t, BackKinds)
                   - (IF gw[x].tenantId = t THEN TakenBack(x)' - TakenBack(x) ELSE 0)
    BY <1>26, <2>1 DEF g
  <2>6. /\ gw'[x].tenantId = gw[x].tenantId /\ gw[x].status # "NONE" /\ gw'[x].status # "NONE"
        /\ \A y \in Txns \ {x} : gw'[y] = gw[y] /\ refunds'[y] = refunds[y]
    BY <1>1, <1>12, <1>16, <1>19 DEF g
  <2> QED BY <2>4, <2>5, <2>6 DEF RefundMoves
<1> QED BY <1>18, <1>19, <1>22, <1>23, <1>24, <1>25, <1>27 DEF GatewayInv, TablesOK

\* What a collection writes.
LEMMA CollectionMoney ==
  ASSUME GatewayInv, NEW x \in Txns, NEW t \in Tenants, NEW gross \in Grosses,
         recordPlatformCollection(x, t, gross)
  PROVE  GatewayInv' /\ CollectionMoves(x, t)
<1> DEFINE fee == FeeOf(gross, FeeRule)
           new == [Uncollected EXCEPT !.status = "COMPLETED", !.tenantId = t,
                                      !.grossMinor = gross, !.feeMinor = fee]
           credit == Entry(CollectionSource(x), t, "CREDIT", "CUSTOMER_PAYMENT", gross)
           debit == Entry(FeeSource(x), t, "DEBIT", "PLATFORM_FEE", fee)
           before == TotalOf(EntriesOf(x))
<1>1. /\ gw[x] \in TxnRecords /\ MoneyOK(gw[x], feesReturned(x), payment[x], before)
      /\ KeysFree(x) /\ gw[x].status = "NONE"
  BY DEF GatewayInv, TablesOK, TxnMoney, recordPlatformCollection
<1>2. before = 0 /\ feesReturned(x) = 0
  <2> DEFINE f == feesReturned(x)
  <2>1. MoneyOK(gw[x], f, payment[x], before)
    BY <1>1
  <2> HIDE DEF before, f
  <2>2. gw[x].grossMinor \in Nat /\ gw[x].feeMinor \in Nat /\ gw[x].refundedMinor \in Nat
    BY <1>1 DEF TxnRecords
  <2>3. gw[x].grossMinor = 0 /\ gw[x].feeMinor = 0 /\ gw[x].refundedMinor = 0 /\ f = 0
    BY <1>1, <2>1, <2>2 DEF MoneyOK
  <2>4. before = 0
    BY <2>1, <2>3 DEF MoneyOK
  <2> QED BY <2>3, <2>4 DEF f
<1>3. gross \in Amounts /\ gross \in Nat /\ gross <= MaxMinor
  BY GrossesAssumption, MaxMinorAssumption DEF Amounts
<1>4. fee \in 0..gross
  BY <1>3, FeeRuleAssumption, FeeWithinGross
<1>5. fee > 0 => fee \in Amounts
  BY <1>3, <1>4, MaxMinorAssumption DEF Amounts
<1>6. gw' = [gw EXCEPT ![x] = new] /\ refunds' = refunds
      /\ payment' = [payment EXCEPT ![x] = "COMPLETED"]
  BY DEF recordPlatformCollection
<1>7. ledger' = IF fee > 0 THEN appendLedgerEntry(appendLedgerEntry(ledger, credit), debit)
                ELSE appendLedgerEntry(ledger, credit)
  BY DEF recordPlatformCollection
<1>8. /\ credit.source = CollectionSource(x) /\ credit.amountMinor = gross
      /\ credit.tenantId = t /\ Signed(credit) = gross
      /\ debit.source = FeeSource(x) /\ debit.amountMinor = fee
      /\ debit.tenantId = t /\ Signed(debit) = - fee
      /\ credit.entryType = "CUSTOMER_PAYMENT" /\ debit.entryType = "PLATFORM_FEE"
  BY DEF Entry, Signed
<1> HIDE DEF fee
<1>9. /\ new \in TxnRecords /\ new.status = "COMPLETED" /\ new.grossMinor = gross
      /\ new.tenantId = t
      /\ new.feeMinor = fee /\ new.refundedMinor = 0
  <2>1. fee \in Nat
    BY <1>3, <1>4
  <2> QED BY <1>3, <2>1, UncollectedRow DEF TxnRecords
<1> HIDE DEF new, credit, debit, before
<1>10. /\ gw' \in [Txns -> TxnRecords] /\ gw'[x] = new
       /\ payment' \in [Txns -> {"NONE", "COMPLETED", "REVERSED"}] /\ payment'[x] = "COMPLETED"
       /\ \A y \in Txns \ {x} : gw'[y] = gw[y] /\ payment'[y] = payment[y]
  BY <1>6, <1>9 DEF GatewayInv, TablesOK
<1>11. /\ RowsAdd(ledger) /\ RowOf(credit, x) /\ RowOf(debit, x)
       /\ ~HasEntry(ledger, credit.source) /\ ~HasEntry(ledger, debit.source)
       /\ credit.source # debit.source
  <2>1. ~HasEntry(ledger, credit.source) /\ ~HasEntry(ledger, debit.source)
    BY <1>1, <1>8 DEF HasEntry, KeysFree
  <2> QED BY <1>8, <2>1, KeysNamed, GatewayInvTypes DEF CollectionSource, FeeSource
<1>12. /\ IsFiniteSet(ledger') /\ ledger \subseteq ledger'
       /\ \A e \in ledger' \ ledger : e \in {credit, debit} /\ (e = debit => fee > 0)
       /\ TotalOf(EntriesIn(ledger', x)) = gross - fee
  <2> DEFINE L == ledger \cup {credit}
  <2>1. /\ appendLedgerEntry(ledger, credit) = L /\ RowsAdd(L)
        /\ TotalOf(EntriesIn(L, x)) = TotalOf(EntriesIn(ledger, x)) + Signed(credit)
    <3>1. credit.amountMinor \in Nat /\ credit.source[1] \in GatewaySources /\ credit.source[2] = x
      BY <1>3, <1>8, <1>11 DEF RowOf
    <3>2. appendLedgerEntry(ledger, credit) = L /\ RowsAdd(L)
      BY <1>11, <3>1, GatewayRow
    <3>3. TotalOf(EntriesIn(L, x)) = TotalOf(EntriesIn(ledger, x)) + Signed(credit)
      BY <1>11, <3>1, GatewayRow
    <3> QED BY <3>2, <3>3
  <2>2. TotalOf(EntriesIn(ledger, x)) = 0
    BY <1>2, EntriesOfLedger DEF before
  <2>3. CASE fee > 0
    <3>1. ~HasEntry(L, debit.source)
      BY <1>11 DEF HasEntry
    <3> HIDE DEF L
    <3>2. /\ appendLedgerEntry(L, debit) = L \cup {debit} /\ RowsAdd(L \cup {debit})
          /\ TotalOf(EntriesIn(L \cup {debit}, x)) = TotalOf(EntriesIn(L, x)) + Signed(debit)
      <4>1. debit.amountMinor \in Nat
        BY <1>3, <1>4, <1>8
      <4> QED BY <1>11, <2>1, <3>1, <4>1, GatewayRow DEF RowOf
    <3>3. ledger' = L \cup {debit}
      BY <1>7, <2>1, <2>3, <3>2
    <3>4. TotalOf(EntriesIn(ledger', x)) = gross - fee
      BY <1>3, <1>4, <1>8, <2>1, <2>2, <3>2, <3>3
    <3>5. \A e \in ledger' \ ledger : e \in {credit, debit}
      BY <3>3 DEF L
    <3> QED BY <2>3, <3>2, <3>3, <3>4, <3>5 DEF RowsAdd, L
  <2>4. CASE ~(fee > 0)
    <3>1. ledger' = L /\ fee = 0
      BY <1>3, <1>4, <1>7, <2>1, <2>4
    <3>2. debit # credit
      BY <1>11
    <3> QED BY <1>3, <1>8, <2>1, <2>2, <3>1, <3>2 DEF RowsAdd
  <2> QED BY <2>3, <2>4
<1>13. LedgerOK'
  <2>1. ASSUME NEW e \in ledger'
        PROVE  e.tenantId \in Tenants /\ e.amountMinor \in Amounts /\ e.entryType \in RowKinds
    <3>1. CASE e \in ledger
      BY <3>1 DEF GatewayInv, LedgerOK
    <3>2. CASE e \notin ledger
      BY <1>3, <1>5, <1>8, <1>12, <3>2 DEF RowKinds, EarnKinds
    <3> QED BY <3>1, <3>2
  <2> QED BY <1>12, <2>1 DEF LedgerOK, Amounts
<1>14. TxnMoney(x)'
  <2>1. feesReturned(x)' = 0
    BY <1>2, <1>6, FeesReturnedOf
  <2>2. MoneyOK(new, 0, "COMPLETED", gross - fee)
    BY <1>3, <1>4, <1>9 DEF MoneyOK
  <2> QED BY <1>10, <1>12, <2>1, <2>2, EntriesOfLedger DEF TxnMoney
<1>15. KeysFree(x)'
  <2>1. ASSUME NEW e \in ledger'
        PROVE  /\ gw'[x].status # "NONE"
               /\ \A n \in Nat : e.source \in {RefundSource(x, n), RefundFeeSource(x, n)} =>
                                    n <= Len(refunds'[x])
    <3>1. CASE e \in ledger
      BY <1>1, <1>6, <1>9, <1>10, <3>1 DEF KeysFree
    <3>2. CASE e \notin ledger
      <4>1. e.source \in {CollectionSource(x), FeeSource(x)}
        BY <1>8, <1>12, <3>2
      <4> QED BY <1>9, <1>10, <4>1 DEF CollectionSource, FeeSource, RefundSource, RefundFeeSource
    <3> QED BY <3>1, <3>2
  <2> QED BY <2>1 DEF KeysFree, CollectionSource, FeeSource, RefundSource, RefundFeeSource
<1>16. ASSUME NEW y \in Txns \ {x} PROVE TxnMoney(y)' /\ KeysFree(y)'
  <2>1. \A e \in ledger' \ ledger : ~RowOf(e, y)
    BY <1>11, <1>12 DEF RowOf
  <2>2. TxnMoney(y) /\ KeysFree(y)
    BY DEF GatewayInv
  <2> QED BY <1>6, <1>10, <1>12, <2>1, <2>2, TxnKept
<1>17. ASSUME NEW u, NEW kinds \in {EarnKinds, BackKinds, PayKinds}
       PROVE  TotalBy(ledger', u, kinds) = TotalBy(ledger, u, kinds)
                + (IF u = t /\ kinds = EarnKinds THEN gross - fee ELSE 0)
  <2> DEFINE L == ledger \cup {credit}
  <2>1. credit.amountMinor \in Nat /\ debit.amountMinor \in Nat
    BY <1>3, <1>4, <1>8
  <2>2. appendLedgerEntry(ledger, credit) = L /\ RowsAdd(L) /\ ~HasEntry(L, debit.source)
    <3>1. appendLedgerEntry(ledger, credit) = L /\ RowsAdd(L)
      BY <1>11, <2>1, GatewayRow DEF RowOf
    <3> QED BY <1>11, <3>1 DEF HasEntry
  <2>3. TotalBy(L, u, kinds) = TotalBy(ledger, u, kinds)
           + (IF credit.tenantId = u /\ credit.entryType \in kinds THEN Signed(credit) ELSE 0)
    BY <1>11, <2>1, KindRow
  <2> HIDE DEF L
  <2>4. TotalBy(L \cup {debit}, u, kinds) = TotalBy(L, u, kinds)
           + (IF debit.tenantId = u /\ debit.entryType \in kinds THEN Signed(debit) ELSE 0)
    BY <2>1, <2>2, KindRow
  <2>5. credit.entryType \in kinds <=> kinds = EarnKinds
    BY <1>8 DEF EarnKinds, BackKinds, PayKinds
  <2>6. debit.entryType \in kinds <=> kinds = EarnKinds
    BY <1>8 DEF EarnKinds, BackKinds, PayKinds
  <2>7. TotalBy(ledger, u, kinds) \in Int
    BY <1>11, TotalByIsInt
  <2>8. CASE fee > 0
    <3>1. ledger' = L \cup {debit}
      BY <1>7, <2>2, <2>8 DEF appendLedgerEntry
    <3> QED BY <1>3, <1>4, <1>8, <2>3, <2>4, <2>5, <2>6, <2>7, <3>1
  <2>9. CASE ~(fee > 0)
    <3>1. ledger' = L /\ fee = 0
      BY <1>3, <1>4, <1>7, <2>2, <2>9
    <3> QED BY <1>3, <1>8, <2>3, <2>5, <2>7, <3>1
  <2> QED BY <2>8, <2>9
<1>18. CollectionMoves(x, t)
  <2>1. TakenBack(x)' = 0
    BY <1>2, <1>6, <1>9, <1>10, FeesReturnedOf DEF TakenBack
  <2>2. EarnKinds # BackKinds /\ EarnKinds # PayKinds
    BY DEF EarnKinds, BackKinds, PayKinds
  <2>3. \A u : /\ TotalBy(ledger, u, EarnKinds) \in Int /\ TotalBy(ledger, u, PayKinds) \in Int
              /\ TotalBy(ledger, u, BackKinds) \in Int
    BY <1>11, TotalByIsInt
  <2>4. \A u : /\ TotalBy(ledger', u, BackKinds) = TotalBy(ledger, u, BackKinds)
              /\ TotalBy(ledger', u, PayKinds) = TotalBy(ledger, u, PayKinds)
    BY <1>17, <2>2, <2>3
  <2>5. gross - fee >= 0
    BY <1>3, <1>4
  <2>6. \A u : TotalBy(ledger', u, EarnKinds) >= TotalBy(ledger, u, EarnKinds)
    BY <1>3, <1>4, <1>17, <2>3, <2>5
  <2>7. \A u : u # t => TotalBy(ledger', u, EarnKinds) = TotalBy(ledger, u, EarnKinds)
    BY <1>17, <2>3
  <2> QED BY <1>1, <1>6, <1>9, <1>10, <2>1, <2>4, <2>6, <2>7 DEF CollectionMoves
<1> QED BY <1>6, <1>10, <1>13, <1>14, <1>15, <1>16, <1>18 DEF GatewayInv, TablesOK

\* A refund that is paid out keeps what it is.
LEMMA CompletionMoney ==
  ASSUME GatewayInv, NEW x \in Txns, NEW k, completeGatewayRefund(x, k)
  PROVE  GatewayInv' /\ NothingMoves
<1> DEFINE old == refunds[x]
           row == [old[k] EXCEPT !.status = "COMPLETED"]
           new == [old EXCEPT ![k] = row]
<1>1. old \in Seq(RefundRecords) /\ k \in 1..Len(old) /\ UNCHANGED <<ledger, gw, payment>>
  BY DEF GatewayInv, TablesOK, completeGatewayRefund
<1>2. refunds' = [refunds EXCEPT ![x] = new]
  BY DEF completeGatewayRefund
<1>3. old[k] \in RefundRecords
  BY <1>1
<1>4. row \in RefundRecords /\ row.feeReturnedMinor = old[k].feeReturnedMinor
  BY <1>3 DEF RefundRecords
<1> HIDE DEF row
<1>5. /\ new \in Seq(RefundRecords) /\ Len(new) = Len(old)
      /\ \A n \in 1..Len(old) : new[n].feeReturnedMinor = old[n].feeReturnedMinor
  BY <1>1, <1>4
<1>6. FeesOf(new) = FeesOf(old)
  <2> HIDE DEF new, old
  <2> QED BY <1>1, <1>5, FeesSame
<1> HIDE DEF new
<1>7. refunds' \in [Txns -> Seq(RefundRecords)] /\ refunds'[x] = new
      /\ \A y \in Txns \ {x} : refunds'[y] = refunds[y]
  BY <1>2, <1>5 DEF GatewayInv, TablesOK
<1>8. \A y \in Txns : feesReturned(y)' = feesReturned(y) /\ Len(refunds'[y]) = Len(refunds[y])
  BY <1>5, <1>6, <1>7, FeesReturnedOf
<1>9. \A y : EntriesOf(y)' = EntriesOf(y)
  BY <1>1, EntriesOfLedger
<1>10. ASSUME NEW y \in Txns PROVE TxnMoney(y)' /\ KeysFree(y)'
  <2>1. TotalOf(EntriesOf(y))' = TotalOf(EntriesOf(y))
    BY <1>9 DEF TotalOf
  <2>2. TxnMoney(y)'
    BY <1>1, <1>8, <2>1 DEF GatewayInv, TxnMoney
  <2>3. KeysFree(y)'
    BY <1>1, <1>8 DEF GatewayInv, KeysFree, CollectionSource, FeeSource, RefundSource, RefundFeeSource
  <2> QED BY <2>2, <2>3
<1> QED BY <1>1, <1>7, <1>8, <1>10 DEF GatewayInv, NothingMoves, TablesOK, LedgerOK, Amounts

\* Every step keeps the invariant and moves the tenants' totals in one of three ways.
LEMMA GatewayMoves ==
  ASSUME GatewayInv, NEW x \in Txns, RefundStep(x) \/ UnlockedStep(x)
  PROVE  /\ GatewayInv'
         /\ RefundMoves(x) \/ NothingMoves \/ \E t \in Tenants : CollectionMoves(x, t)
<1> DEFINE Moves == GatewayInv' /\ (RefundMoves(x) \/ NothingMoves \/ \E t \in Tenants : CollectionMoves(x, t))
<1>1. payment \in [Txns -> {"NONE", "COMPLETED", "REVERSED"}]
  BY DEF GatewayInv, TablesOK
<1>2. ASSUME NEW amount \in RefundAmounts, recordRefund(x, amount) PROVE Moves
  BY <1>1, <1>2, RefundMoney DEF recordRefund
<1>3. ASSUME NEW returned \in BOOLEAN, recordReversal(x, returned) PROVE Moves
  BY <1>1, <1>3, RefundMoney DEF recordReversal
<1>4. ASSUME reversePayment(x) PROVE Moves
  <2>1. payment' = [payment EXCEPT ![x] = "REVERSED"] /\ payment[x] = "COMPLETED"
    BY <1>4 DEF reversePayment
  <2>2. CASE Open(x)
    BY <1>1, <1>4, <2>1, <2>2, RefundMoney DEF reversePayment
  <2>3. CASE ~Open(x)
    <3>1. UNCHANGED <<ledger, gw, refunds>>
      BY <1>4, <2>3 DEF reversePayment
    <3>2. \A y \in Txns : EntriesOf(y)' = EntriesOf(y) /\ feesReturned(y)' = feesReturned(y)
      BY <3>1, EntriesOfLedger, FeesReturnedOf
    <3>3. ASSUME NEW y \in Txns PROVE TxnMoney(y)' /\ KeysFree(y)'
      <4>1. TxnMoney(y) /\ KeysFree(y) /\ gw[y] \in TxnRecords
        BY DEF GatewayInv, TablesOK
      <4>2. TotalOf(EntriesOf(y))' = TotalOf(EntriesOf(y))
        BY <3>2 DEF TotalOf
      <4>3. payment'[y] = "REVERSED" => gw[y].status \in {"REVERSED", "REFUNDED"}
        <5>1. CASE y = x
          <6>1. gw[x].status # "NONE"
            BY <2>1, <4>1, <5>1 DEF TxnMoney, MoneyOK
          <6> QED BY <2>3, <4>1, <5>1, <6>1 DEF Open, TxnRecords
        <5>2. CASE y # x
          BY <1>1, <2>1, <4>1, <5>2 DEF TxnMoney, MoneyOK
        <5> QED BY <5>1, <5>2
      <4>4. gw[y].status = "NONE" => payment'[y] = "NONE"
        BY <1>1, <2>1, <4>1 DEF TxnMoney, MoneyOK
      <4>5. TxnMoney(y)'
        BY <3>1, <3>2, <4>1, <4>2, <4>3, <4>4 DEF TxnMoney, MoneyOK
      <4>6. KeysFree(y)'
        BY <3>1, <4>1 DEF KeysFree, CollectionSource, FeeSource, RefundSource, RefundFeeSource
      <4> QED BY <4>5, <4>6
    <3>4. TablesOK' /\ LedgerOK'
      BY <1>1, <2>1, <3>1 DEF GatewayInv, TablesOK, LedgerOK, Amounts
    <3> QED BY <3>1, <3>2, <3>3, <3>4 DEF GatewayInv, NothingMoves
  <2> QED BY <2>2, <2>3
<1>5. ASSUME NEW t \in Tenants, NEW gross \in Grosses, recordPlatformCollection(x, t, gross)
      PROVE  Moves
  BY <1>5, CollectionMoney
<1>6. ASSUME NEW k \in 1..MaxRefunds, completeGatewayRefund(x, k) PROVE Moves
  BY <1>6, CompletionMoney
<1> QED BY <1>2, <1>3, <1>4, <1>5, <1>6 DEF RefundStep, UnlockedStep

LEMMA GatewayInvStep == GatewayInv /\ GatewayNext => GatewayInv'
  BY GatewayMoves DEF GatewayNext

LEMMA GatewayInvStutter == GatewayInv /\ UNCHANGED gatewayVars => GatewayInv'
<1> SUFFICES ASSUME GatewayInv, UNCHANGED <<ledger, gw, refunds, payment>> PROVE GatewayInv'
  BY DEF gatewayVars
<1>1. ASSUME NEW y \in Txns PROVE TxnMoney(y)' /\ KeysFree(y)'
  BY TxnKept DEF GatewayInv
<1> QED BY <1>1 DEF GatewayInv, TablesOK, LedgerOK, Amounts

-------------------------------------------------------------------------------

THEOREM GatewayInvariant == GatewaySpec => []GatewayInv
<1>1. GatewayInv /\ [GatewayNext]_gatewayVars => GatewayInv'
  BY GatewayInvStep, GatewayInvStutter
<1> QED BY <1>1, GatewayInvInit, PTL DEF GatewaySpec

\* Whatever partial refunds and reversals come, in whatever order and amounts and under any
\* fee rule, a fully refunded transaction leaves nothing on the tenant's ledger and no more
\* fee is returned than was taken (fees.ts, refund.service.ts).
THEOREM RefundsUnwind == GatewaySpec => []RefundsUnwindExactly
  BY GatewayInvariant, GatewayInvSuffices, PTL

\* A payment reversed by the tenant or by a super admin is never left on the tenant's
\* ledger: reconciliation's REVERSED_PAYMENT_STILL_CREDITED has nothing to report.
THEOREM ReversedNotCredited == GatewaySpec => []ReversedPaymentNotCredited
  BY GatewayInvariant, GatewayInvSuffices, PTL

\* The gateway's tables satisfy their CHECK constraints, and a ledger row's amount is one
\* the 32-bit column holds, whatever is refunded.
THEOREM GatewayTypes == GatewaySpec => []GatewayTypeOK
  BY GatewayInvariant, GatewayInvTypes, PTL
===============================================================================
