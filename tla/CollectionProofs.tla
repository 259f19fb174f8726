--------------------------- MODULE CollectionProofs ---------------------------
(***************************************************************************)
(* Proofs about four ways a customer's money comes in (an agent's round is *)
(* one), for every set of prompts, transfers, references, ISPs, workers,   *)
(* bills, vouchers and requests, and about the types of all five modules   *)
(* side by side.                                                           *)
(***************************************************************************)
EXTENDS MCCollections, GatewayLedgerProofs

-------------------------------------------------------------------------------
(* StkRequest: a push, its payment and its collection agree, and it is recorded once. *)

\* What a worker has read still holds when it is used: a row that is to be inserted is not
\* there and no other worker inserts it; a result that says "paid" is of a customer who paid.
WorkerInv ==
    /\ \A w \in StkWorkers :
         LET me == stkWorker[w] IN
         /\ me.pc \in {"insert", "complete"} => me.push \in Pushes
         /\ me.pc = "insert" => prompt[me.push] # "none" /\ stk[me.push].status = "NONE"
         /\ me.pc = "complete" =>
              /\ stk[me.push].status # "NONE" /\ me.code \in Codes
              /\ me.code = "ok" => prompt[me.push] = "paid" /\ me.receipt \in {"PRV", "REAL"}
    /\ \A v, w \in StkWorkers :
         v # w /\ stkWorker[v].pc = "insert" /\ stkWorker[w].pc = "insert"
             => stkWorker[v].push # stkWorker[w].push

\* A row is there only after its prompt was sent, only a completed one has a receipt, and
\* a callback that says "paid" is of a customer who paid.
RowInv ==
    /\ \A p \in Pushes :
         /\ prompt[p] = "none" => stk[p].status = "NONE"
         /\ stk[p].status # "COMPLETED" => stk[p].receipt = "none"
         /\ <<p, "ok">> \in journal => prompt[p] = "paid"

StkInv == StkTypeOK /\ RecordsAgree /\ RowInv /\ WorkerInv

LEMMA NoRowIsRow ==
    /\ NoRow \in StkRows /\ NoRow.status = "NONE" /\ NoRow.receipt = "none" /\ NoRow.by = "OWN"
    /\ OldFailure \in StkRows /\ OldFailure.status = "FAILED" /\ OldFailure.receipt = "none"
    /\ OldFailure.by = "OWN"
  BY DEF NoRow, OldFailure, StkRows, Codes, StkReceipts

LEMMA InitStk == StkInit => StkInv
<1> SUFFICES ASSUME StkInit PROVE StkInv
  OBVIOUS
<1>1. PICK old \in SUBSET OldFailures :
         /\ prompt = [p \in Pushes |-> IF p \in old THEN "waiting" ELSE "none"]
         /\ stk = [p \in Pushes |-> IF p \in old THEN OldFailure ELSE NoRow]
  BY DEF StkInit
<1>2. \A p \in Pushes : \/ stk[p] = OldFailure /\ prompt[p] = "waiting"
                        \/ stk[p] = NoRow /\ prompt[p] = "none"
  BY <1>1
<1>3. \A w \in StkWorkers : stkWorker[w] = StkIdle
  BY DEF StkInit
<1>4. StkTypeOK
  BY <1>1, NoRowIsRow DEF StkInit, StkTypeOK, StkJobs, StkIdle, StkReceipts, Codes
<1>5. RecordsAgree
  BY <1>2, NoRowIsRow DEF StkInit, RecordsAgree
<1>6. RowInv
  BY <1>2, NoRowIsRow DEF StkInit, RowInv
<1>7. WorkerInv
  BY <1>3 DEF WorkerInv, StkIdle
<1> QED  BY <1>4, <1>5, <1>6, <1>7 DEF StkInv

-------------------------------------------------------------------------------
(* One lemma for each action. *)

LEMMA AnswersInv == ASSUME StkInv, NEW p \in Pushes, customerAnswers(p) PROVE StkInv'
<1>1. StkTypeOK'
  BY DEF StkInv, StkTypeOK, customerAnswers
<1>2. /\ \A q \in Pushes : prompt'[q] = prompt[q] \/ (prompt[q] = "waiting" /\ prompt'[q] # "none")
      /\ UNCHANGED <<stk, paidUnder, reference, collected, gatewayRef, journal, stkWorker>>
  BY DEF StkInv, StkTypeOK, customerAnswers
<1>3. RecordsAgree' /\ RowInv'
  BY <1>2 DEF StkInv, RecordsAgree, RowInv
<1>4. WorkerInv'
  BY <1>2 DEF StkInv, WorkerInv
<1> QED  BY <1>1, <1>3, <1>4 DEF StkInv

\* A worker that goes idle or takes up a push it may take up disturbs no other.
LEMMA WorkerMoves ==
  ASSUME StkInv, NEW w \in StkWorkers, NEW me, stkWorker' = [stkWorker EXCEPT ![w] = me],
         me \in StkJobs,
         me.pc \in {"idle", "complete"},
         me.pc # "idle" => me.push \in Pushes,
         me.pc = "complete" => stk[me.push].status # "NONE" /\ me.code \in Codes
                               /\ (me.code = "ok" => prompt[me.push] = "paid" /\ me.receipt \in {"PRV", "REAL"}),
         UNCHANGED prompt,
         \A p \in Pushes : (stk'[p].status = "NONE") = (stk[p].status = "NONE")
  PROVE  WorkerInv' /\ stkWorker' \in [StkWorkers -> StkJobs]
<1>1. /\ stkWorker'[w] = me
      /\ \A v \in StkWorkers \ {w} : stkWorker'[v] = stkWorker[v]
  BY DEF StkInv, StkTypeOK
<1>2. ASSUME NEW v \in StkWorkers
      PROVE  LET it == stkWorker'[v] IN
             /\ it.pc \in {"insert", "complete"} => it.push \in Pushes
             /\ it.pc = "insert" => prompt'[it.push] # "none" /\ stk'[it.push].status = "NONE"
             /\ it.pc = "complete" =>
                  /\ stk'[it.push].status # "NONE" /\ it.code \in Codes
                  /\ it.code = "ok" => prompt'[it.push] = "paid" /\ it.receipt \in {"PRV", "REAL"}
  <2>1. CASE v = w
    BY <1>1, <2>1
  <2>2. CASE v # w
    BY <1>1, <2>2 DEF StkInv, WorkerInv
  <2> QED  BY <2>1, <2>2
<1>3. ASSUME NEW u \in StkWorkers, NEW v \in StkWorkers, u # v,
             stkWorker'[u].pc = "insert", stkWorker'[v].pc = "insert"
      PROVE  stkWorker'[u].push # stkWorker'[v].push
  BY <1>1, <1>3 DEF StkInv, WorkerInv
<1>4. WorkerInv'
  BY <1>2, <1>3 DEF WorkerInv
<1> QED  BY <1>4 DEF StkInv, StkTypeOK

LEMMA IdleIsJob == StkIdle \in StkJobs /\ StkIdle.pc = "idle"
  BY DEF StkIdle, StkJobs, StkReceipts, Codes

LEMMA InitiateInv ==
  ASSUME StkInv, NEW p \in Pushes, NEW w \in StkWorkers, initiateStkPush(w, p) PROVE StkInv'
<1>1. PICK by \in {"OWN", "PLATFORM"} :
         stkWorker' = [stkWorker EXCEPT ![w] = [StkIdle EXCEPT !.pc = "insert", !.push = p, !.by = by]]
  BY DEF initiateStkPush
<1> DEFINE me == [StkIdle EXCEPT !.pc = "insert", !.push = p, !.by = by]
<1>2. me \in StkJobs /\ me.pc = "insert" /\ me.push = p
  BY DEF StkIdle, StkJobs, StkReceipts, Codes
<1> HIDE DEF me
<1>3. stkWorker'[w] = me /\ \A v \in StkWorkers \ {w} : stkWorker'[v] = stkWorker[v]
  BY <1>1 DEF me, StkInv, StkTypeOK
<1>4. /\ prompt[p] = "none" /\ prompt'[p] = "waiting" /\ \A q \in Pushes \ {p} : prompt'[q] = prompt[q]
      /\ UNCHANGED <<stk, paidUnder, reference, collected, gatewayRef, journal, aged>>
      /\ stk[p].status = "NONE"
  BY DEF StkInv, StkTypeOK, RowInv, initiateStkPush
<1>5. StkTypeOK'
  BY <1>1, <1>2 DEF me, StkInv, StkTypeOK, initiateStkPush
<1>6. RecordsAgree' /\ RowInv'
  BY <1>4 DEF StkInv, RecordsAgree, RowInv
<1>7. \A v \in StkWorkers \ {w} : stkWorker[v].pc = "insert" => stkWorker[v].push # p
  BY <1>4 DEF StkInv, WorkerInv
<1>8. WorkerInv'
  BY <1>2, <1>3, <1>4, <1>7 DEF StkInv, WorkerInv
<1> QED  BY <1>5, <1>6, <1>8 DEF StkInv

LEMMA CreateInv == ASSUME StkInv, NEW w \in StkWorkers, createStkRequest(w) PROVE StkInv'
<1> DEFINE p == stkWorker[w].push
           row == [NoRow EXCEPT !.status = "PENDING", !.by = stkWorker[w].by]
<1>1. /\ p \in Pushes /\ prompt[p] # "none" /\ stk[p].status = "NONE" /\ stk[p].receipt = "none"
      /\ \A v \in StkWorkers \ {w} : stkWorker[v].pc = "insert" => stkWorker[v].push # p
  BY DEF StkInv, RowInv, WorkerInv, createStkRequest
<1>2. /\ row \in StkRows /\ row.status = "PENDING" /\ row.receipt = "none"
  BY DEF StkInv, StkTypeOK, StkJobs, NoRow, StkRows, StkReceipts, Codes
<1>3. stk' = [stk EXCEPT ![p] = row] /\ stkWorker' = [stkWorker EXCEPT ![w] = StkIdle]
      /\ UNCHANGED <<prompt, paidUnder, reference, collected, gatewayRef, journal, aged>>
  BY DEF createStkRequest
<1> HIDE DEF p, row
<1>4. stk'[p] = row /\ \A q \in Pushes \ {p} : stk'[q] = stk[q]
  BY <1>1, <1>3 DEF StkInv, StkTypeOK
<1>5. stkWorker'[w] = StkIdle /\ \A v \in StkWorkers \ {w} : stkWorker'[v] = stkWorker[v]
  BY <1>3 DEF StkInv, StkTypeOK
<1>6. StkTypeOK'
  BY <1>2, <1>3, IdleIsJob DEF StkInv, StkTypeOK
<1>7. paidUnder[p] = {} /\ collected[p] = {} /\ reference[p] = "none" /\ gatewayRef[p] = "none"
  BY <1>1 DEF StkInv, RecordsAgree
<1>8. RecordsAgree'
  <2> SUFFICES ASSUME NEW q \in Pushes
               PROVE  /\ (stk'[q].status = "COMPLETED") = (paidUnder'[q] # {})
                      /\ reference'[q] = stk'[q].receipt
                      /\ collected'[q] = IF stk'[q].by = "PLATFORM" THEN paidUnder'[q] ELSE {}
                      /\ gatewayRef'[q] = IF stk'[q].by = "PLATFORM" THEN stk'[q].receipt ELSE "none"
    BY DEF RecordsAgree
  <2>1. CASE q = p
    BY <1>2, <1>3, <1>4, <1>7, <2>1
  <2>2. CASE q # p
    BY <1>3, <1>4, <2>2 DEF StkInv, RecordsAgree
  <2> QED  BY <2>1, <2>2
<1>9. RowInv'
  BY <1>1, <1>2, <1>3, <1>4 DEF StkInv, RowInv
<1>10. WorkerInv'
  <2>1. ASSUME NEW v \in StkWorkers
        PROVE  LET it == stkWorker'[v] IN
               /\ it.pc \in {"insert", "complete"} => it.push \in Pushes
               /\ it.pc = "insert" => prompt'[it.push] # "none" /\ stk'[it.push].status = "NONE"
               /\ it.pc = "complete" =>
                    /\ stk'[it.push].status # "NONE" /\ it.code \in Codes
                    /\ it.code = "ok" => prompt'[it.push] = "paid" /\ it.receipt \in {"PRV", "REAL"}
    <3>1. CASE v = w
      BY <1>5, <3>1, IdleIsJob
    <3>2. CASE v # w
      BY <1>1, <1>2, <1>3, <1>4, <1>5, <3>2 DEF StkInv, WorkerInv
    <3> QED  BY <3>1, <3>2
  <2>2. ASSUME NEW u \in StkWorkers, NEW v \in StkWorkers, u # v,
               stkWorker'[u].pc = "insert", stkWorker'[v].pc = "insert"
        PROVE  stkWorker'[u].push # stkWorker'[v].push
    BY <1>5, <2>2, IdleIsJob DEF StkInv, WorkerInv
  <2> QED  BY <2>1, <2>2 DEF WorkerInv
<1> QED  BY <1>6, <1>8, <1>9, <1>10 DEF StkInv

LEMMA StkCrashInv == ASSUME StkInv, NEW w \in StkWorkers, stkCrash(w) PROVE StkInv'
<1>1. WorkerInv' /\ stkWorker' \in [StkWorkers -> StkJobs]
  BY WorkerMoves, IdleIsJob DEF stkCrash
<1> QED  BY <1>1 DEF StkInv, StkTypeOK, RecordsAgree, RowInv, stkCrash

LEMMA AgesInv == ASSUME StkInv, NEW p \in Pushes, requestAges(p) PROVE StkInv'
<1>1. /\ aged' \subseteq Pushes
      /\ UNCHANGED <<prompt, stk, paidUnder, reference, collected, gatewayRef, journal, stkWorker>>
  BY DEF requestAges, StkInv, StkTypeOK
<1> QED  BY <1>1 DEF StkInv, StkTypeOK, RecordsAgree, RowInv, WorkerInv

\* A worker takes up a result: nothing else changes but what is stored of callbacks.
LEMMA ResolvesInv ==
  ASSUME StkInv, NEW w \in StkWorkers, NEW p \in Pushes, NEW code \in Codes, NEW receipt \in StkReceipts,
         Resolves(w, p, code, receipt),
         stk[p].status # "NONE", code = "ok" => prompt[p] = "paid" /\ receipt \in {"PRV", "REAL"},
         journal' \in {journal, journal \cup {<<p, code>>}},
         UNCHANGED <<prompt, stk, paidUnder, reference, collected, gatewayRef, aged>>
  PROVE  StkInv'
<1> DEFINE me == [StkIdle EXCEPT !.pc = "complete", !.push = p, !.code = code, !.receipt = receipt]
<1>1. /\ me \in StkJobs /\ me.pc = "complete" /\ me.push = p /\ me.code = code /\ me.receipt = receipt
  BY DEF StkIdle, StkJobs, StkReceipts, Codes
<1>2. stkWorker' = [stkWorker EXCEPT ![w] = me]
  BY DEF Resolves
<1> HIDE DEF me
<1>3. WorkerInv' /\ stkWorker' \in [StkWorkers -> StkJobs]
  BY <1>1, <1>2, WorkerMoves
<1>4. StkTypeOK'
  BY <1>3 DEF StkInv, StkTypeOK
<1>5. RecordsAgree' /\ RowInv'
  BY DEF StkInv, RecordsAgree, RowInv
<1> QED  BY <1>3, <1>4, <1>5 DEF StkInv

LEMMA CallbackInv ==
  ASSUME StkInv, NEW w \in StkWorkers, NEW p \in Pushes, handleStkCallback(w, p) PROVE StkInv'
<1>1. PICK code \in ResultOf(p) :
         /\ journal' \in {journal, journal \cup {<<p, code>>}}
         /\ IF stk[p].status = "NONE"
            THEN UNCHANGED stkWorker
            ELSE Resolves(w, p, code, IF code = "ok" THEN "REAL" ELSE "none")
  BY DEF handleStkCallback
<1>2. code \in Codes /\ (code = "ok" => prompt[p] = "paid")
      /\ UNCHANGED <<prompt, stk, paidUnder, reference, collected, gatewayRef, aged>>
  BY DEF ResultOf, Codes, handleStkCallback
<1>3. CASE stk[p].status = "NONE"
  BY <1>1, <1>2, <1>3 DEF StkInv, StkTypeOK, RecordsAgree, RowInv, WorkerInv
<1>4. CASE stk[p].status # "NONE"
  <2>1. (IF code = "ok" THEN "REAL" ELSE "none") \in StkReceipts
    BY DEF StkReceipts
  <2> QED  BY <1>1, <1>2, <1>4, <2>1, ResolvesInv
<1> QED  BY <1>3, <1>4

LEMMA QueryInv ==
  ASSUME StkInv, NEW w \in StkWorkers, NEW p \in Pushes, queryAndReconcileStkRequest(w, p) PROVE StkInv'
<1>1. PICK code \in ResultOf(p) : Resolves(w, p, code, IF code = "ok" THEN "PRV" ELSE "none")
  BY DEF queryAndReconcileStkRequest
<1>2. /\ code \in Codes /\ (code = "ok" => prompt[p] = "paid") /\ stk[p].status # "NONE"
      /\ UNCHANGED <<prompt, stk, paidUnder, reference, collected, gatewayRef, journal, aged>>
      /\ (IF code = "ok" THEN "PRV" ELSE "none") \in StkReceipts
  BY DEF ResultOf, Codes, StkReceipts, queryAndReconcileStkRequest, isStkRequestOpen
<1> QED  BY <1>1, <1>2, ResolvesInv

LEMMA ReplayInv ==
  ASSUME StkInv, NEW w \in StkWorkers, NEW p \in Pushes, replayStrandedStkCallbacks(w, p) PROVE StkInv'
<1>1. /\ prompt[p] = "paid" /\ stk[p].status # "NONE" /\ "ok" \in Codes /\ "REAL" \in StkReceipts
      /\ Resolves(w, p, "ok", "REAL")
      /\ UNCHANGED <<prompt, stk, paidUnder, reference, collected, gatewayRef, journal, aged>>
  BY DEF StkInv, RowInv, Codes, StkReceipts, replayStrandedStkCallbacks, Stranded
<1> QED  BY <1>1, ResolvesInv

\* One row changes, to one that is still there: what remains to be shown is that this row
\* agrees with its payment and its collection.
LEMMA RowChanges ==
  ASSUME StkInv, NEW p \in Pushes, NEW row \in StkRows, stk' = [stk EXCEPT ![p] = row],
         stk[p].status # "NONE", row.status # "NONE", row.status # "COMPLETED" => row.receipt = "none",
         UNCHANGED <<prompt, journal, aged>>, stkWorker' \in [StkWorkers -> StkJobs], WorkerInv',
         NEW keys \in SUBSET {"PRV", "REAL"}, NEW owedKeys \in SUBSET {"PRV", "REAL"}, NEW ref \in StkReceipts,
         paidUnder' = [paidUnder EXCEPT ![p] = keys], reference' = [reference EXCEPT ![p] = row.receipt],
         collected' = [collected EXCEPT ![p] = owedKeys], gatewayRef' = [gatewayRef EXCEPT ![p] = ref],
         (row.status = "COMPLETED") = (keys # {}),
         owedKeys = IF row.by = "PLATFORM" THEN keys ELSE {},
         ref = IF row.by = "PLATFORM" THEN row.receipt ELSE "none"
  PROVE  StkInv'
<1>1. stk'[p] = row /\ \A q \in Pushes \ {p} : stk'[q] = stk[q]
  BY DEF StkInv, StkTypeOK
<1>2. row.receipt \in StkReceipts
  BY DEF StkRows
<1>3. StkTypeOK'
  BY <1>2 DEF StkInv, StkTypeOK
<1>4. RecordsAgree'
  <2> SUFFICES ASSUME NEW q \in Pushes
               PROVE  /\ (stk'[q].status = "COMPLETED") = (paidUnder'[q] # {})
                      /\ reference'[q] = stk'[q].receipt
                      /\ collected'[q] = IF stk'[q].by = "PLATFORM" THEN paidUnder'[q] ELSE {}
                      /\ gatewayRef'[q] = IF stk'[q].by = "PLATFORM" THEN stk'[q].receipt ELSE "none"
    BY DEF RecordsAgree
  <2>1. CASE q = p
    BY <1>1, <2>1 DEF StkInv, StkTypeOK
  <2>2. CASE q # p
    BY <1>1, <2>2 DEF StkInv, StkTypeOK, RecordsAgree
  <2> QED  BY <2>1, <2>2
<1>5. RowInv'
  BY <1>1 DEF StkInv, RowInv
<1> QED  BY <1>3, <1>4, <1>5 DEF StkInv

\* Of a request that is not completed nothing is recorded.
LEMMA NotCompleted ==
  ASSUME StkInv, NEW p \in Pushes, stk[p].status # "COMPLETED"
  PROVE  /\ paidUnder[p] = {} /\ collected[p] = {} /\ gatewayRef[p] = "none" /\ reference[p] = "none"
         /\ stk[p].receipt = "none"
<1>1. stk[p].receipt = "none"
  BY DEF StkInv, RowInv
<1>2. paidUnder[p] = {}
  BY DEF StkInv, RecordsAgree
<1>3. /\ reference[p] = stk[p].receipt
      /\ collected[p] = IF stk[p].by = "PLATFORM" THEN paidUnder[p] ELSE {}
      /\ gatewayRef[p] = IF stk[p].by = "PLATFORM" THEN stk[p].receipt ELSE "none"
  BY DEF StkInv, RecordsAgree
<1> QED  BY <1>1, <1>2, <1>3

LEMMA CompleteInv == ASSUME StkInv, NEW w \in StkWorkers, completeStkRequest(w) PROVE StkInv'
<1> DEFINE me == stkWorker[w]
           p == me.push
<1>1. /\ me.pc = "complete" /\ p \in Pushes /\ stk[p].status # "NONE" /\ me.code \in Codes
      /\ me.code = "ok" => prompt[p] = "paid" /\ me.receipt \in {"PRV", "REAL"}
      /\ me \in StkJobs /\ stk[p] \in StkRows
  BY DEF StkInv, StkTypeOK, WorkerInv, completeStkRequest
<1>2. StkIdle \in StkJobs /\ StkIdle.pc = "idle"
  BY IdleIsJob
<1>3. stkWorker' = [stkWorker EXCEPT ![w] = StkIdle] /\ UNCHANGED <<prompt, journal, aged>>
  BY DEF completeStkRequest
<1>4. ASSUME NEW row, stk' = [stk EXCEPT ![p] = row], row.status # "NONE"
      PROVE  WorkerInv' /\ stkWorker' \in [StkWorkers -> StkJobs]
  <2>1. \A q \in Pushes : (stk'[q].status = "NONE") = (stk[q].status = "NONE")
    BY <1>1, <1>4 DEF StkInv, StkTypeOK
  <2> QED  BY <1>2, <1>3, <2>1, WorkerMoves
<1>5. CASE /\ applies(me, stk[p]) /\ me.code = "ok"
           /\ recordPurchase(p, me.receipt)
           /\ stk' = [stk EXCEPT ![p] = Closed(me, stk[p], me.receipt)]
  <2> DEFINE row == Closed(me, stk[p], me.receipt)
             owedKeys == IF stk[p].by = "PLATFORM" THEN {me.receipt} ELSE {}
             ref == IF stk[p].by = "PLATFORM" THEN me.receipt ELSE "none"
  <2>1. /\ row \in StkRows /\ row.status = "COMPLETED" /\ row.receipt = me.receipt /\ row.by = stk[p].by
    BY <1>1, <1>5 DEF Closed, StkRows, StkReceipts, Codes
  <2>2. stk[p].status # "COMPLETED"
    BY <1>5 DEF applies, isStkRequestOpen, paidAfterAll
  <2>3. paidUnder[p] = {} /\ collected[p] = {} /\ gatewayRef[p] = "none"
    BY <1>1, <2>2, NotCompleted
  <2>4. /\ paidUnder' = [paidUnder EXCEPT ![p] = {me.receipt}]
        /\ reference' = [reference EXCEPT ![p] = me.receipt]
        /\ collected' = [collected EXCEPT ![p] = owedKeys]
        /\ gatewayRef' = [gatewayRef EXCEPT ![p] = ref]
    <3>1. paidUnder' = [paidUnder EXCEPT ![p] = {me.receipt}] /\ reference' = [reference EXCEPT ![p] = me.receipt]
      BY <1>1, <1>5, <2>3 DEF recordPurchase, StkInv, StkTypeOK
    <3>2. CASE stk[p].by = "PLATFORM"
      BY <1>1, <1>5, <2>3, <3>1, <3>2 DEF recordPurchase, StkInv, StkTypeOK
    <3>3. CASE stk[p].by # "PLATFORM"
      <4>1. UNCHANGED <<collected, gatewayRef>> /\ collected[p] = owedKeys /\ gatewayRef[p] = ref
        BY <1>5, <2>3, <3>3 DEF recordPurchase
      <4> QED  BY <1>1, <3>1, <4>1 DEF StkInv, StkTypeOK
    <3> QED  BY <3>2, <3>3
  <2>5. /\ {me.receipt} \in SUBSET {"PRV", "REAL"} /\ owedKeys \in SUBSET {"PRV", "REAL"}
        /\ ref \in StkReceipts
    BY <1>1, <1>5 DEF StkReceipts
  <2>6. WorkerInv' /\ stkWorker' \in [StkWorkers -> StkJobs]
    BY <1>4, <1>5, <2>1
  <2>7. owedKeys = (IF row.by = "PLATFORM" THEN {me.receipt} ELSE {})
        /\ ref = (IF row.by = "PLATFORM" THEN row.receipt ELSE "none")
    BY <2>1
  <2> HIDE DEF row, owedKeys, ref
  <2> QED  BY <1>1, <1>3, <1>5, <2>1, <2>4, <2>5, <2>6, <2>7, RowChanges DEF row
<1>6. CASE /\ applies(me, stk[p]) /\ me.code # "ok"
           /\ stk' = [stk EXCEPT ![p].status = IF me.code = "cancelled" THEN "CANCELLED" ELSE "FAILED",
                                 ![p].code = me.code]
           /\ UNCHANGED <<paidUnder, reference, collected, gatewayRef>>
  <2> DEFINE row == [stk[p] EXCEPT !.status = IF me.code = "cancelled" THEN "CANCELLED" ELSE "FAILED",
                                   !.code = me.code]
  <2>1. /\ row \in StkRows /\ row.status \in {"CANCELLED", "FAILED"} /\ row.receipt = stk[p].receipt
        /\ row.by = stk[p].by
    BY <1>1 DEF StkRows, Codes
  <2>2. stk[p].status # "COMPLETED"
    BY <1>6 DEF applies, isStkRequestOpen, paidAfterAll
  <2>3. /\ paidUnder[p] = {} /\ collected[p] = {} /\ gatewayRef[p] = "none" /\ reference[p] = "none"
        /\ stk[p].receipt = "none"
    BY <1>1, <2>2, NotCompleted
  <2>4. stk' = [stk EXCEPT ![p] = row]
    BY <1>1, <1>6 DEF StkInv, StkTypeOK, StkRows
  <2> HIDE DEF row
  <2>5. /\ paidUnder' = [paidUnder EXCEPT ![p] = {}] /\ collected' = [collected EXCEPT ![p] = {}]
        /\ reference' = [reference EXCEPT ![p] = row.receipt]
        /\ gatewayRef' = [gatewayRef EXCEPT ![p] = "none"]
    BY <1>1, <1>6, <2>1, <2>3 DEF StkInv, StkTypeOK
  <2>6. WorkerInv' /\ stkWorker' \in [StkWorkers -> StkJobs]
    BY <1>4, <2>1, <2>4
  <2>7. {} \in SUBSET {"PRV", "REAL"} /\ "none" \in StkReceipts
    BY DEF StkReceipts
  <2> QED  BY <1>1, <1>3, <2>1, <2>3, <2>4, <2>5, <2>6, <2>7, RowChanges
<1>7. CASE upgradeReceipt(p) /\ stk[p].status = "COMPLETED" /\ stk[p].receipt = "PRV"
  <2> DEFINE row == [stk[p] EXCEPT !.receipt = "REAL"]
             ref == IF stk[p].by = "PLATFORM" THEN "REAL" ELSE "none"
  <2>1. row \in StkRows /\ row.status = "COMPLETED" /\ row.receipt = "REAL" /\ row.by = stk[p].by
    BY <1>1, <1>7 DEF StkRows, StkReceipts
  <2>2. stk' = [stk EXCEPT ![p] = row]
    BY <1>7 DEF upgradeReceipt
  <2>3. /\ paidUnder[p] # {} /\ gatewayRef[p] = IF stk[p].by = "PLATFORM" THEN "PRV" ELSE "none"
        /\ collected[p] = IF stk[p].by = "PLATFORM" THEN paidUnder[p] ELSE {}
        /\ paidUnder[p] \in SUBSET {"PRV", "REAL"} /\ collected[p] \in SUBSET {"PRV", "REAL"}
    BY <1>1, <1>7 DEF StkInv, StkTypeOK, RecordsAgree
  <2>4. /\ paidUnder' = [paidUnder EXCEPT ![p] = paidUnder[p]]
        /\ reference' = [reference EXCEPT ![p] = "REAL"]
        /\ collected' = [collected EXCEPT ![p] = collected[p]]
        /\ gatewayRef' = [gatewayRef EXCEPT ![p] = ref]
    BY <1>1, <1>7, <2>3 DEF upgradeReceipt, StkInv, StkTypeOK
  <2>5. WorkerInv' /\ stkWorker' \in [StkWorkers -> StkJobs]
    BY <1>4, <2>1, <2>2
  <2>6. ref \in StkReceipts /\ ref = IF row.by = "PLATFORM" THEN row.receipt ELSE "none"
    BY <2>1 DEF StkReceipts
  <2> HIDE DEF row, ref
  <2> QED  BY <1>1, <1>3, <2>1, <2>2, <2>3, <2>4, <2>5, <2>6, RowChanges
<1>8. CASE UnchangedRecords
  <2>1. WorkerInv' /\ stkWorker' \in [StkWorkers -> StkJobs]
    BY <1>2, <1>3, <1>8, WorkerMoves DEF UnchangedRecords
  <2> QED  BY <1>3, <1>8, <2>1 DEF UnchangedRecords, StkInv, StkTypeOK, RecordsAgree, RowInv
<1> QED  BY <1>5, <1>6, <1>7, <1>8 DEF completeStkRequest

LEMMA StkInductive == StkSpec => []StkInv
<1>1. StkInv /\ [StkNext]_stkVars => StkInv'
  <2> SUFFICES ASSUME StkInv, [StkNext]_stkVars PROVE StkInv'
    OBVIOUS
  <2>1. CASE UNCHANGED stkVars
    BY <2>1 DEF stkVars, StkInv, StkTypeOK, RecordsAgree, RowInv, WorkerInv
  <2>2. CASE StkNext
    BY <2>2, AnswersInv, InitiateInv, CreateInv, CallbackInv, QueryInv, ReplayInv, CompleteInv,
       AgesInv, StkCrashInv DEF StkNext
  <2> QED  BY <2>1, <2>2
<1> QED  BY <1>1, InitStk, PTL DEF StkSpec

\* The tables and what workers hold keep their values (schema of mpesa_stk_requests).
THEOREM StkTyped == StkSpec => []StkTypeOK
  BY StkInductive, PTL DEF StkInv

\* A request, its payment, its payment reference and what the ISP is owed agree after every
\* callback, query and replay (completeStkRequest).
THEOREM PushRecordsAgree == StkSpec => []RecordsAgree
  BY StkInductive, PTL DEF StkInv

-------------------------------------------------------------------------------
(* The refinement of TransferPromise. *)

paidPushes == {p \in Pushes : prompt[p] = "paid"}

\* Completing a request is the promise's record, or nothing it speaks of.
LEMMA CompleteRecords ==
  ASSUME StkInv, NEW w \in StkWorkers, completeStkRequest(w)
  PROVE  Promise!PromiseNext \/ UNCHANGED <<paidPushes, paidUnder, collected>>
<1> DEFINE me == stkWorker[w]
           p == me.push
<1>1. /\ p \in Pushes /\ (me.code = "ok" => prompt[p] = "paid" /\ me.receipt \in {"PRV", "REAL"})
      /\ UNCHANGED paidPushes
  BY DEF StkInv, WorkerInv, completeStkRequest, paidPushes
<1>2. CASE applies(me, stk[p]) /\ me.code = "ok" /\ recordPurchase(p, me.receipt)
  <2>1. paidUnder[p] = {} /\ collected[p] = {}
    BY <1>1, <1>2 DEF applies, isStkRequestOpen, paidAfterAll, StkInv, RecordsAgree
  <2>2. /\ paidUnder' = [paidUnder EXCEPT ![p] = {me.receipt}]
        /\ collected' \in {collected, [collected EXCEPT ![p] = {me.receipt}]}
    BY <1>1, <1>2, <2>1 DEF recordPurchase, StkInv, StkTypeOK
  <2>3. Promise!record(p)
    BY <1>1, <1>2, <2>1, <2>2 DEF Promise!record, paidPushes
  <2> QED  BY <1>1, <2>3 DEF Promise!PromiseNext
<1>3. CASE UNCHANGED <<paidUnder, collected>>
  BY <1>1, <1>3
<1> QED  BY <1>2, <1>3 DEF completeStkRequest, upgradeReceipt, UnchangedRecords

LEMMA StkStepKeepsPromise ==
  ASSUME StkInv, StkNext
  PROVE  Promise!PromiseNext \/ UNCHANGED <<paidPushes, paidUnder, collected>>
<1>1. ASSUME NEW p \in Pushes, customerAnswers(p)
      PROVE  Promise!PromiseNext \/ UNCHANGED <<paidPushes, paidUnder, collected>>
  <2>1. PICK answer \in {"paid", "declined"} : prompt' = [prompt EXCEPT ![p] = answer]
    BY <1>1 DEF customerAnswers
  <2>2. prompt[p] = "waiting" /\ UNCHANGED <<paidUnder, collected>>
    BY <1>1 DEF customerAnswers
  <2>3. CASE answer = "paid"
    <3>1. p \notin paidPushes /\ paidPushes' = paidPushes \cup {p}
      BY <2>1, <2>2, <2>3 DEF paidPushes, StkInv, StkTypeOK
    <3>2. Promise!take(p)
      BY <2>2, <3>1 DEF Promise!take, paidPushes
    <3> QED  BY <3>2 DEF Promise!PromiseNext
  <2>4. CASE answer = "declined"
    BY <2>1, <2>2, <2>4 DEF paidPushes, StkInv, StkTypeOK
  <2> QED  BY <2>3, <2>4
<1>2. ASSUME NEW p \in Pushes, NEW w \in StkWorkers, initiateStkPush(w, p)
      PROVE  UNCHANGED <<paidPushes, paidUnder, collected>>
  BY <1>2 DEF initiateStkPush, paidPushes, StkInv, StkTypeOK
<1>3. ASSUME NEW p \in Pushes, NEW w \in StkWorkers,
             handleStkCallback(w, p) \/ queryAndReconcileStkRequest(w, p) \/ replayStrandedStkCallbacks(w, p)
      PROVE  UNCHANGED <<paidPushes, paidUnder, collected>>
  BY <1>3 DEF handleStkCallback, queryAndReconcileStkRequest, replayStrandedStkCallbacks, paidPushes
<1>4. ASSUME NEW w \in StkWorkers, createStkRequest(w) \/ stkCrash(w)
      PROVE  UNCHANGED <<paidPushes, paidUnder, collected>>
  BY <1>4 DEF createStkRequest, stkCrash, paidPushes
<1>5. ASSUME NEW p \in Pushes, requestAges(p) PROVE UNCHANGED <<paidPushes, paidUnder, collected>>
  BY <1>5 DEF requestAges, paidPushes
<1> QED  BY <1>1, <1>2, <1>3, <1>4, <1>5, CompleteRecords DEF StkNext

\* The money of a push is recorded once, under one receipt, and only when the customer
\* paid, however callbacks, queries and replays come (callback.service.ts, "Idempotent").
THEOREM PushRecordedOnce == StkSpec => KeepsTransferPromise
<1>1. StkInit => Promise!PromiseInit
  BY NoRowIsRow DEF StkInit, Promise!PromiseInit
<1>2. StkInv /\ [StkNext]_stkVars => [Promise!PromiseNext]_<<paidPushes, paidUnder, collected>>
  BY StkStepKeepsPromise DEF stkVars, paidPushes
<1> QED  BY <1>1, <1>2, StkInductive, PTL DEF StkSpec, KeepsTransferPromise, Promise!PromiseSpec, paidPushes

-------------------------------------------------------------------------------
(* PaybillC2B: what is reconciled was credited, and a transfer is credited once. *)

\* What the two properties rest on: a row is reconciled after it is stored, and only what
\* was sent is confirmed.
C2BInv ==
    /\ C2BTypeOK
    /\ ReconciledIsCredited
    /\ \A x \in Transfers : c2b[x].reconciled => c2b[x].stored
    /\ \A w \in C2BWorkers : confirming[w] \subseteq sent

LEMMA InitC2B == C2BInit => C2BInv
  BY C2BAssumption DEF C2BInit, C2BInv, C2BTypeOK, ReconciledIsCredited, NoC2B

\* A transfer not yet reconciled is credited to nobody; crediting it makes one row of each.
LEMMA CreditsOnce ==
  ASSUME C2BInv, NEW x \in Transfers, NEW t \in Isps, ~c2b[x].reconciled, Credits(x, t)
  PROVE  /\ creditedTo[x] = {} /\ owedTo[x] = {}
         /\ creditedTo' = [creditedTo EXCEPT ![x] = {t}]
         /\ owedTo' = IF x \in PlatformPaid THEN [owedTo EXCEPT ![x] = {t}] ELSE owedTo
  BY DEF C2BInv, C2BTypeOK, ReconciledIsCredited, Credits

\* A row stored for tenant t, credited to it if and only if it is reconciled, keeps the
\* invariant.
LEMMA WrittenRow ==
  ASSUME C2BInv, NEW x \in Transfers, NEW t \in Isps \cup {Nobody}, NEW done \in BOOLEAN,
         ~c2b[x].reconciled, x \in sent, UNCHANGED <<sent, meant>>,
         c2b' = [c2b EXCEPT ![x] = C2BRow(t, done)],
         IF done THEN t \in Isps /\ Credits(x, t) ELSE UNCHANGED <<creditedTo, owedTo>>,
         confirming' \in [C2BWorkers -> SUBSET Transfers],
         \A w \in C2BWorkers : confirming'[w] \subseteq sent
  PROVE  C2BInv'
<1>1. C2BRow(t, done) \in [stored : BOOLEAN, tenant : Isps \cup {Nobody}, reconciled : BOOLEAN]
      /\ C2BRow(t, done).stored /\ C2BRow(t, done).tenant = t /\ C2BRow(t, done).reconciled = done
  BY DEF C2BRow
<1>2. c2b'[x] = C2BRow(t, done) /\ \A y \in Transfers \ {x} : c2b'[y] = c2b[y]
  BY DEF C2BInv, C2BTypeOK
<1>3. /\ creditedTo' = IF done THEN [creditedTo EXCEPT ![x] = {t}] ELSE creditedTo
      /\ owedTo' = IF done /\ x \in PlatformPaid THEN [owedTo EXCEPT ![x] = {t}] ELSE owedTo
      /\ creditedTo[x] = {} /\ owedTo[x] = {}
      /\ done => t \in Isps
  BY CreditsOnce DEF C2BInv, ReconciledIsCredited
<1>4. C2BTypeOK'
  BY <1>1, <1>3 DEF C2BInv, C2BTypeOK
<1>5. ReconciledIsCredited'
  <2> SUFFICES ASSUME NEW y \in Transfers
               PROVE  /\ creditedTo'[y] = IF c2b'[y].reconciled THEN {c2b'[y].tenant} ELSE {}
                      /\ owedTo'[y] = IF y \in PlatformPaid THEN creditedTo'[y] ELSE {}
                      /\ c2b'[y].stored => y \in sent'
    BY DEF ReconciledIsCredited
  <2>1. CASE y = x
    BY <1>1, <1>2, <1>3, <2>1 DEF C2BInv, C2BTypeOK
  <2>2. CASE y # x
    BY <1>2, <1>3, <2>2 DEF C2BInv, C2BTypeOK, ReconciledIsCredited
  <2> QED  BY <2>1, <2>2
<1>6. \A y \in Transfers : c2b'[y].reconciled => c2b'[y].stored
  BY <1>1, <1>2 DEF C2BInv
<1> QED  BY <1>4, <1>5, <1>6 DEF C2BInv

LEMMA PaysInv == ASSUME C2BInv, NEW x \in Transfers, customerPaysPaybill(x) PROVE C2BInv'
<1>1. meant' \in [Transfers -> Isps \cup {Nobody}]
  BY DEF C2BInv, C2BTypeOK, customerPaysPaybill
<1> QED  BY <1>1 DEF C2BInv, C2BTypeOK, ReconciledIsCredited, customerPaysPaybill

LEMMA HandleInv ==
  ASSUME C2BInv, NEW x \in Transfers, NEW w \in C2BWorkers, handleC2BConfirmation(w, x) PROVE C2BInv'
  BY DEF C2BInv, C2BTypeOK, ReconciledIsCredited, handleC2BConfirmation

LEMMA CrashInv == ASSUME C2BInv, NEW w \in C2BWorkers, c2bCrash(w) PROVE C2BInv'
  BY DEF C2BInv, C2BTypeOK, ReconciledIsCredited, c2bCrash

LEMMA StoreInv ==
  ASSUME C2BInv, NEW x \in Transfers, NEW w \in C2BWorkers, storeConfirmation(w, x) PROVE C2BInv'
<1>1. /\ x \in sent /\ UNCHANGED <<sent, meant>>
      /\ confirming' \in [C2BWorkers -> SUBSET Transfers]
      /\ \A v \in C2BWorkers : confirming'[v] \subseteq sent
  BY DEF C2BInv, C2BTypeOK, storeConfirmation
<1>2. CASE UNCHANGED <<c2b, creditedTo, owedTo>>
  BY <1>1, <1>2 DEF C2BInv, C2BTypeOK, ReconciledIsCredited
<1>3. CASE /\ ~c2b[x].stored /\ meant[x] # Nobody
           /\ c2b' = [c2b EXCEPT ![x] = C2BRow(meant[x], TRUE)]
           /\ Credits(x, meant[x])
  <2>1. meant[x] \in Isps /\ ~c2b[x].reconciled
    BY <1>3 DEF C2BInv, C2BTypeOK
  <2> QED  BY <1>1, <1>3, <2>1, WrittenRow
<1>4. CASE /\ ~c2b[x].stored
           /\ c2b' = [c2b EXCEPT ![x] = C2BRow(meant[x], FALSE)]
           /\ UNCHANGED <<creditedTo, owedTo>>
  <2>1. meant[x] \in Isps \cup {Nobody} /\ ~c2b[x].reconciled
    BY <1>4 DEF C2BInv, C2BTypeOK
  <2> QED  BY <1>1, <1>4, <2>1, WrittenRow
<1> QED  BY <1>2, <1>3, <1>4 DEF storeConfirmation

LEMMA ManualInv ==
  ASSUME C2BInv, NEW x \in Transfers, NEW t \in Isps, manuallyReconcileC2BTransaction(x, t) PROVE C2BInv'
<1>1. /\ ~c2b[x].reconciled /\ x \in sent /\ UNCHANGED <<sent, meant, confirming>>
      /\ c2b' = [c2b EXCEPT ![x] = C2BRow(t, TRUE)] /\ Credits(x, t)
  BY DEF C2BInv, ReconciledIsCredited, manuallyReconcileC2BTransaction, MayReconcile
<1> QED  BY <1>1, WrittenRow DEF C2BInv, C2BTypeOK

LEMMA AssignInv ==
  ASSUME C2BInv, NEW x \in Transfers, NEW t \in Isps, assignPlatformC2BTransaction(x, t) PROVE C2BInv'
<1>1. /\ ~c2b[x].reconciled /\ x \in sent /\ UNCHANGED <<sent, meant, confirming>>
      /\ c2b' = [c2b EXCEPT ![x] = C2BRow(t, TRUE)] /\ Credits(x, t)
  BY DEF C2BInv, ReconciledIsCredited, assignPlatformC2BTransaction, MayReconcile
<1> QED  BY <1>1, WrittenRow DEF C2BInv, C2BTypeOK

LEMMA C2BInductive == C2BSpec => []C2BInv
<1>1. C2BInv /\ [C2BNext]_c2bVars => C2BInv'
  <2> SUFFICES ASSUME C2BInv, [C2BNext]_c2bVars PROVE C2BInv'
    OBVIOUS
  <2>1. CASE UNCHANGED c2bVars
    BY <2>1 DEF c2bVars, C2BInv, C2BTypeOK, ReconciledIsCredited
  <2>2. CASE C2BNext
    BY <2>2, PaysInv, HandleInv, StoreInv, CrashInv, ManualInv, AssignInv DEF C2BNext
  <2> QED  BY <2>1, <2>2
<1> QED  BY <1>1, InitC2B, PTL DEF C2BSpec

\* Every row that staff or an administrator see as reconciled was credited, once, to the
\* tenant it names (manuallyReconcileC2BTransaction, assignPlatformC2BTransaction).
THEOREM ReconciledRows == C2BSpec => []ReconciledIsCredited
  BY C2BInductive, PTL DEF C2BInv

-------------------------------------------------------------------------------
(* The refinement of TransferPromise. *)

\* A step that credits a transfer is the promise's record.
LEMMA CreditRecords ==
  ASSUME C2BInv, NEW x \in Transfers, NEW t \in Isps, ~c2b[x].reconciled, x \in sent, Credits(x, t),
         UNCHANGED sent
  PROVE  C2BPromise!record(x)
<1>1. /\ creditedTo[x] = {} /\ creditedTo' = [creditedTo EXCEPT ![x] = {t}]
      /\ owedTo' \in {owedTo, [owedTo EXCEPT ![x] = {t}]}
  BY CreditsOnce
<1> QED  BY <1>1 DEF C2BPromise!record

LEMMA StepKeepsPromise ==
  ASSUME C2BInv, C2BNext
  PROVE  C2BPromise!PromiseNext \/ UNCHANGED <<sent, creditedTo, owedTo>>
<1>1. ASSUME NEW x \in Transfers, customerPaysPaybill(x) PROVE C2BPromise!take(x)
  BY <1>1 DEF customerPaysPaybill, C2BPromise!take
<1>2. ASSUME NEW x \in Transfers, NEW w \in C2BWorkers, storeConfirmation(w, x)
      PROVE  C2BPromise!record(x) \/ UNCHANGED <<sent, creditedTo, owedTo>>
  <2>1. x \in sent /\ UNCHANGED sent
    BY <1>2 DEF C2BInv, storeConfirmation
  <2>2. CASE ~c2b[x].stored /\ meant[x] # Nobody /\ Credits(x, meant[x])
    <3>1. meant[x] \in Isps /\ ~c2b[x].reconciled
      BY <2>2 DEF C2BInv, C2BTypeOK
    <3> QED  BY <2>1, <2>2, <3>1, CreditRecords
  <2> QED  BY <1>2, <2>1, <2>2 DEF storeConfirmation
<1>3. ASSUME NEW x \in Transfers, NEW t \in Isps, manuallyReconcileC2BTransaction(x, t)
      PROVE  C2BPromise!record(x)
  BY <1>3, CreditRecords DEF C2BInv, ReconciledIsCredited, manuallyReconcileC2BTransaction, MayReconcile
<1>4. ASSUME NEW x \in Transfers, NEW t \in Isps, assignPlatformC2BTransaction(x, t)
      PROVE  C2BPromise!record(x)
  BY <1>4, CreditRecords DEF C2BInv, ReconciledIsCredited, assignPlatformC2BTransaction, MayReconcile
<1>5. ASSUME NEW x \in Transfers, NEW w \in C2BWorkers, handleC2BConfirmation(w, x) \/ c2bCrash(w)
      PROVE  UNCHANGED <<sent, creditedTo, owedTo>>
  BY <1>5 DEF handleC2BConfirmation, c2bCrash
<1> QED  BY <1>1, <1>2, <1>3, <1>4, <1>5 DEF C2BNext, C2BPromise!PromiseNext

\* A transfer is credited once, to one tenant, and only after Safaricom carried it out,
\* however confirmations repeat and whoever matches it.
THEOREM TransferCreditedOnce == C2BSpec => C2BKeepsPromise
<1>1. C2BInit => C2BPromise!PromiseInit
  BY DEF C2BInit, C2BPromise!PromiseInit
<1>2. C2BInv /\ [C2BNext]_c2bVars => [C2BPromise!PromiseNext]_<<sent, creditedTo, owedTo>>
  BY StepKeepsPromise DEF c2bVars
<1> QED  BY <1>1, <1>2, C2BInductive, PTL DEF C2BSpec, C2BKeepsPromise, C2BPromise!PromiseSpec

-------------------------------------------------------------------------------
(* CardGateway: one voucher for one paid checkout. *)

\* What SaleIsWhole rests on: a worker's answer names a row and, when it says COMPLETED, it
\* stays true, because a checkout that is paid stays paid.
CardInv ==
    /\ CardTypeOK
    /\ SaleIsWhole
    /\ \A w \in CardWorkers : cardWorker[w].pc = "commit" =>
          /\ cardWorker[w].ref \in CardRefs
          /\ cardWorker[w].answer # "none"
          /\ cardWorker[w].answer = "COMPLETED" => checkout[cardWorker[w].ref] = "paid"

LEMMA InitCard == CardInit => CardInv
  BY DEF CardInit, CardInv, CardTypeOK, SaleIsWhole, CardIdle

\* What the gateway does leaves a paid checkout paid.
LEMMA CheckoutInv ==
  ASSUME CardInv, NEW x \in CardRefs, initiateTransaction(x) \/ customerChecksOut(x)
  PROVE  CardInv'
<1>1. CASE initiateTransaction(x)
  <2>1. CardTypeOK'
    BY <1>1 DEF CardInv, CardTypeOK, initiateTransaction
  <2>2. SaleIsWhole'
    BY <1>1 DEF CardInv, CardTypeOK, SaleIsWhole, initiateTransaction
  <2> QED  BY <1>1, <2>1, <2>2 DEF CardInv, CardTypeOK, initiateTransaction
<1>2. CASE customerChecksOut(x)
  <2>1. CardTypeOK'
    BY <1>2 DEF CardInv, CardTypeOK, customerChecksOut
  <2>2. SaleIsWhole'
    BY <1>2 DEF CardInv, CardTypeOK, SaleIsWhole, customerChecksOut
  <2> QED  BY <1>2, <2>1, <2>2 DEF CardInv, CardTypeOK, customerChecksOut
<1> QED  BY <1>1, <1>2

LEMMA ReadCardInv ==
  ASSUME CardInv, NEW w \in CardWorkers, NEW x \in CardRefs, readCardTransaction(w, x)
  PROVE  CardInv'
<1> DEFINE busy == [pc |-> "commit", ref |-> x, answer |-> Answer(x)]
<1>1. /\ Answer(x) \in {"COMPLETED", "FAILED", "ABANDONED"}
      /\ Answer(x) = "COMPLETED" => checkout[x] = "paid"
  BY DEF Answer
<1>2. /\ cardWorker' = [cardWorker EXCEPT ![w] = busy]
      /\ UNCHANGED <<checkout, card, recorded, vouchers>>
  BY DEF readCardTransaction
<1>3. CardTypeOK'
  BY <1>1, <1>2 DEF CardInv, CardTypeOK
<1>4. SaleIsWhole'
  BY <1>2 DEF CardInv, SaleIsWhole
<1>5. \A v \in CardWorkers : cardWorker'[v] = IF v = w THEN busy ELSE cardWorker[v]
  BY <1>2 DEF CardInv, CardTypeOK
<1> QED  BY <1>1, <1>2, <1>3, <1>4, <1>5 DEF CardInv

\* The one step that sells: another worker may have sold since this one read PENDING, and
\* the unique key of the payment refuses it a second voucher.
LEMMA CompleteCardInv ==
  ASSUME CardInv, NEW w \in CardWorkers, completeTransaction(w)
  PROVE  CardInv'
<1> DEFINE x == cardWorker[w].ref
           answer == cardWorker[w].answer
<1>1. /\ x \in CardRefs
      /\ answer \in {"COMPLETED", "FAILED", "ABANDONED"}
      /\ answer = "COMPLETED" => checkout[x] = "paid"
  BY DEF CardInv, CardTypeOK, completeTransaction
<1>2. cardWorker' = [cardWorker EXCEPT ![w] = CardIdle] /\ UNCHANGED checkout
  BY DEF completeTransaction
<1>3. /\ \A v \in CardWorkers : cardWorker'[v] = IF v = w THEN CardIdle ELSE cardWorker[v]
      /\ cardWorker' \in [CardWorkers -> [pc : {"idle", "commit"}, ref : CardRefs \cup {NoCard},
                                            answer : {"none", "COMPLETED", "FAILED", "ABANDONED"}]]
  BY <1>2 DEF CardInv, CardTypeOK, CardIdle
<1>4. CardTypeOK' /\ SaleIsWhole'
  <2>1. CASE UNCHANGED <<card, recorded, vouchers>>
    BY <1>2, <1>3, <2>1 DEF CardInv, CardTypeOK, SaleIsWhole
  <2>2. CASE /\ answer = "COMPLETED" /\ ~SaleRefused(x)
             /\ card' = [card EXCEPT ![x] = "COMPLETED"]
             /\ recorded' = recorded \cup {x}
             /\ vouchers' = [vouchers EXCEPT ![x] = IF x \in HotspotRefs THEN @ + 1 ELSE @]
    <3>1. vouchers' \in [CardRefs -> Nat]
      BY <1>1, <2>2 DEF CardInv, CardTypeOK
    <3>2. CardTypeOK'
      BY <1>1, <1>2, <1>3, <2>2, <3>1 DEF CardInv, CardTypeOK
    <3>3. vouchers'[x] = IF x \in HotspotRefs THEN 1 ELSE 0
      BY <1>1, <2>2 DEF CardInv, CardTypeOK, SaleIsWhole, SaleRefused
    <3>4. \A y \in CardRefs \ {x} : vouchers'[y] = vouchers[y] /\ card'[y] = card[y]
      BY <2>2 DEF CardInv, CardTypeOK
    <3>5. SaleIsWhole'
      BY <1>1, <1>2, <2>2, <3>3, <3>4 DEF CardInv, SaleIsWhole
    <3> QED  BY <3>2, <3>5
  <2>3. CASE /\ answer # "COMPLETED" /\ card' = [card EXCEPT ![x] = answer]
             /\ UNCHANGED <<recorded, vouchers>>
    <3>1. CardTypeOK'
      BY <1>1, <1>2, <1>3, <2>3 DEF CardInv, CardTypeOK
    <3>2. \A y \in CardRefs : card'[y] = "COMPLETED" => card[y] = "COMPLETED"
      BY <2>3 DEF CardInv, CardTypeOK
    <3>3. SaleIsWhole'
      BY <1>2, <2>3, <3>2 DEF CardInv, SaleIsWhole
    <3> QED  BY <3>1, <3>3
  <2> QED  BY <2>1, <2>2, <2>3 DEF completeTransaction
<1>5. CardIdle.pc = "idle"
  BY DEF CardIdle
<1> QED  BY <1>2, <1>3, <1>4, <1>5 DEF CardInv

LEMMA CardCrashInv ==
  ASSUME CardInv, NEW w \in CardWorkers, cardCrash(w)
  PROVE  CardInv'
<1>1. CardTypeOK' /\ SaleIsWhole'
  BY DEF CardInv, CardTypeOK, SaleIsWhole, cardCrash, CardIdle
<1> QED  BY <1>1 DEF CardInv, CardTypeOK, cardCrash, CardIdle

LEMMA CardInductive == CardSpec => []CardInv
<1>1. CardInv /\ [CardNext]_cardVars => CardInv'
  <2> SUFFICES ASSUME CardInv, [CardNext]_cardVars PROVE CardInv'
    OBVIOUS
  <2>1. CASE UNCHANGED cardVars
    BY <2>1 DEF cardVars, CardInv, CardTypeOK, SaleIsWhole
  <2>2. CASE CardNext
    BY <2>2, CheckoutInv, ReadCardInv, CompleteCardInv, CardCrashInv DEF CardNext
  <2> QED  BY <2>1, <2>2
<1> QED  BY <1>1, InitCard, PTL DEF CardSpec

\* However webhooks and verifications of one card payment overlap, repeat or die, a
\* reference sells at most one voucher and counts as paid only when the gateway took the
\* money (completeTransaction of both gateways, which lock nothing).
THEOREM CardSaleIsWhole == CardSpec => []SaleIsWhole
  BY CardInductive, PTL DEF CardInv

-------------------------------------------------------------------------------
(* AgentSales: while a phone waits for its answer, an agent's account agrees with the        *)
(* customer's.                                                                               *)

Accounts == OldestFirst \cup {Wallet}

\* What the invoices before i come to, and what they leave of an amount.
OwedBefore(i) == SumFunctionOnSet(owed, 1..(i - 1))
LeftFor(amount, i) == IF amount > OwedBefore(i) THEN amount - OwedBefore(i) ELSE 0

LEMMA AccountsFinite == IsFiniteSet(Accounts) /\ IsFiniteSet(OldestFirst) /\ Wallet \notin OldestFirst
<1>1. IsFiniteSet(OldestFirst)
  BY FS_Interval, AgentAssumption DEF OldestFirst
<1>2. IsFiniteSet(OldestFirst \cup {Wallet})
  BY <1>1, FS_AddElement
<1>3. Wallet \notin OldestFirst
  BY AgentAssumption DEF OldestFirst, Wallet
<1> QED  BY <1>1, <1>2, <1>3 DEF Accounts

LEMMA OwedGrows ==
  ASSUME owed \in [OldestFirst -> Nat]
  PROVE  /\ \A i \in 1..(Bills + 1) : OwedBefore(i) \in Nat
         /\ OwedBefore(1) = 0
         /\ \A i \in OldestFirst : OwedBefore(i + 1) = OwedBefore(i) + owed[i]
<1>1. ASSUME NEW i \in 1..(Bills + 1) PROVE OwedBefore(i) \in Nat
  <2> DEFINE S == 1..(i - 1)
  <2>0. IsFiniteSet(S)
    BY FS_Interval, AgentAssumption
  <2>1. IsFiniteSet(S) /\ \A j \in S : owed[j] \in Nat
    BY <2>0, AgentAssumption DEF OldestFirst
  <2>2. OwedBefore(i) = SumFunctionOnSet(owed, S)
    BY DEF OwedBefore
  <2> HIDE DEF S
  <2> QED  BY <2>1, <2>2, SumNat
<1>2. OwedBefore(1) = 0
  <2>1. 1..(1 - 1) = {}
    OBVIOUS
  <2>2. SumFunctionOnSet(owed, {}) = 0
    BY SumEmpty
  <2> QED  BY <2>1, <2>2, Zenon DEF OwedBefore
<1>3. ASSUME NEW i \in OldestFirst PROVE OwedBefore(i + 1) = OwedBefore(i) + owed[i]
  <2> DEFINE S == 1..(i - 1)
             U == 1..((i + 1) - 1)
  <2>0. IsFiniteSet(S)
    BY FS_Interval, AgentAssumption DEF OldestFirst
  <2>1. /\ IsFiniteSet(S) /\ i \notin S /\ \A j \in S \cup {i} : owed[j] \in Int
        /\ U = S \cup {i}
    BY <2>0, AgentAssumption DEF OldestFirst
  <2>2. OwedBefore(i) = SumFunctionOnSet(owed, S) /\ OwedBefore(i + 1) = SumFunctionOnSet(owed, U)
    BY DEF OwedBefore
  <2> HIDE DEF S, U
  <2>3. SumFunctionOnSet(owed, S \cup {i}) = owed[i] + SumFunctionOnSet(owed, S)
    BY <2>1, SumAdd
  <2>4. SumFunctionOnSet(owed, S) \in Int
    BY <2>1, SumType
  <2>5. OwedBefore(i + 1) = owed[i] + OwedBefore(i) /\ owed[i] \in Int /\ OwedBefore(i) \in Int
    BY <2>1, <2>2, <2>3, <2>4
  <2> QED  BY <2>5
<1> QED  BY <1>1, <1>2, <1>3

\* What is spread is the amount: no invoice takes more than it is owed, nothing is lost.
LEMMA SpreadIsWhole ==
  ASSUME NEW amount \in Nat, owed \in [OldestFirst -> Nat]
  PROVE  /\ SpreadOf(amount) \in [Accounts -> Nat]
         /\ \A i \in OldestFirst : SpreadOf(amount)[i] <= owed[i]
         /\ SumFunctionOnSet(SpreadOf(amount), Accounts) = amount
<1> DEFINE parts == SpreadOf(amount)
           Taken(n) == IF amount < OwedBefore(n + 1) THEN amount ELSE OwedBefore(n + 1)
           T == {n \in Nat : n <= Bills => SumFunctionOnSet(parts, 1..n) = Taken(n)}
<1>1. parts = [i \in Accounts |->
                 IF i = Wallet THEN LeftFor(amount, Bills + 1)
                 ELSE IF LeftFor(amount, i) < owed[i] THEN LeftFor(amount, i) ELSE owed[i]]
  BY DEF SpreadOf, Accounts, LeftFor, OwedBefore
<1>2. /\ \A i \in 1..(Bills + 1) : OwedBefore(i) \in Nat
      /\ OwedBefore(1) = 0 /\ Bills \in Nat
      /\ \A i \in OldestFirst : OwedBefore(i + 1) = OwedBefore(i) + owed[i]
  BY OwedGrows, AgentAssumption
<1> HIDE DEF parts
<1>3. \A i \in OldestFirst : /\ i \in Accounts /\ i # Wallet /\ i \in 1..(Bills + 1)
                             /\ owed[i] \in Nat
  BY <1>2 DEF OldestFirst, Accounts, Wallet
<1>4. \A i \in OldestFirst :
        parts[i] = IF LeftFor(amount, i) < owed[i] THEN LeftFor(amount, i) ELSE owed[i]
  BY <1>1, <1>3
<1>5. \A i \in 1..(Bills + 1) : LeftFor(amount, i) \in Nat
  BY <1>2 DEF LeftFor
<1>6. parts[Wallet] = LeftFor(amount, Bills + 1) /\ parts[Wallet] \in Nat
  BY <1>1, <1>2, <1>5 DEF Accounts
<1>7. \A i \in OldestFirst : parts[i] \in Nat /\ parts[i] <= owed[i]
  BY <1>3, <1>4, <1>5
<1>8. parts \in [Accounts -> Nat]
  <2>1. \A i \in Accounts : parts[i] \in Nat
    BY <1>6, <1>7 DEF Accounts
  <2> QED  BY <1>1, <2>1
<1>9. 0 \in T
  <2>1. 1..0 = {}
    OBVIOUS
  <2>2. SumFunctionOnSet(parts, {}) = 0
    BY SumEmpty
  <2>3. SumFunctionOnSet(parts, 1..0) = 0
    BY <2>1, <2>2, Zenon
  <2>4. OwedBefore(0 + 1) = 0
    BY <1>2
  <2>5. Taken(0) = 0
    BY <2>4
  <2> HIDE DEF Taken
  <2> QED  BY <2>3, <2>5
<1>10. ASSUME NEW n \in Nat, n \in T PROVE n + 1 \in T
  <2> SUFFICES ASSUME n + 1 <= Bills PROVE SumFunctionOnSet(parts, 1..(n + 1)) = Taken(n + 1)
    OBVIOUS
  <2> DEFINE S == 1..n
             U == 1..(n + 1)
             i == n + 1
  <2>0. IsFiniteSet(S)
    BY FS_Interval
  <2>1. /\ IsFiniteSet(S) /\ i \notin S /\ U = S \cup {i}
        /\ S \cup {i} \in SUBSET OldestFirst
    BY <1>2, <2>0 DEF OldestFirst
  <2>2. SumFunctionOnSet(parts, S) = Taken(n)
    BY <1>2, <1>10
  <2> HIDE DEF S, U, Taken
  <2>3. i \in OldestFirst /\ \A j \in S \cup {i} : parts[j] \in Int
    BY <1>7, <2>1
  <2>4. SumFunctionOnSet(parts, U) = parts[i] + Taken(n)
    BY <2>1, <2>2, <2>3, SumAdd
  <2>5. /\ OwedBefore(n + 1) \in Nat /\ owed[n + 1] \in Nat
        /\ OwedBefore((n + 1) + 1) = OwedBefore(n + 1) + owed[n + 1]
    BY <1>2, <1>3, <2>3
  <2>6. parts[n + 1] = IF LeftFor(amount, n + 1) < owed[n + 1] THEN LeftFor(amount, n + 1) ELSE owed[n + 1]
    BY <1>4, <2>3
  <2>7. parts[n + 1] + Taken(n) = Taken(n + 1)
    BY <2>5, <2>6 DEF Taken, LeftFor
  <2> QED  BY <2>4, <2>7 DEF U
<1>11. Bills \in T
  <2>1. Nat \subseteq T
    <3> HIDE DEF T
    <3> QED  BY <1>9, <1>10, NumberSets
  <2> QED  BY <1>2, <2>1
<1>12. SumFunctionOnSet(parts, OldestFirst) = Taken(Bills)
  BY <1>2, <1>11 DEF OldestFirst
<1>13. SumFunctionOnSet(parts, Accounts) = parts[Wallet] + SumFunctionOnSet(parts, OldestFirst)
  <2>1. \A j \in OldestFirst \cup {Wallet} : parts[j] \in Int
    BY <1>6, <1>7
  <2> QED  BY <2>1, AccountsFinite, SumAdd DEF Accounts
<1>14. OwedBefore(Bills + 1) \in Nat
  BY <1>2
<1>15. SumFunctionOnSet(parts, Accounts) = amount
  BY <1>6, <1>12, <1>13, <1>14 DEF LeftFor
<1> QED  BY <1>7, <1>8, <1>15 DEF parts

TillRows ==
    [pc : {"idle", "collect", "apply", "sell"}, request : RequestIds \cup {NoRequest}, take : SUBSET Vouchers,
     parts : [Accounts -> Nat], read : SUBSET OldestFirst, seen : [OldestFirst -> 0..BillMinor]]

\* The desk is at work on a collection.
Collecting(row) == row.pc \in {"collect", "apply"}

\* No invoice takes more than it was seen to owe.
PartsFit(row) ==
    /\ row.pc = "collect" => row.read = {} /\ \A i \in OldestFirst : row.seen[i] = 0
    /\ \A i \in OldestFirst : row.seen[i] > 0 => row.parts[i] <= row.seen[i]
    /\ row.pc = "apply" => SumFunctionOnSet(row.parts, Accounts) = cash[row.request]

\* The payments of a bill.
PaidOnto(i) == SumFunctionOnSet([r \in RequestIds |-> paidOn[r][i]], RequestIds)

Unpaid(r) == saleOf[r] = {} /\ \A i \in Accounts : paidOn[r][i] = 0

\* All of a request's cash is on the account under one sale, or none of it is.
RequestOK(r) ==
    \/ Unpaid(r)
    \/ /\ cash[r] > 0 /\ \E first : saleOf[r] = {first}
       /\ SumFunctionOnSet(paidOn[r], Accounts) = cash[r]

\* What a collection has read: no bill showed more as paid than there are payments, and the
\* bills that take something and were read were seen to owe it.
ReadOK(row) ==
    \A i \in OldestFirst :
        /\ row.seen[i] > 0 => BillMinor - row.seen[i] <= PaidOnto(i)
        /\ row.pc = "apply" /\ i \in row.read /\ row.parts[i] > 0 => row.seen[i] > 0

\* A collection that is being made is of a request nobody else makes, or has made.
TillOK(row) ==
    IF Collecting(row)
    THEN /\ row.request \in RequestIds /\ cash[row.request] > 0 /\ Unpaid(row.request)
         /\ PartsFit(row) /\ ReadOK(row)
    ELSE row.request = NoRequest

TillsOK ==
    /\ \A d \in AgentDesks : TillOK(desk[d])
    /\ \A d, e \in AgentDesks :
         Collecting(desk[d]) /\ Collecting(desk[e]) /\ d # e => desk[d].request # desk[e].request

BillOK(i) == BillMinor - owed[i] <= PaidOnto(i)

AgentInv ==
    /\ AgentTypeOK
    /\ \A r \in RequestIds : RequestOK(r)
    /\ TillsOK
    /\ \A i \in OldestFirst : BillOK(i)
    /\ \A v \in Vouchers : \E b : soldTo[v] \in SUBSET {b}

LEMMA AgentColumns ==
  ASSUME AgentTypeOK
  PROVE  /\ cash \in [RequestIds -> CashMinor \cup {0}] /\ cash \in [RequestIds -> Nat]
         /\ owed \in [OldestFirst -> Nat] /\ \A i \in OldestFirst : owed[i] <= BillMinor
         /\ paidOn \in [RequestIds -> [Accounts -> Nat]]
         /\ saleOf \in [RequestIds -> SUBSET Accounts]
         /\ soldTo \in [Vouchers -> SUBSET Buyers]
         /\ desk \in [AgentDesks -> TillRows]
<1>1. CashMinor \cup {0} \subseteq Nat
  BY AgentAssumption
<1>2. owed \in [OldestFirst -> Nat] /\ \A i \in OldestFirst : owed[i] <= BillMinor
  <2>1. owed \in [OldestFirst -> 0..BillMinor] /\ BillMinor \in Nat
    BY AgentAssumption DEF AgentTypeOK
  <2> QED  BY <2>1
<1>3. cash \in [RequestIds -> CashMinor \cup {0}] /\ cash \in [RequestIds -> Nat]
  BY <1>1 DEF AgentTypeOK
<1>4. /\ paidOn \in [RequestIds -> [Accounts -> Nat]]
      /\ saleOf \in [RequestIds -> SUBSET Accounts]
      /\ soldTo \in [Vouchers -> SUBSET Buyers]
      /\ desk \in [AgentDesks -> TillRows]
  BY DEF AgentTypeOK, Accounts, TillRows
<1> QED  BY <1>2, <1>3, <1>4

LEMMA AgentTypes ==
  ASSUME AgentInv
  PROVE  /\ cash \in [RequestIds -> CashMinor \cup {0}] /\ cash \in [RequestIds -> Nat]
         /\ owed \in [OldestFirst -> Nat] /\ \A i \in OldestFirst : owed[i] <= BillMinor
         /\ paidOn \in [RequestIds -> [Accounts -> Nat]]
         /\ saleOf \in [RequestIds -> SUBSET Accounts]
         /\ soldTo \in [Vouchers -> SUBSET Buyers]
         /\ desk \in [AgentDesks -> TillRows]
  BY AgentColumns DEF AgentInv

LEMMA TillIdle ==
  /\ DeskIdle \in TillRows /\ DeskIdle.pc = "idle" /\ DeskIdle.request = NoRequest
  /\ \A i \in OldestFirst : DeskIdle.seen[i] = 0
<1>1. 0 \in 0..BillMinor
  BY AgentAssumption
<1>2. [i \in OldestFirst |-> 0] \in [OldestFirst -> 0..BillMinor]
  BY <1>1
<1> QED  BY <1>2 DEF DeskIdle, TillRows, Accounts

LEMMA InitAgent == AgentInit => AgentInv
<1> SUFFICES ASSUME AgentInit PROVE AgentInv
  OBVIOUS
<1>1. DeskIdle \in TillRows /\ DeskIdle.pc = "idle" /\ DeskIdle.request = NoRequest
  BY TillIdle
<1>2. AgentTypeOK
  BY <1>1, AgentAssumption DEF AgentInit, AgentTypeOK, TillRows, Accounts
<1>3. \A r \in RequestIds : RequestOK(r)
  BY DEF AgentInit, RequestOK, Unpaid, Accounts
<1>4. TillsOK
  BY <1>1 DEF AgentInit, TillsOK, TillOK, Collecting
<1>5. ASSUME NEW i \in OldestFirst PROVE BillOK(i)
  <2>1. [r \in RequestIds |-> paidOn[r][i]] = [r \in RequestIds |-> 0]
    BY <1>5 DEF AgentInit
  <2>2. SumFunctionOnSet([r \in RequestIds |-> 0], RequestIds) = 0
    BY AgentAssumption, SumZero
  <2>3. SumFunctionOnSet([r \in RequestIds |-> paidOn[r][i]], RequestIds) = 0
    BY <2>1, <2>2, Zenon
  <2>4. BillMinor - owed[i] = 0
    BY <1>5, AgentAssumption DEF AgentInit
  <2> QED  BY <2>3, <2>4 DEF BillOK, PaidOnto
<1> QED  BY <1>2, <1>3, <1>4, <1>5 DEF AgentInv, AgentInit

\* A step that leaves the customer's account alone: the row the desk writes.
LEMMA TillTurns ==
  ASSUME AgentInv, NEW d \in AgentDesks, NEW row \in TillRows,
         IF Collecting(row) THEN Collecting(desk[d]) /\ row.request = desk[d].request ELSE TRUE,
         TillOK(row), desk' = [desk EXCEPT ![d] = row], UNCHANGED <<cash, owed, paidOn, saleOf>>,
         soldTo' \in [Vouchers -> SUBSET Buyers], \A v \in Vouchers : \E b : soldTo'[v] \in SUBSET {b}
  PROVE  AgentInv'
<1>1. /\ desk' \in [AgentDesks -> TillRows]
      /\ desk'[d] = row /\ \A e \in AgentDesks \ {d} : desk'[e] = desk[e]
  BY AgentTypes
<1>2. AgentTypeOK'
  BY <1>1 DEF AgentInv, AgentTypeOK, TillRows, Accounts
<1>3. TillsOK'
  <2>1. ASSUME NEW e \in AgentDesks PROVE TillOK(desk[e])'
    <3>1. TillOK(desk'[e])
      BY <1>1 DEF AgentInv, TillsOK
    <3> QED  BY <3>1 DEF TillOK, Unpaid, PartsFit, ReadOK, PaidOnto
  <2>2. ASSUME NEW a \in AgentDesks, NEW e \in AgentDesks, Collecting(desk'[a]), Collecting(desk'[e]), a # e
        PROVE  desk'[a].request # desk'[e].request
    BY <1>1, <2>2 DEF AgentInv, TillsOK
  <2> QED  BY <2>1, <2>2 DEF TillsOK, Collecting
<1>4. \A r \in RequestIds : RequestOK(r)'
  BY DEF AgentInv, RequestOK, Unpaid
<1>5. \A i \in OldestFirst : BillOK(i)'
  BY DEF AgentInv, BillOK, PaidOnto
<1> QED  BY <1>2, <1>3, <1>4, <1>5 DEF AgentInv

\* The same for a desk that is done with its collection, or sells.
LEMMA TillLeaves ==
  ASSUME AgentInv, NEW d \in AgentDesks, NEW row \in TillRows, ~Collecting(row), row.request = NoRequest,
         desk' = [desk EXCEPT ![d] = row], UNCHANGED <<cash, owed, paidOn, saleOf>>,
         soldTo' \in [Vouchers -> SUBSET Buyers], \A v \in Vouchers : \E b : soldTo'[v] \in SUBSET {b}
  PROVE  AgentInv'
  BY TillTurns DEF TillOK

LEMMA RequestInv ==
  ASSUME AgentInv, ~RetryWhileBusy, NEW d \in AgentDesks, NEW r \in RequestIds, requestCollection(d, r)
  PROVE  AgentInv'
<1> DEFINE row == [DeskIdle EXCEPT !.pc = "collect", !.request = r]
<1>1. /\ row \in TillRows /\ row.pc = "collect" /\ row.request = r
      /\ row.read = {} /\ \A i \in OldestFirst : row.seen[i] = 0
  BY TillIdle DEF DeskIdle, TillRows
<1>2. desk' = [desk EXCEPT ![d] = row] /\ UNCHANGED <<owed, paidOn, saleOf, soldTo>>
  BY DEF requestCollection
<1> HIDE DEF row
<1>3. /\ desk' \in [AgentDesks -> TillRows]
      /\ desk'[d] = row /\ \A e \in AgentDesks \ {d} : desk'[e] = desk[e]
  BY <1>1, <1>2, AgentTypes
<1>4. \A e \in AgentDesks : desk[e].request # r
  BY DEF requestCollection, Busy
<1>5. /\ cash' \in [RequestIds -> CashMinor \cup {0}] /\ cash'[r] > 0
      /\ \A q \in RequestIds : cash[q] # 0 \/ q # r => cash'[q] = cash[q]
  <2>1. CASE cash[r] = 0
    <3>1. PICK amount \in CashMinor : cash' = [cash EXCEPT ![r] = amount]
      BY <2>1 DEF requestCollection
    <3>2. amount > 0
      BY AgentAssumption
    <3> QED  BY <2>1, <3>1, <3>2, AgentTypes
  <2>2. CASE cash[r] # 0
    <3>1. cash' = cash
      BY <2>2 DEF requestCollection
    <3>2. cash[r] \in Nat
      BY AgentTypes
    <3> QED  BY <2>2, <3>1, <3>2, AgentTypes
  <2> QED  BY <2>1, <2>2
<1>6. AgentTypeOK'
  BY <1>2, <1>3, <1>5 DEF AgentInv, AgentTypeOK, TillRows, Accounts
<1>7. Unpaid(r)
  <2>1. \A i \in Accounts : paidOn[r][i] = 0
    <3>1. ASSUME NEW i \in Accounts PROVE paidOn[r][i] = 0
      <4>1. ~(paidOn[r][i] > 0)
        BY DEF requestCollection, MayCollect, AlreadyRecorded, Accounts
      <4>2. paidOn[r][i] \in Nat
        BY AgentTypes
      <4> QED  BY <4>1, <4>2
    <3> QED  BY <3>1
  <2>2. paidOn[r] = [i \in Accounts |-> 0]
    BY <2>1, AgentTypes
  <2>3. SumFunctionOnSet([i \in Accounts |-> 0], Accounts) = 0
    BY AccountsFinite, SumZero
  <2>4. SumFunctionOnSet(paidOn[r], Accounts) = 0
    BY <2>2, <2>3, Zenon
  <2>5. RequestOK(r)
    BY DEF AgentInv
  <2> QED  BY <2>4, <2>5 DEF RequestOK
<1>8. ASSUME NEW q \in RequestIds PROVE RequestOK(q)'
  <2>1. CASE q = r
    BY <1>2, <1>7, <2>1 DEF RequestOK, Unpaid
  <2>2. CASE q # r
    <3>1. cash'[q] = cash[q] /\ RequestOK(q)
      BY <1>5, <2>2 DEF AgentInv
    <3> QED  BY <1>2, <3>1 DEF RequestOK, Unpaid
  <2> QED  BY <2>1, <2>2
<1>9. TillsOK'
  <2>1. ASSUME NEW e \in AgentDesks PROVE TillOK(desk[e])'
    <3>1. CASE e = d
      <4>1. Collecting(row) /\ PartsFit(row)' /\ ReadOK(row)'
        BY <1>1 DEF Collecting, PartsFit, ReadOK
      <4>2. Unpaid(r)'
        BY <1>2, <1>7 DEF Unpaid
      <4>3. TillOK(row)'
        BY <1>1, <1>5, <4>1, <4>2 DEF TillOK, Collecting
      <4> QED  BY <1>3, <3>1, <4>3 DEF TillOK, Collecting, PartsFit, ReadOK
    <3>2. CASE e # d
      <4>1. TillOK(desk[e]) /\ desk'[e] = desk[e]
        BY <1>3, <3>2 DEF AgentInv, TillsOK
      <4>2. CASE Collecting(desk[e])
        <5>1. /\ desk[e].request \in RequestIds /\ cash[desk[e].request] > 0 /\ Unpaid(desk[e].request)
              /\ PartsFit(desk[e]) /\ ReadOK(desk[e])
              /\ cash'[desk[e].request] = cash[desk[e].request]
          BY <1>4, <1>5, <4>1, <4>2 DEF TillOK
        <5>2. PartsFit(desk[e])' /\ ReadOK(desk[e])' /\ Unpaid(desk[e].request)'
          BY <1>2, <4>1, <5>1 DEF PartsFit, ReadOK, PaidOnto, Unpaid
        <5> QED  BY <4>1, <4>2, <5>1, <5>2 DEF TillOK, Collecting
      <4>3. CASE ~Collecting(desk[e])
        BY <4>1, <4>3 DEF TillOK, Collecting
      <4> QED  BY <4>2, <4>3
    <3> QED  BY <3>1, <3>2
  <2>2. ASSUME NEW a \in AgentDesks, NEW e \in AgentDesks, Collecting(desk'[a]), Collecting(desk'[e]), a # e
        PROVE  desk'[a].request # desk'[e].request
    BY <1>1, <1>3, <1>4, <2>2 DEF AgentInv, TillsOK
  <2> QED  BY <2>1, <2>2 DEF TillsOK, Collecting
<1>10. \A i \in OldestFirst : BillOK(i)'
  BY <1>2 DEF AgentInv, BillOK, PaidOnto
<1> QED  BY <1>2, <1>6, <1>8, <1>9, <1>10 DEF AgentInv

LEMMA ListInv ==
  ASSUME AgentInv, NEW d \in AgentDesks, listBills(d)
  PROVE  AgentInv'
<1> DEFINE r == desk[d].request
           row == [desk[d] EXCEPT !.pc = "apply", !.parts = SpreadOf(cash[r])]
<1>1. /\ desk[d] \in TillRows /\ desk[d].pc = "collect" /\ TillOK(desk[d])
      /\ UNCHANGED <<cash, owed, paidOn, saleOf, soldTo>>
  BY AgentTypes DEF AgentInv, TillsOK, listBills
<1>2. /\ r \in RequestIds /\ cash[r] > 0 /\ Unpaid(r) /\ cash[r] \in Nat
      /\ \A i \in OldestFirst : desk[d].seen[i] = 0
  BY <1>1, AgentTypes DEF TillOK, Collecting, PartsFit
<1>3. /\ SpreadOf(cash[r]) \in [Accounts -> Nat]
      /\ SumFunctionOnSet(SpreadOf(cash[r]), Accounts) = cash[r]
  BY <1>2, AgentTypes, SpreadIsWhole
<1>4. desk' = [desk EXCEPT ![d] = row]
  BY AgentTypes DEF listBills
<1>5. /\ row \in TillRows /\ row.pc = "apply" /\ row.request = r /\ row.parts = SpreadOf(cash[r])
      /\ row.seen = desk[d].seen /\ row.read = desk[d].read
  BY <1>1, <1>3 DEF TillRows
<1> HIDE DEF row, r
<1>6. PartsFit(row)
  BY <1>2, <1>3, <1>5 DEF PartsFit
<1>7. desk[d].read = {}
  BY <1>1 DEF TillOK, Collecting, PartsFit
<1>8. ReadOK(row)
  BY <1>2, <1>5, <1>7 DEF ReadOK
<1>9. TillOK(row)
  BY <1>2, <1>5, <1>6, <1>8 DEF TillOK, Collecting
<1>10. Collecting(row) /\ Collecting(desk[d]) /\ row.request = desk[d].request
  BY <1>1, <1>5 DEF Collecting, r
<1>11. soldTo' \in [Vouchers -> SUBSET Buyers] /\ \A v \in Vouchers : \E b : soldTo'[v] \in SUBSET {b}
  BY <1>1, AgentTypes DEF AgentInv
<1> QED  BY <1>1, <1>4, <1>5, <1>9, <1>10, <1>11, TillTurns

LEMMA ReadInv ==
  ASSUME AgentInv, NEW d \in AgentDesks, readBill(d)
  PROVE  AgentInv'
<1> DEFINE r == desk[d].request
<1>1. /\ desk[d] \in TillRows /\ desk[d].pc = "apply" /\ TillOK(desk[d])
      /\ UNCHANGED <<cash, owed, paidOn, saleOf, soldTo>>
  BY AgentTypes DEF AgentInv, TillsOK, readBill
<1>2. /\ r \in RequestIds /\ cash[r] > 0 /\ Unpaid(r) /\ PartsFit(desk[d]) /\ ReadOK(desk[d])
  BY <1>1 DEF TillOK, Collecting
<1>3. PICK i \in Unread(d) :
        desk' = IF paidOn[r][i] > 0 THEN [desk EXCEPT ![d].read = @ \cup {i}]
                ELSE IF desk[d].parts[i] <= owed[i]
                THEN [desk EXCEPT ![d].read = @ \cup {i}, ![d].seen[i] = owed[i]]
                ELSE [desk EXCEPT ![d] = DeskIdle]
  BY DEF readBill
<1>4. i \in OldestFirst /\ i \in Accounts /\ desk[d].parts[i] > 0
  BY DEF Unread, Accounts
<1>5. ~(paidOn[r][i] > 0)
  BY <1>2, <1>4 DEF Unpaid
<1>6. soldTo' \in [Vouchers -> SUBSET Buyers] /\ \A v \in Vouchers : \E b : soldTo'[v] \in SUBSET {b}
  BY <1>1, AgentTypes DEF AgentInv
<1>7. CASE desk[d].parts[i] <= owed[i]
  <2> DEFINE row == [desk[d] EXCEPT !.read = @ \cup {i}, !.seen[i] = owed[i]]
  <2>1. desk' = [desk EXCEPT ![d] = row]
    BY <1>3, <1>5, <1>7, AgentTypes
  <2>2. /\ owed[i] \in Nat /\ owed[i] <= BillMinor /\ BillMinor \in Nat /\ desk[d].parts[i] \in Nat
        /\ desk[d].seen \in [OldestFirst -> 0..BillMinor]
    BY <1>1, <1>4, AgentTypes, AgentAssumption DEF TillRows
  <2>3. [desk[d].seen EXCEPT ![i] = owed[i]] \in [OldestFirst -> 0..BillMinor]
    BY <1>4, <2>2
  <2>4. /\ row \in TillRows /\ row.pc = "apply" /\ row.request = r /\ row.parts = desk[d].parts
        /\ row.seen = [desk[d].seen EXCEPT ![i] = owed[i]] /\ row.read = desk[d].read \cup {i}
    BY <1>1, <1>4, <2>3 DEF TillRows
  <2> HIDE DEF row
  <2>5. BillMinor - owed[i] <= PaidOnto(i)
    BY <1>4 DEF AgentInv, BillOK
  <2>6. ASSUME NEW j \in OldestFirst
        PROVE  /\ row.seen[j] > 0 => row.parts[j] <= row.seen[j] /\ BillMinor - row.seen[j] <= PaidOnto(j)
               /\ j \in row.read /\ row.parts[j] > 0 => row.seen[j] > 0
    <3>1. CASE j = i
      <4>1. row.seen[j] = owed[i] /\ row.parts[j] = desk[d].parts[i]
        BY <2>2, <2>4, <3>1
      <4> QED  BY <1>4, <1>7, <2>2, <2>5, <3>1, <4>1
    <3>2. CASE j # i
      <4>1. row.seen[j] = desk[d].seen[j] /\ row.parts[j] = desk[d].parts[j] /\ (j \in row.read => j \in desk[d].read)
        BY <2>2, <2>4, <3>2
      <4> QED  BY <1>1, <1>2, <4>1 DEF PartsFit, ReadOK
    <3> QED  BY <3>1, <3>2
  <2>7. SumFunctionOnSet(row.parts, Accounts) = cash[row.request]
    BY <1>1, <1>2, <2>4 DEF PartsFit
  <2>8. PartsFit(row) /\ ReadOK(row)
    BY <2>4, <2>6, <2>7 DEF PartsFit, ReadOK
  <2>9. TillOK(row) /\ Collecting(row) /\ Collecting(desk[d])
    BY <1>1, <1>2, <2>4, <2>8 DEF TillOK, Collecting
  <2> HIDE DEF r
  <2> QED  BY <1>1, <1>6, <2>1, <2>4, <2>9, TillTurns DEF r
<1>8. CASE ~(desk[d].parts[i] <= owed[i])
  <2>1. desk' = [desk EXCEPT ![d] = DeskIdle]
    BY <1>3, <1>5, <1>8
  <2>2. ~Collecting(DeskIdle)
    BY TillIdle DEF Collecting
  <2> QED  BY <1>1, <1>6, <2>1, <2>2, TillIdle, TillLeaves
<1> QED  BY <1>7, <1>8

\* The account a sale names: the oldest invoice that takes something, or the wallet.
FirstOf(taking) ==
    IF taking = {Wallet} THEN Wallet
    ELSE CHOOSE i \in taking \ {Wallet} : \A j \in taking \ {Wallet} : i <= j

LEMMA FirstIsAccount ==
  ASSUME NEW taking \in SUBSET Accounts, taking # {}
  PROVE  FirstOf(taking) \in Accounts
<1>1. CASE taking = {Wallet}
  BY <1>1 DEF Accounts, FirstOf
<1>2. CASE taking # {Wallet}
  <2> DEFINE bills == taking \ {Wallet}
  <2>1. bills \in SUBSET OldestFirst /\ bills # {}
    BY <1>2 DEF Accounts
  <2>2. bills \in SUBSET Nat
    BY <2>1, AgentAssumption DEF OldestFirst
  <2>3. FirstOf(taking) = CHOOSE i \in bills : \A j \in bills : i <= j
    BY <1>2 DEF FirstOf
  <2> HIDE DEF bills
  <2>4. \E i \in bills : \A j \in bills : i <= j
    BY <2>1, <2>2, LeastNumber
  <2>5. FirstOf(taking) \in bills
    BY <2>3, <2>4
  <2> QED  BY <2>1, <2>5 DEF Accounts
<1> QED  BY <1>1, <1>2

LEMMA SomethingTaken ==
  ASSUME NEW parts \in [Accounts -> Nat], SumFunctionOnSet(parts, Accounts) > 0
  PROVE  {i \in Accounts : parts[i] > 0} # {}
<1> SUFFICES ASSUME {i \in Accounts : parts[i] > 0} = {} PROVE FALSE
  OBVIOUS
<1>1. \A i \in Accounts : parts[i] = 0
  OBVIOUS
<1>2. parts = [i \in Accounts |-> 0]
  BY <1>1
<1>3. SumFunctionOnSet([i \in Accounts |-> 0], Accounts) = 0
  BY AccountsFinite, SumZero
<1>4. SumFunctionOnSet(parts, Accounts) = 0
  BY <1>2, <1>3, Zenon
<1> QED  BY <1>4

\* A collection that commits: its parts are the request's payments, and a bill it takes from
\* shows what it was seen to owe less the part.
LEMMA CollectInv ==
  ASSUME AgentInv, NEW d \in AgentDesks, collectAgentPayment(d)
  PROVE  AgentInv'
<1> DEFINE r == desk[d].request
           parts == desk[d].parts
           seen == desk[d].seen
           taking == {i \in DOMAIN parts : parts[i] > 0}
           fresh == {i \in taking : IF i = Wallet THEN paidOn[r][i] = 0 ELSE seen[i] > 0}
           first == FirstOf(taking)
<1>1. desk[d] \in TillRows /\ TillOK(desk[d]) /\ desk[d].pc = "apply"
  BY AgentTypes DEF AgentInv, TillsOK, collectAgentPayment
<1>2. /\ r \in RequestIds /\ cash[r] \in Nat /\ cash[r] > 0 /\ Unpaid(r)
      /\ PartsFit(desk[d]) /\ ReadOK(desk[d])
  BY <1>1, AgentTypes DEF TillOK, Collecting
<1>3. /\ parts \in [Accounts -> Nat] /\ seen \in [OldestFirst -> 0..BillMinor]
      /\ SumFunctionOnSet(parts, Accounts) = cash[r]
      /\ \A i \in OldestFirst : seen[i] > 0 => parts[i] <= seen[i] /\ BillMinor - seen[i] <= PaidOnto(i)
  BY <1>1, <1>2 DEF PartsFit, ReadOK, TillRows
<1>4. ASSUME NEW i \in OldestFirst, parts[i] > 0 PROVE seen[i] > 0
  <2>1. Unread(d) = {} /\ i \in desk[d].read
    BY <1>4 DEF Unread, collectAgentPayment
  <2> QED  BY <1>1, <1>2, <1>4, <2>1 DEF ReadOK
<1>5. /\ UNCHANGED <<cash, soldTo>> /\ desk' = [desk EXCEPT ![d] = DeskIdle]
      /\ IF first \in saleOf[r] \/ \E i \in fresh : paidOn[r][i] > 0
         THEN UNCHANGED <<owed, paidOn, saleOf>>
         ELSE /\ paidOn' = [paidOn EXCEPT ![r] = [i \in DOMAIN parts |-> IF i \in fresh THEN parts[i] ELSE @[i]]]
              /\ owed' = [i \in OldestFirst |-> IF i \in fresh THEN seen[i] - parts[i] ELSE owed[i]]
              /\ saleOf' = [saleOf EXCEPT ![r] = @ \cup {first}]
  BY DEF collectAgentPayment, FirstOf
<1>6. \A e \in AgentDesks \ {d} : Collecting(desk[e]) => desk[e].request # r
  BY <1>1 DEF AgentInv, TillsOK, Collecting
<1> HIDE DEF r, parts, seen
<1>7. DOMAIN parts = Accounts
  BY <1>3
<1>8. \A i \in Accounts : i \in fresh <=> parts[i] > 0
  BY <1>2, <1>4, <1>7 DEF Unpaid, Accounts
<1>9. taking # {}
  BY <1>2, <1>3, <1>7, SomethingTaken
<1>10. first \in Accounts
  BY <1>7, <1>9, FirstIsAccount
<1>11. fresh \subseteq Accounts
  BY <1>7
<1> HIDE DEF first, taking, fresh
<1>12. ~(first \in saleOf[r] \/ \E i \in fresh : paidOn[r][i] > 0)
  BY <1>2, <1>11 DEF Unpaid
<1>13. saleOf' = [saleOf EXCEPT ![r] = {first}]
  BY <1>2, <1>5, <1>12, AgentTypes DEF Unpaid
<1>14. paidOn' = [paidOn EXCEPT ![r] = parts]
  <2>1. parts = [i \in Accounts |-> IF i \in fresh THEN parts[i] ELSE paidOn[r][i]]
    BY <1>2, <1>3, <1>8 DEF Unpaid
  <2>2. paidOn' = [paidOn EXCEPT ![r] = [i \in Accounts |-> IF i \in fresh THEN parts[i] ELSE paidOn[r][i]]]
    BY <1>2, <1>5, <1>7, <1>12, AgentTypes
  <2> QED  BY <2>1, <2>2, Zenon
<1>15. owed' = [i \in OldestFirst |-> IF i \in fresh THEN seen[i] - parts[i] ELSE owed[i]]
  BY <1>5, <1>12
<1>16. /\ desk' \in [AgentDesks -> TillRows]
       /\ desk'[d] = DeskIdle /\ \A e \in AgentDesks \ {d} : desk'[e] = desk[e]
  BY <1>5, AgentTypes, TillIdle
<1>17. AgentTypeOK'
  <2>1. paidOn' \in [RequestIds -> [Accounts -> Nat]] /\ saleOf' \in [RequestIds -> SUBSET Accounts]
    BY <1>2, <1>3, <1>10, <1>13, <1>14, AgentTypes
  <2>2. ASSUME NEW i \in OldestFirst
        PROVE  (IF i \in fresh THEN seen[i] - parts[i] ELSE owed[i]) \in 0..BillMinor
    <3>1. /\ i \in Accounts /\ parts[i] \in Nat /\ owed[i] \in 0..BillMinor /\ seen[i] \in 0..BillMinor
          /\ BillMinor \in Nat /\ (i \in fresh => parts[i] <= seen[i])
      BY <1>3, <1>4, <1>8, AgentTypes, AgentAssumption DEF Accounts
    <3> QED  BY <3>1
  <2>3. owed' \in [OldestFirst -> 0..BillMinor]
    BY <1>15, <2>2
  <2> QED  BY <1>5, <1>16, <2>1, <2>3 DEF AgentInv, AgentTypeOK, TillRows, Accounts
<1>18. ASSUME NEW q \in RequestIds PROVE RequestOK(q)'
  <2>1. CASE q = r
    <3>1. cash'[q] > 0 /\ saleOf'[q] = {first} /\ paidOn'[q] = parts
      BY <1>2, <1>5, <1>13, <1>14, <2>1, AgentTypes
    <3>2. SumFunctionOnSet(paidOn'[q], Accounts) = cash'[q]
      BY <1>3, <1>5, <2>1, <3>1
    <3> QED  BY <3>1, <3>2 DEF RequestOK
  <2>2. CASE q # r
    <3>1. cash'[q] = cash[q] /\ saleOf'[q] = saleOf[q] /\ paidOn'[q] = paidOn[q]
      BY <1>5, <1>13, <1>14, <2>2, AgentTypes
    <3>2. RequestOK(q)
      BY DEF AgentInv
    <3> QED  BY <3>1, <3>2 DEF RequestOK, Unpaid
  <2> QED  BY <2>1, <2>2
<1>19. ASSUME NEW i \in OldestFirst
       PROVE  PaidOnto(i) \in Int /\ PaidOnto(i)' = PaidOnto(i) + parts[i]
  <2> DEFINE f == [q \in RequestIds |-> paidOn[q][i]]
             h == [q \in RequestIds |-> paidOn'[q][i]]
  <2>1. i \in Accounts /\ parts[i] \in Nat
    BY <1>3 DEF Accounts
  <2>2. /\ \A q \in RequestIds : f[q] \in Int
        /\ f[r] = 0 /\ h[r] = parts[i]
        /\ \A q \in RequestIds \ {r} : h[q] = f[q]
    BY <1>2, <1>14, <2>1, AgentTypes DEF Unpaid
  <2>3. PaidOnto(i) = SumFunctionOnSet(f, RequestIds) /\ PaidOnto(i)' = SumFunctionOnSet(h, RequestIds)
    BY DEF PaidOnto
  <2> HIDE DEF f, h
  <2>4. h[r] \in Int
    BY <2>1, <2>2
  <2>5. SumFunctionOnSet(h, RequestIds) = SumFunctionOnSet(f, RequestIds) - f[r] + h[r]
    BY <1>2, <2>2, <2>4, AgentAssumption, SumUpdate
  <2>6. SumFunctionOnSet(f, RequestIds) \in Int
    BY <2>2, AgentAssumption, SumType
  <2> QED  BY <2>1, <2>2, <2>3, <2>5, <2>6
<1>20. \A i \in OldestFirst : PaidOnto(i) <= PaidOnto(i)'
  BY <1>3, <1>19 DEF Accounts
<1>21. TillsOK'
  <2>1. ASSUME NEW e \in AgentDesks PROVE TillOK(desk[e])'
    <3>1. CASE e = d
      BY <1>16, <3>1, TillIdle DEF TillOK, Collecting
    <3>2. CASE e # d
      <4>1. TillOK(desk[e]) /\ desk'[e] = desk[e] /\ desk[e] \in TillRows
        BY <1>16, <3>2, AgentTypes DEF AgentInv, TillsOK
      <4>2. CASE Collecting(desk[e])
        <5>1. desk[e].request # r
          BY <1>6, <3>2, <4>2
        <5>2. /\ desk[e].request \in RequestIds /\ cash[desk[e].request] > 0 /\ Unpaid(desk[e].request)
              /\ PartsFit(desk[e]) /\ ReadOK(desk[e])
          BY <4>1, <4>2 DEF TillOK
        <5>3. /\ saleOf'[desk[e].request] = saleOf[desk[e].request]
              /\ paidOn'[desk[e].request] = paidOn[desk[e].request]
          BY <1>13, <1>14, <5>1, <5>2, AgentTypes
        <5>4. ASSUME NEW i \in OldestFirst, desk[e].seen[i] > 0
              PROVE  BillMinor - desk[e].seen[i] <= PaidOnto(i)'
          <6>1. BillMinor - desk[e].seen[i] <= PaidOnto(i)
            BY <5>2, <5>4 DEF ReadOK
          <6>2. BillMinor \in Int /\ desk[e].seen[i] \in Int
            BY <4>1, AgentAssumption DEF TillRows
          <6>3. PaidOnto(i) \in Int /\ PaidOnto(i)' \in Int /\ PaidOnto(i) <= PaidOnto(i)'
            BY <1>3, <1>19, <1>20 DEF Accounts
          <6> QED  BY <6>1, <6>2, <6>3
        <5>5. ReadOK(desk[e])'
          BY <4>1, <5>2, <5>4 DEF ReadOK
        <5>6. PartsFit(desk[e])' /\ Unpaid(desk[e].request)'
          BY <1>5, <4>1, <5>2, <5>3 DEF PartsFit, Unpaid
        <5> QED  BY <1>5, <4>1, <4>2, <5>2, <5>5, <5>6 DEF TillOK, Collecting
      <4>3. CASE ~Collecting(desk[e])
        BY <4>1, <4>3 DEF TillOK, Collecting
      <4> QED  BY <4>2, <4>3
    <3> QED  BY <3>1, <3>2
  <2>2. ASSUME NEW a \in AgentDesks, NEW e \in AgentDesks, Collecting(desk'[a]), Collecting(desk'[e]), a # e
        PROVE  desk'[a].request # desk'[e].request
    BY <1>16, <2>2, TillIdle DEF AgentInv, TillsOK, Collecting
  <2> QED  BY <2>1, <2>2 DEF TillsOK, Collecting
<1>22. ASSUME NEW i \in OldestFirst PROVE BillOK(i)'
  <2>1. /\ i \in Accounts /\ parts[i] \in Nat /\ owed[i] \in Nat /\ BillMinor \in Nat /\ seen[i] \in Int
        /\ PaidOnto(i) \in Int /\ PaidOnto(i)' = PaidOnto(i) + parts[i] /\ BillMinor - owed[i] <= PaidOnto(i)
    BY <1>3, <1>19, AgentTypes, AgentAssumption DEF Accounts, AgentInv, BillOK
  <2>2. CASE i \in fresh
    <3>1. owed'[i] = seen[i] - parts[i] /\ BillMinor - seen[i] <= PaidOnto(i)
      BY <1>3, <1>4, <1>8, <1>15, <2>1, <2>2
    <3> QED  BY <2>1, <3>1 DEF BillOK
  <2>3. CASE i \notin fresh
    <3>1. owed'[i] = owed[i]
      BY <1>15, <2>3
    <3> QED  BY <2>1, <3>1 DEF BillOK
  <2> QED  BY <2>2, <2>3
<1>23. \A v \in Vouchers : \E b : soldTo'[v] \in SUBSET {b}
  BY <1>5 DEF AgentInv
<1> QED  BY <1>17, <1>18, <1>21, <1>22, <1>23 DEF AgentInv

LEMMA SellInv ==
  ASSUME AgentInv, NEW d \in AgentDesks, NEW buyer \in Buyers, sellAgentVoucher(d, buyer)
  PROVE  AgentInv'
<1>1. UNCHANGED <<cash, owed, paidOn, saleOf>>
  BY DEF sellAgentVoucher
<1>2. PICK v \in desk[d].take :
         \/ /\ ~SaleExists(v)
            /\ soldTo' = [soldTo EXCEPT ![v] = @ \cup {buyer}]
            /\ desk' = [desk EXCEPT ![d] = DeskIdle]
         \/ /\ SaleExists(v) /\ UNCHANGED soldTo
            /\ desk' \in {[desk EXCEPT ![d].take = {u}] : u \in InStock} \cup {[desk EXCEPT ![d] = DeskIdle]}
  BY DEF sellAgentVoucher
<1>3. v \in Vouchers
  BY AgentTypes DEF TillRows
<1>4. /\ soldTo' \in [Vouchers -> SUBSET Buyers]
      /\ \A u \in Vouchers : \E b : soldTo'[u] \in SUBSET {b}
  <2>1. CASE ~SaleExists(v)
    <3>1. soldTo[v] = {} /\ soldTo' = [soldTo EXCEPT ![v] = {buyer}]
      BY <1>2, <1>3, <2>1, AgentTypes DEF SaleExists
    <3>2. soldTo' \in [Vouchers -> SUBSET Buyers]
      BY <3>1, AgentTypes
    <3>3. ASSUME NEW u \in Vouchers PROVE \E b : soldTo'[u] \in SUBSET {b}
      BY <1>3, <3>1, AgentTypes DEF AgentInv
    <3> QED  BY <3>2, <3>3
  <2>2. CASE SaleExists(v)
    BY <1>2, <2>2, AgentTypes DEF AgentInv
  <2> QED  BY <2>1, <2>2
<1>5. CASE desk' = [desk EXCEPT ![d] = DeskIdle]
  <2>1. ~Collecting(DeskIdle)
    BY TillIdle DEF Collecting
  <2> QED  BY <1>1, <1>4, <1>5, <2>1, TillIdle, TillLeaves
<1>6. ASSUME NEW u \in InStock, desk' = [desk EXCEPT ![d].take = {u}] PROVE AgentInv'
  <2> DEFINE row == [desk[d] EXCEPT !.take = {u}]
  <2>1. desk[d] \in TillRows /\ u \in Vouchers /\ desk[d].pc = "sell" /\ desk[d].request = NoRequest
    BY AgentTypes DEF InStock, sellAgentVoucher, AgentInv, TillsOK, TillOK, Collecting
  <2>2. row \in TillRows /\ ~Collecting(row) /\ row.request = NoRequest
    BY <2>1 DEF TillRows, Collecting
  <2>3. desk' = [desk EXCEPT ![d] = row]
    BY <1>6
  <2> HIDE DEF row
  <2> QED  BY <1>1, <1>4, <2>2, <2>3, TillLeaves
<1> QED  BY <1>2, <1>5, <1>6

LEMMA PickInv == ASSUME AgentInv, NEW d \in AgentDesks, pickVoucher(d) PROVE AgentInv'
<1>1. PICK v \in InStock : desk' = [desk EXCEPT ![d] = [DeskIdle EXCEPT !.pc = "sell", !.take = {v}]]
  BY DEF pickVoucher
<1> DEFINE row == [DeskIdle EXCEPT !.pc = "sell", !.take = {v}]
<1>2. row \in TillRows /\ ~Collecting(row) /\ row.request = NoRequest
  BY TillIdle DEF DeskIdle, TillRows, InStock, Collecting
<1>3. UNCHANGED <<cash, owed, paidOn, saleOf, soldTo>>
  BY DEF pickVoucher
<1>4. desk' = [desk EXCEPT ![d] = row]
  BY <1>1
<1> HIDE DEF row
<1>5. /\ soldTo' \in [Vouchers -> SUBSET Buyers]
      /\ \A u \in Vouchers : \E b : soldTo'[u] \in SUBSET {b}
  BY <1>3, AgentTypes DEF AgentInv
<1> QED  BY <1>2, <1>3, <1>4, <1>5, TillLeaves

LEMMA AgentInductive == ASSUME ~RetryWhileBusy PROVE AgentSpec => []AgentInv
<1>1. AgentInv /\ [AgentNext]_agentVars => AgentInv'
  <2> SUFFICES ASSUME AgentInv, [AgentNext]_agentVars PROVE AgentInv'
    OBVIOUS
  <2>1. ASSUME NEW d \in AgentDesks, requestFails(d) PROVE AgentInv'
    <3>1. UNCHANGED <<cash, owed, paidOn, saleOf, soldTo>> /\ desk' = [desk EXCEPT ![d] = DeskIdle]
      BY <2>1 DEF requestFails
    <3>2. /\ soldTo' \in [Vouchers -> SUBSET Buyers]
          /\ \A u \in Vouchers : \E b : soldTo'[u] \in SUBSET {b}
      BY <3>1, AgentTypes DEF AgentInv
    <3>3. ~Collecting(DeskIdle)
      BY TillIdle DEF Collecting
    <3> QED  BY <3>1, <3>2, <3>3, TillIdle, TillLeaves
  <2>2. CASE AgentNext
    BY <2>1, <2>2, RequestInv, ListInv, ReadInv, CollectInv, PickInv, SellInv DEF AgentNext
  <2>3. CASE UNCHANGED agentVars
    <3>1. /\ AgentTypeOK' /\ \A r \in RequestIds : RequestOK(r)'
          /\ \A v \in Vouchers : \E b : soldTo'[v] \in SUBSET {b}
      BY <2>3 DEF agentVars, AgentInv, AgentTypeOK, RequestOK, Unpaid
    <3>3. ASSUME NEW d \in AgentDesks PROVE TillOK(desk[d])'
      <4>1. TillOK(desk[d]) /\ desk' = desk
        BY <2>3 DEF agentVars, AgentInv, TillsOK
      <4>2. PartsFit(desk[d]) => PartsFit(desk[d])'
        BY <2>3 DEF agentVars, PartsFit
      <4>3. ReadOK(desk[d]) => ReadOK(desk[d])'
        BY <2>3 DEF agentVars, ReadOK, PaidOnto
      <4> QED  BY <2>3, <4>1, <4>2, <4>3 DEF agentVars, TillOK, Collecting, Unpaid
    <3>4. TillsOK'
      BY <2>3, <3>3 DEF agentVars, AgentInv, TillsOK, Collecting
    <3>2. \A i \in OldestFirst : BillOK(i)'
      BY <2>3 DEF agentVars, AgentInv, BillOK, PaidOnto
    <3> QED  BY <3>1, <3>2, <3>4 DEF AgentInv
  <2> QED  BY <2>2, <2>3
<1> QED  BY <1>1, InitAgent, PTL DEF AgentSpec

\* While the agent's phone does not repeat a request that still runs, its cash is put on the
\* customer's bills and wallet once and whole, no bill shows more as paid than payments were
\* made on it although collections overlap, and no voucher is sold twice, whatever fails
\* (collectAgentPayment, sellAgentVoucher).
THEOREM AgentAccount == ASSUME ~RetryWhileBusy PROVE AgentSpec => []AgentAccountAgrees
<1>1. AgentInv => AgentAccountAgrees
  <2> SUFFICES ASSUME AgentInv PROVE AgentAccountAgrees
    OBVIOUS
  <2>0. OldestFirst \cup {Wallet} = Accounts
    BY DEF Accounts
  <2>1. ASSUME NEW r \in RequestIds
        PROVE  /\ Cardinality(saleOf[r]) <= 1
               /\ SumFunctionOnSet(paidOn[r], Accounts) = cash[r] * Cardinality(saleOf[r])
    <3>0. cash[r] \in Nat /\ RequestOK(r)
      BY AgentTypes DEF AgentInv
    <3>1. CASE Unpaid(r)
      <4>1. Cardinality(saleOf[r]) = 0
        BY <3>1, FS_EmptySet DEF Unpaid
      <4>2. paidOn[r] = [i \in Accounts |-> 0]
        BY <3>1, AgentTypes DEF Unpaid
      <4>3. SumFunctionOnSet([i \in Accounts |-> 0], Accounts) = 0
        BY AccountsFinite, SumZero
      <4>4. SumFunctionOnSet(paidOn[r], Accounts) = 0
        BY <4>2, <4>3, Zenon
      <4> QED  BY <3>0, <4>1, <4>4
    <3>2. CASE ~Unpaid(r)
      <4>1. PICK first : saleOf[r] = {first}
        BY <3>0, <3>2 DEF RequestOK
      <4>2. Cardinality(saleOf[r]) = 1
        BY <4>1, FS_Singleton
      <4>3. SumFunctionOnSet(paidOn[r], Accounts) = cash[r]
        BY <3>0, <3>2 DEF RequestOK
      <4> QED  BY <3>0, <4>2, <4>3
    <3> QED  BY <3>1, <3>2
  <2>2. CollectedOnce
    BY <2>0, <2>1, Zenon DEF CollectedOnce
  <2>3. ASSUME NEW i \in OldestFirst
        PROVE  BillMinor - owed[i] <= SumFunction([r \in RequestIds |-> paidOn[r][i]])
    <3>1. SumFunction([r \in RequestIds |-> paidOn[r][i]])
            = SumFunctionOnSet([r \in RequestIds |-> paidOn[r][i]], RequestIds)
      BY DEF SumFunction
    <3> QED  BY <3>1 DEF AgentInv, BillOK, PaidOnto
  <2>4. ASSUME NEW v \in Vouchers PROVE Cardinality(soldTo[v]) <= 1
    <3>1. PICK b : soldTo[v] \in SUBSET {b}
      BY DEF AgentInv
    <3>2. IsFiniteSet({b}) /\ Cardinality({b}) = 1
      BY FS_Singleton
    <3> QED  BY <3>1, <3>2, CountNoMore
  <2> QED  BY <2>2, <2>3, <2>4 DEF AgentAccountAgrees
<1> QED  BY <1>1, AgentInductive, PTL

\* The columns, also where a phone repeats a request that still runs.
ColumnsInv ==
    /\ AgentTypeOK
    /\ \A d \in AgentDesks :
         Collecting(desk[d]) => desk[d].request \in RequestIds /\ cash[desk[d].request] > 0 /\ PartsFit(desk[d])

\* A step that leaves the customer's account alone: the row the desk writes.
LEMMA ColumnsTurn ==
  ASSUME ColumnsInv, NEW d \in AgentDesks, NEW row \in TillRows, desk' = [desk EXCEPT ![d] = row],
         UNCHANGED <<owed, paidOn, saleOf>>, soldTo' \in [Vouchers -> SUBSET Buyers],
         cash' \in [RequestIds -> CashMinor \cup {0}], \A q \in RequestIds : cash[q] > 0 => cash'[q] = cash[q],
         Collecting(row) => row.request \in RequestIds /\ cash'[row.request] > 0 /\ PartsFit(row),
         row.pc = "apply" => cash[row.request] > 0
  PROVE  ColumnsInv'
<1>1. desk \in [AgentDesks -> TillRows]
  BY AgentColumns DEF ColumnsInv
<1>2. /\ desk' \in [AgentDesks -> TillRows]
      /\ desk'[d] = row /\ \A e \in AgentDesks \ {d} : desk'[e] = desk[e]
  BY <1>1
<1>3. AgentTypeOK'
  BY <1>2 DEF ColumnsInv, AgentTypeOK, TillRows, Accounts
<1>4. ASSUME NEW e \in AgentDesks, Collecting(desk'[e])
      PROVE  desk'[e].request \in RequestIds /\ cash'[desk'[e].request] > 0 /\ PartsFit(desk[e])'
  <2>1. CASE e = d
    <3>1. Collecting(row) /\ desk'[e] = row
      BY <1>2, <1>4, <2>1
    <3>2. row.pc = "apply" => cash'[row.request] = cash[row.request]
      BY <3>1
    <3> QED  BY <3>1, <3>2 DEF PartsFit
  <2>2. CASE e # d
    <3>1. /\ desk'[e] = desk[e] /\ desk[e].request \in RequestIds /\ cash[desk[e].request] > 0
          /\ PartsFit(desk[e])
      BY <1>2, <1>4, <2>2 DEF ColumnsInv
    <3>2. cash'[desk[e].request] = cash[desk[e].request]
      BY <3>1
    <3> QED  BY <3>1, <3>2 DEF PartsFit
  <2> QED  BY <2>1, <2>2
<1> QED  BY <1>3, <1>4 DEF ColumnsInv, Collecting

LEMMA RequestColumns ==
  ASSUME ColumnsInv, NEW d \in AgentDesks, NEW r \in RequestIds, requestCollection(d, r)
  PROVE  ColumnsInv'
<1> DEFINE row == [DeskIdle EXCEPT !.pc = "collect", !.request = r]
<1>1. /\ row \in TillRows /\ row.pc = "collect" /\ row.request = r
      /\ row.read = {} /\ \A i \in OldestFirst : row.seen[i] = 0
  BY TillIdle DEF DeskIdle, TillRows
<1>2. /\ cash \in [RequestIds -> CashMinor \cup {0}] /\ cash \in [RequestIds -> Nat]
      /\ soldTo \in [Vouchers -> SUBSET Buyers]
  BY AgentColumns DEF ColumnsInv
<1>3. desk' = [desk EXCEPT ![d] = row] /\ UNCHANGED <<owed, paidOn, saleOf, soldTo>>
  BY DEF requestCollection
<1> HIDE DEF row
<1>4. /\ cash' \in [RequestIds -> CashMinor \cup {0}] /\ cash'[r] > 0
      /\ \A q \in RequestIds : cash[q] > 0 => cash'[q] = cash[q]
  <2>1. CASE cash[r] = 0
    <3>1. PICK amount \in CashMinor : cash' = [cash EXCEPT ![r] = amount]
      BY <2>1 DEF requestCollection
    <3>2. amount > 0
      BY AgentAssumption
    <3> QED  BY <1>2, <2>1, <3>1, <3>2
  <2>2. CASE cash[r] # 0
    <3>1. cash' = cash
      BY <2>2 DEF requestCollection
    <3>2. cash[r] \in Nat
      BY <1>2
    <3> QED  BY <1>2, <2>2, <3>1, <3>2
  <2> QED  BY <2>1, <2>2
<1>5. PartsFit(row)
  BY <1>1 DEF PartsFit
<1> QED  BY <1>1, <1>2, <1>3, <1>4, <1>5, ColumnsTurn

LEMMA ListColumns ==
  ASSUME ColumnsInv, NEW d \in AgentDesks, listBills(d)
  PROVE  ColumnsInv'
<1> DEFINE r == desk[d].request
           row == [desk[d] EXCEPT !.pc = "apply", !.parts = SpreadOf(cash[r])]
<1>1. /\ desk \in [AgentDesks -> TillRows] /\ desk[d].pc = "collect"
      /\ soldTo \in [Vouchers -> SUBSET Buyers] /\ cash \in [RequestIds -> CashMinor \cup {0}]
      /\ owed \in [OldestFirst -> Nat] /\ cash \in [RequestIds -> Nat]
      /\ UNCHANGED <<cash, owed, paidOn, saleOf, soldTo>>
  BY AgentColumns DEF ColumnsInv, listBills
<1>2. r \in RequestIds /\ cash[r] > 0 /\ cash[r] \in Nat /\ \A i \in OldestFirst : desk[d].seen[i] = 0
  BY <1>1 DEF ColumnsInv, Collecting, PartsFit
<1>3. /\ SpreadOf(cash[r]) \in [Accounts -> Nat]
      /\ SumFunctionOnSet(SpreadOf(cash[r]), Accounts) = cash[r]
  BY <1>1, <1>2, SpreadIsWhole
<1>4. desk' = [desk EXCEPT ![d] = row]
  BY <1>1 DEF listBills
<1>5. /\ row \in TillRows /\ row.pc = "apply" /\ row.request = r /\ row.parts = SpreadOf(cash[r])
      /\ row.seen = desk[d].seen
  BY <1>1, <1>3 DEF TillRows
<1> HIDE DEF row, r
<1>6. PartsFit(row)
  BY <1>1, <1>2, <1>3, <1>5 DEF PartsFit
<1> QED  BY <1>1, <1>2, <1>4, <1>5, <1>6, ColumnsTurn DEF r

LEMMA ReadColumns ==
  ASSUME ColumnsInv, NEW d \in AgentDesks, readBill(d)
  PROVE  ColumnsInv'
<1> DEFINE r == desk[d].request
<1>1. /\ desk \in [AgentDesks -> TillRows] /\ desk[d] \in TillRows /\ desk[d].pc = "apply"
      /\ soldTo \in [Vouchers -> SUBSET Buyers] /\ cash \in [RequestIds -> CashMinor \cup {0}]
      /\ owed \in [OldestFirst -> Nat] /\ (\A i \in OldestFirst : owed[i] <= BillMinor)
      /\ UNCHANGED <<cash, owed, paidOn, saleOf, soldTo>>
  BY AgentColumns DEF ColumnsInv, readBill
<1>2. r \in RequestIds /\ cash[r] > 0 /\ PartsFit(desk[d])
  BY <1>1 DEF ColumnsInv, Collecting
<1>3. PICK i \in Unread(d) :
        desk' = IF paidOn[r][i] > 0 THEN [desk EXCEPT ![d].read = @ \cup {i}]
                ELSE IF desk[d].parts[i] <= owed[i]
                THEN [desk EXCEPT ![d].read = @ \cup {i}, ![d].seen[i] = owed[i]]
                ELSE [desk EXCEPT ![d] = DeskIdle]
  BY DEF readBill
<1>4. i \in OldestFirst
  BY DEF Unread
<1>5. CASE desk' = [desk EXCEPT ![d].read = @ \cup {i}]
  <2> DEFINE row == [desk[d] EXCEPT !.read = @ \cup {i}]
  <2>1. desk' = [desk EXCEPT ![d] = row]
    BY <1>1, <1>5
  <2>2. /\ row \in TillRows /\ row.pc = "apply" /\ row.request = r /\ row.parts = desk[d].parts
        /\ row.seen = desk[d].seen
    BY <1>1, <1>4 DEF TillRows
  <2> HIDE DEF row, r
  <2>3. PartsFit(row)
    BY <1>1, <1>2, <2>2 DEF PartsFit, r
  <2> QED  BY <1>1, <1>2, <2>1, <2>2, <2>3, ColumnsTurn DEF r
<1>6. CASE desk[d].parts[i] <= owed[i] /\ desk' = [desk EXCEPT ![d].read = @ \cup {i}, ![d].seen[i] = owed[i]]
  <2> DEFINE row == [desk[d] EXCEPT !.read = @ \cup {i}, !.seen[i] = owed[i]]
  <2>1. desk' = [desk EXCEPT ![d] = row]
    BY <1>1, <1>6
  <2>2. /\ owed[i] \in Nat /\ owed[i] <= BillMinor /\ BillMinor \in Nat
        /\ desk[d].seen \in [OldestFirst -> 0..BillMinor]
    BY <1>1, <1>4, AgentAssumption DEF TillRows
  <2>3. [desk[d].seen EXCEPT ![i] = owed[i]] \in [OldestFirst -> 0..BillMinor]
    BY <1>4, <2>2
  <2>4. /\ row \in TillRows /\ row.pc = "apply" /\ row.request = r /\ row.parts = desk[d].parts
        /\ row.seen = [desk[d].seen EXCEPT ![i] = owed[i]]
    BY <1>1, <1>4, <2>3 DEF TillRows
  <2> HIDE DEF row
  <2>5. ASSUME NEW j \in OldestFirst, row.seen[j] > 0 PROVE row.parts[j] <= row.seen[j]
    <3>1. CASE j = i
      BY <1>6, <2>2, <2>4, <3>1
    <3>2. CASE j # i
      BY <1>2, <2>2, <2>4, <2>5, <3>2 DEF PartsFit
    <3> QED  BY <3>1, <3>2
  <2>6. SumFunctionOnSet(row.parts, Accounts) = cash[row.request]
    BY <1>1, <1>2, <2>4 DEF PartsFit
  <2> HIDE DEF r
  <2>7. PartsFit(row)
    BY <1>1, <2>4, <2>5, <2>6 DEF PartsFit
  <2> QED  BY <1>1, <1>2, <2>1, <2>4, <2>7, ColumnsTurn DEF r
<1>7. CASE desk' = [desk EXCEPT ![d] = DeskIdle]
  <2>1. ~Collecting(DeskIdle)
    BY TillIdle DEF Collecting
  <2> QED  BY <1>1, <1>7, <2>1, TillIdle, ColumnsTurn
<1> QED  BY <1>3, <1>5, <1>6, <1>7

LEMMA CollectColumns ==
  ASSUME ColumnsInv, NEW d \in AgentDesks, collectAgentPayment(d)
  PROVE  ColumnsInv'
<1> DEFINE r == desk[d].request
           parts == desk[d].parts
           seen == desk[d].seen
           taking == {i \in DOMAIN parts : parts[i] > 0}
           fresh == {i \in taking : IF i = Wallet THEN paidOn[r][i] = 0 ELSE seen[i] > 0}
           first == FirstOf(taking)
<1>1. /\ owed \in [OldestFirst -> Nat] /\ (\A i \in OldestFirst : owed[i] <= BillMinor)
      /\ paidOn \in [RequestIds -> [Accounts -> Nat]]
      /\ saleOf \in [RequestIds -> SUBSET Accounts]
      /\ desk \in [AgentDesks -> TillRows] /\ desk[d].pc = "apply"
      /\ r \in RequestIds /\ cash[r] \in Nat /\ cash[r] > 0 /\ PartsFit(desk[d])
  BY AgentColumns DEF ColumnsInv, collectAgentPayment, Collecting
<1>2. /\ parts \in [Accounts -> Nat] /\ seen \in [OldestFirst -> 0..BillMinor]
      /\ SumFunctionOnSet(parts, Accounts) = cash[r]
      /\ \A i \in OldestFirst : seen[i] > 0 => parts[i] <= seen[i]
  BY <1>1 DEF TillRows, PartsFit
<1>3. /\ UNCHANGED <<cash, soldTo>> /\ desk' = [desk EXCEPT ![d] = DeskIdle]
      /\ IF first \in saleOf[r] \/ \E i \in fresh : paidOn[r][i] > 0
         THEN UNCHANGED <<owed, paidOn, saleOf>>
         ELSE /\ paidOn' = [paidOn EXCEPT ![r] = [i \in DOMAIN parts |-> IF i \in fresh THEN parts[i] ELSE @[i]]]
              /\ owed' = [i \in OldestFirst |-> IF i \in fresh THEN seen[i] - parts[i] ELSE owed[i]]
              /\ saleOf' = [saleOf EXCEPT ![r] = @ \cup {first}]
  BY DEF collectAgentPayment, FirstOf
<1> HIDE DEF r, parts, seen
<1>4. DOMAIN parts = Accounts
  BY <1>2
<1>5. taking # {}
  BY <1>1, <1>2, <1>4, SomethingTaken
<1>6. first \in Accounts
  BY <1>4, <1>5, FirstIsAccount
<1>7. \A i \in OldestFirst : i \in fresh => seen[i] > 0
  BY AccountsFinite
<1> HIDE DEF taking, fresh, first
<1>8. /\ desk' \in [AgentDesks -> TillRows]
      /\ desk'[d] = DeskIdle /\ \A e \in AgentDesks \ {d} : desk'[e] = desk[e]
  BY <1>1, <1>3, TillIdle
<1>9. /\ paidOn' \in [RequestIds -> [Accounts -> Nat]] /\ saleOf' \in [RequestIds -> SUBSET Accounts]
      /\ owed' \in [OldestFirst -> 0..BillMinor]
  <2>1. CASE first \in saleOf[r] \/ \E i \in fresh : paidOn[r][i] > 0
    BY <1>1, <1>3, <2>1 DEF ColumnsInv, AgentTypeOK
  <2>2. CASE ~(first \in saleOf[r] \/ \E i \in fresh : paidOn[r][i] > 0)
    <3>1. saleOf' \in [RequestIds -> SUBSET Accounts]
      BY <1>1, <1>3, <1>6, <2>2
    <3>2. ASSUME NEW i \in OldestFirst
          PROVE  (IF i \in fresh THEN seen[i] - parts[i] ELSE owed[i]) \in 0..BillMinor
      <4>1. /\ i \in Accounts /\ parts[i] \in Nat /\ owed[i] \in Nat /\ owed[i] <= BillMinor
            /\ seen[i] \in 0..BillMinor /\ (i \in fresh => parts[i] <= seen[i]) /\ BillMinor \in Nat
        BY <1>1, <1>2, <1>7, AgentAssumption DEF Accounts
      <4> QED  BY <4>1
    <3>3. owed' \in [OldestFirst -> 0..BillMinor]
      BY <1>3, <2>2, <3>2
    <3>4. [i \in Accounts |-> IF i \in fresh THEN parts[i] ELSE paidOn[r][i]] \in [Accounts -> Nat]
      BY <1>1, <1>2
    <3>5. paidOn' = [paidOn EXCEPT ![r] = [i \in Accounts |-> IF i \in fresh THEN parts[i] ELSE paidOn[r][i]]]
      BY <1>1, <1>3, <1>4, <2>2
    <3>6. paidOn' \in [RequestIds -> [Accounts -> Nat]]
      BY <1>1, <3>4, <3>5
    <3> QED  BY <3>1, <3>3, <3>6
  <2> QED  BY <2>1, <2>2
<1>10. AgentTypeOK'
  BY <1>3, <1>8, <1>9 DEF ColumnsInv, AgentTypeOK, TillRows, Accounts
<1>11. ASSUME NEW e \in AgentDesks, Collecting(desk'[e])
       PROVE  desk'[e].request \in RequestIds /\ cash'[desk'[e].request] > 0 /\ PartsFit(desk[e])'
  <2>1. e # d
    BY <1>8, <1>11, TillIdle DEF Collecting
  <2>2. /\ desk'[e] = desk[e] /\ cash' = cash /\ desk[e].request \in RequestIds /\ cash[desk[e].request] > 0
        /\ PartsFit(desk[e])
    BY <1>3, <1>8, <1>11, <2>1 DEF ColumnsInv
  <2> QED  BY <2>2 DEF PartsFit
<1> QED  BY <1>10, <1>11 DEF ColumnsInv, Collecting

\* A step that collects nothing.
LEMMA OtherColumns ==
  ASSUME ColumnsInv, NEW d \in AgentDesks,
         requestFails(d) \/ pickVoucher(d) \/ \E b \in Buyers : sellAgentVoucher(d, b)
  PROVE  ColumnsInv'
<1>1. /\ UNCHANGED <<cash, owed, paidOn, saleOf>> /\ desk \in [AgentDesks -> TillRows]
      /\ soldTo \in [Vouchers -> SUBSET Buyers] /\ cash \in [RequestIds -> CashMinor \cup {0}]
  BY AgentColumns DEF ColumnsInv, requestFails, pickVoucher, sellAgentVoucher
<1>2. ASSUME NEW row \in TillRows, ~Collecting(row), desk' = [desk EXCEPT ![d] = row],
             soldTo' \in [Vouchers -> SUBSET Buyers]
      PROVE  ColumnsInv'
  BY <1>1, <1>2, ColumnsTurn DEF Collecting
<1>3. ~Collecting(DeskIdle)
  BY TillIdle DEF Collecting
<1>4. CASE requestFails(d)
  BY <1>1, <1>2, <1>3, <1>4, TillIdle DEF requestFails
<1>5. CASE pickVoucher(d)
  <2>1. PICK v \in InStock : desk' = [desk EXCEPT ![d] = [DeskIdle EXCEPT !.pc = "sell", !.take = {v}]]
    BY <1>5 DEF pickVoucher
  <2> DEFINE row == [DeskIdle EXCEPT !.pc = "sell", !.take = {v}]
  <2>2. row \in TillRows /\ ~Collecting(row)
    BY TillIdle DEF DeskIdle, TillRows, InStock, Collecting
  <2>3. desk' = [desk EXCEPT ![d] = row] /\ soldTo' = soldTo
    BY <1>5, <2>1 DEF pickVoucher
  <2> HIDE DEF row
  <2> QED  BY <1>1, <1>2, <2>2, <2>3
<1>6. ASSUME NEW b \in Buyers, sellAgentVoucher(d, b) PROVE ColumnsInv'
  <2>1. PICK v \in desk[d].take :
          /\ soldTo' \in {soldTo, [soldTo EXCEPT ![v] = @ \cup {b}]}
          /\ desk' \in {[desk EXCEPT ![d].take = {u}] : u \in InStock} \cup {[desk EXCEPT ![d] = DeskIdle]}
    BY <1>6 DEF sellAgentVoucher
  <2>2. soldTo' \in [Vouchers -> SUBSET Buyers]
    BY <1>1, <2>1 DEF TillRows
  <2>3. ASSUME NEW u \in InStock, desk' = [desk EXCEPT ![d].take = {u}] PROVE ColumnsInv'
    <3> DEFINE row == [desk[d] EXCEPT !.take = {u}]
    <3>1. desk[d] \in TillRows /\ u \in Vouchers /\ desk[d].pc = "sell"
      BY <1>1, <1>6 DEF InStock, sellAgentVoucher
    <3>2. row \in TillRows /\ ~Collecting(row)
      BY <3>1 DEF TillRows, Collecting
    <3>3. desk' = [desk EXCEPT ![d] = row]
      BY <2>3
    <3> HIDE DEF row
    <3> QED  BY <1>2, <2>2, <3>2, <3>3
  <2>4. CASE desk' = [desk EXCEPT ![d] = DeskIdle]
    BY <1>2, <1>3, <2>2, <2>4, TillIdle
  <2> QED  BY <2>1, <2>3, <2>4
<1> QED  BY <1>4, <1>5, <1>6

\* An agent's tables keep the values of their columns, also where collections overlap or a
\* request is repeated while it runs: no bill falls below zero.
THEOREM AgentTyped == AgentSpec => []AgentTypeOK
<1>1. AgentInit => ColumnsInv
  <2>1. ~Collecting(DeskIdle)
    BY TillIdle DEF Collecting
  <2> QED  BY <2>1, InitAgent DEF ColumnsInv, AgentInv, AgentInit
<1>2. ColumnsInv /\ [AgentNext]_agentVars => ColumnsInv'
  <2>1. CASE UNCHANGED agentVars
    BY <2>1 DEF agentVars, ColumnsInv, AgentTypeOK, Collecting, PartsFit
  <2> QED  BY <2>1, RequestColumns, ListColumns, ReadColumns, CollectColumns, OtherColumns DEF AgentNext
<1>3. ColumnsInv => AgentTypeOK
  BY DEF ColumnsInv
<1> QED  BY <1>1, <1>2, <1>3, PTL DEF AgentSpec

-------------------------------------------------------------------------------
(* The ways side by side: each behaves as it does alone. *)

LEMMA EachWayAlone == CollectionsSpec => GatewaySpec /\ StkSpec /\ C2BSpec /\ CardSpec /\ AgentSpec
<1> DEFINE allVars == <<focus, gatewayVars, stkVars, c2bVars, cardVars, agentVars>>
<1>1. CollectionsInit => GatewayInit /\ StkInit /\ C2BInit /\ CardInit /\ AgentInit
  BY DEF CollectionsInit
<1>2. [CollectionsNext]_allVars => [GatewayNext]_gatewayVars
  BY DEF CollectionsNext, GatewayTurn, StkTurn, C2BTurn, CardTurn, AgentTurn
<1>3. [CollectionsNext]_allVars => [StkNext]_stkVars
  BY DEF CollectionsNext, GatewayTurn, StkTurn, C2BTurn, CardTurn, AgentTurn
<1>4. [CollectionsNext]_allVars => [C2BNext]_c2bVars
  BY DEF CollectionsNext, GatewayTurn, StkTurn, C2BTurn, CardTurn, AgentTurn
<1>5. [CollectionsNext]_allVars => [CardNext]_cardVars
  BY DEF CollectionsNext, GatewayTurn, StkTurn, C2BTurn, CardTurn, AgentTurn
<1>6. [CollectionsNext]_allVars => [AgentNext]_agentVars
  BY DEF CollectionsNext, GatewayTurn, StkTurn, C2BTurn, CardTurn, AgentTurn
<1> QED  BY <1>1, <1>2, <1>3, <1>4, <1>5, <1>6, PTL
         DEF CollectionsSpec, GatewaySpec, StkSpec, C2BSpec, CardSpec, AgentSpec

\* Whichever way money comes in, the tables it writes keep the values of their columns.
THEOREM CollectionsTyped == CollectionsSpec => []CollectionsTypeOK
<1>1. C2BInv => C2BTypeOK
  BY DEF C2BInv
<1>2. CardInv => CardTypeOK
  BY DEF CardInv
<1>3. GatewayTypeOK /\ StkTypeOK /\ C2BTypeOK /\ CardTypeOK /\ AgentTypeOK => CollectionsTypeOK
  BY DEF CollectionsTypeOK
<1> QED  BY <1>1, <1>2, <1>3, EachWayAlone, GatewayTypes, StkTyped, C2BInductive, CardInductive, AgentTyped, PTL

===============================================================================
