----------------------------- MODULE MCCollections -----------------------------
(* The ways a customer's money comes in, checked side by side: a behaviour      *)
(* chooses one of them at the start, the focus, and the others stand still.     *)
(* They share no state, so this is what a run for each would check.  STK pushes *)
(* are taken twice: one push and all workers, or all pushes and one worker, on  *)
(* the ISP's own paybill, so that more requests may be stranded than a pass of  *)
(* the replay takes.                                                            *)
EXTENDS GatewayLedger, StkRequest, PaybillC2B, CardGateway, AgentSales

VARIABLE focus

\* 10 % plus a fixed part on odd amounts makes every partial refund's fee share round.
MCFeeRule == [percentBps |-> 1000, fixedMinor |-> 3]

CollectionsInit ==
    /\ focus \in {"gateway", "stk", "replay", "c2b", "card", "agent"}
    /\ GatewayInit /\ StkInit /\ C2BInit /\ CardInit /\ AgentInit
    /\ focus \notin {"stk", "replay"} => \A p \in Pushes : stk[p] = NoRow
    /\ focus # "c2b" => \A x \in Transfers : meant[x] = Nobody

GatewayTurn == focus = "gateway" /\ GatewayNext /\ UNCHANGED <<stkVars, c2bVars, cardVars, agentVars>>

OnePush == \A p \in Pushes \ OldFailures : prompt'[p] = "none"

OneWorker ==
    \A w \in StkWorkers :
        /\ stkWorker'[w].by = "OWN"
        /\ w # (CHOOSE v \in StkWorkers : TRUE) => stkWorker'[w] = StkIdle

StkTurn ==
    /\ focus \in {"stk", "replay"} /\ StkNext
    /\ IF focus = "stk" THEN OnePush ELSE OneWorker
    /\ UNCHANGED <<gatewayVars, c2bVars, cardVars, agentVars>>

C2BTurn == focus = "c2b" /\ C2BNext /\ UNCHANGED <<gatewayVars, stkVars, cardVars, agentVars>>

CardTurn == focus = "card" /\ CardNext /\ UNCHANGED <<gatewayVars, stkVars, c2bVars, agentVars>>

AgentTurn == focus = "agent" /\ AgentNext /\ UNCHANGED <<gatewayVars, stkVars, c2bVars, cardVars>>

CollectionsNext ==
    (GatewayTurn \/ StkTurn \/ C2BTurn \/ CardTurn \/ AgentTurn) /\ UNCHANGED focus

CollectionsSpec ==
    /\ CollectionsInit
    /\ [][CollectionsNext]_<<focus, gatewayVars, stkVars, c2bVars, cardVars, agentVars>>
    /\ StkFairness

\* The tables of all five hold what their columns may, and amounts fit in an INT4.
CollectionsTypeOK ==
    GatewayTypeOK /\ StkTypeOK /\ C2BTypeOK /\ CardTypeOK /\ AgentTypeOK
===============================================================================
