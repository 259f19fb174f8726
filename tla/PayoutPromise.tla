----------------------------- MODULE PayoutPromise -----------------------------
(***************************************************************************)
(* What settlements promise the platform and its tenants, without saying   *)
(* how: a claim on a tenant's balance is reserved out of what they are     *)
(* owed, and is then either paid, once, or given back, once, in full.      *)
(* A claim that is paid can no longer be given back, nor the reverse.      *)
(***************************************************************************)
EXTENDS Integers

CONSTANTS Claims, Tenants

VARIABLES
    claim,      \* each claim: absent, reserved, paid or returned; and for whom
    owed        \* what each tenant can still claim (negative: they owe it)

promiseVars == <<claim, owed>>

Init ==
    /\ \A s \in Claims : claim[s].state = "absent"
    /\ \A t \in Tenants : owed[t] = 0

\* The tenant's balance moves by d and nobody else's does.
OwedMoves(t, d) == owed' = [owed EXCEPT ![t] = @ + d]

OthersKept(s) == \A r \in Claims \ {s} : claim'[r] = claim[r]

Reserve(s) ==
    LET c == claim'[s] IN
    /\ claim[s].state = "absent" /\ c.state = "reserved"
    /\ c.amount \in 1..owed[c.tenant]
    /\ OwedMoves(c.tenant, - c.amount)
    /\ OthersKept(s)

Pay(s) ==
    /\ claim[s].state = "reserved"
    /\ claim'[s] = [claim[s] EXCEPT !.state = "paid"]
    /\ OthersKept(s)
    /\ UNCHANGED owed

Return(s) ==
    /\ claim[s].state = "reserved"
    /\ claim'[s] = [claim[s] EXCEPT !.state = "returned"]
    /\ OwedMoves(claim[s].tenant, claim[s].amount)
    /\ OthersKept(s)

\* Collections and refunds change what one tenant is owed, and no claim.
Account(t) ==
    /\ \A u \in Tenants \ {t} : owed'[u] = owed[u]
    /\ UNCHANGED claim

Next ==
    \/ \E s \in Claims : Reserve(s) \/ Pay(s) \/ Return(s)
    \/ \E t \in Tenants : Account(t)

Spec == Init /\ [][Next]_promiseVars

===============================================================================
