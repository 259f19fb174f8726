----------------------------- MODULE MCSettlement -----------------------------
(* Constants for model-checking settlements together with the collections they *)
(* pay out and the refunds that compete for the same balance.                  *)
EXTENDS Settlement, TLC

MCFeeRule == [percentBps |-> 200, fixedMinor |-> 0]

Symmetry == Permutations(Callers) \cup Permutations(Txns)
===============================================================================
