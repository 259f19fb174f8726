--------------------------------- MODULE Fees ---------------------------------
(***************************************************************************)
(* Platform fee arithmetic (packages/payments/src/gateway/fees.ts): the    *)
(* fee taken from a collected payment and the share of it that goes back   *)
(* with each refund.  Everything is a whole number of minor units.         *)
(***************************************************************************)
EXTENDS Integers

Smaller(a, b) == IF a <= b THEN a ELSE b

\* A fee rule the code accepts: basis points in 0..10000 and a fixed part.
FeeRules == [percentBps : 0..10000, fixedMinor : Nat]

\* gross * bps / 10000 rounded half up, plus the fixed part, capped at gross.
FeeOf(grossMinor, rule) ==
    LET percentPart == (grossMinor * rule.percentBps + 5000) \div 10000
    IN  Smaller(grossMinor, percentPart + rule.fixedMinor)

calculateFee(grossMinor, rule) ==
    LET feeMinor == FeeOf(grossMinor, rule)
    IN  [grossMinor |-> grossMinor, feeMinor |-> feeMinor,
         netMinor |-> grossMinor - feeMinor]

\* Mutant of feeShareForRefund: the last refund, too, returns its rounded share only.
ShareWithoutRemainder(grossMinor, feeMinor, alreadyRefunded, feeReturned, refundMinor) ==
    Smaller(feeMinor - feeReturned, (feeMinor * refundMinor) \div grossMinor)

\* The refund that completes the transaction returns all the fee that is left;
\* an earlier one its share of the whole fee, rounded down.
feeShareForRefund(grossMinor, feeMinor, alreadyRefunded, feeReturned, refundMinor) ==
    LET remainingFee == feeMinor - feeReturned
    IN  IF alreadyRefunded + refundMinor >= grossMinor
        THEN remainingFee
        ELSE Smaller(remainingFee, (feeMinor * refundMinor) \div grossMinor)

===============================================================================
