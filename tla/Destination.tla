----------------------------- MODULE Destination -----------------------------
(***************************************************************************)
(* classifyDestination (packages/core/src/destination.ts).  A pasted text  *)
(* is what its parser tells apart: blank, anything that is no invoice, or  *)
(* the human-readable part of an invoice with its digits and multiplier.   *)
(***************************************************************************)
EXTENDS Integers

CONSTANTS
    SatsExponent,   \* SATS_EXPONENT: a bitcoin is 10^SatsExponent satoshis
    MaxSafe         \* MAX_SAFE, the largest amount shown exactly

ASSUME DestinationAssumption == {SatsExponent, MaxSafe} \subseteq Nat

TenExponent == [none |-> 0, m |-> 3, u |-> 6, n |-> 9, p |-> 12]
Multipliers == DOMAIN TenExponent

(* The digits of an amountless invoice are absent, here -1.                *)
NoDigits == -1
Blank == [form |-> "blank"]
Other == [form |-> "other"]
Bolt11(digits, multiplier) == [form |-> "bolt11", digits |-> digits, multiplier |-> multiplier]

Known(sat) == [status |-> "known", sat |-> sat]
Amountless == [status |-> "amountless"]
Unrepresentable == [status |-> "unrepresentable"]

(* satsFromHrp: a decimal shift, exact or refused.                         *)
AmountOf(digits, multiplier) ==
    LET exponent == SatsExponent - TenExponent[multiplier]
        exact == exponent >= 0 \/ digits % 10^(-exponent) = 0
        sats == IF exponent >= 0 THEN digits * 10^exponent ELSE digits \div 10^(-exponent)
    IN IF exact /\ sats > 0 /\ sats <= MaxSafe THEN Known(sats) ELSE Unrepresentable

ClassifyDestination(paste) ==
    CASE paste.form = "blank" -> [kind |-> "empty"]
      [] paste.form = "other" -> [kind |-> "address"]
      [] paste.form = "bolt11" ->
           [kind |-> "invoice",
            amount |-> IF paste.digits = NoDigits THEN Amountless
                       ELSE AmountOf(paste.digits, paste.multiplier)]
=============================================================================
