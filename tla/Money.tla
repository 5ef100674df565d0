------------------------------- MODULE Money -------------------------------
(***************************************************************************)
(* The fee arithmetic of the simulated broker (domain/account/money.rs).   *)
(* Amounts are integers of the smallest currency unit; the rates are       *)
(* fractions of RateScale.  The transfer fee (Shanghai stocks only, a      *)
(* hundred-thousandth of the notional, no minimum) is left out.            *)
(***************************************************************************)
EXTENDS Integers

CONSTANTS
    MinCommission,   \* the least commission of a fill (5 yuan in the shipped policy)
    CommissionRate,  \* commission, charged on both sides, per RateScale
    StampTaxRate,    \* stamp tax, charged on sales only, per RateScale
    RateScale

(* The shipped policy: 5 yuan at least, 0.0003 and 0.0005 of the amount. *)
ASSUME FeeAssumption ==
    /\ MinCommission \in Nat \ {0}
    /\ CommissionRate \in Nat
    /\ StampTaxRate \in Nat
    /\ RateScale \in Nat \ {0}
    /\ CommissionRate + StampTaxRate <= RateScale

(* Decimal::round_dp(2): to the nearest unit, a tie to the even one. *)
Rounded(n) ==
    LET whole == n \div RateScale
        twice == 2 * (n % RateScale)
    IN  IF twice > RateScale \/ (twice = RateScale /\ whole % 2 = 1)
        THEN whole + 1
        ELSE whole

Commission(amount) ==
    LET raw == Rounded(amount * CommissionRate)
    IN  IF raw < MinCommission THEN MinCommission ELSE raw

StampTax(amount) == Rounded(amount * StampTaxRate)

(* What an accepted limit buy sets aside for the shares still to come. *)
EstimatedBuyCost(price, quantity) ==
    price * quantity + Commission(price * quantity)

(* The change of cash a fill brings. *)
CashDelta(side, price, quantity) ==
    LET amount == price * quantity
    IN  IF side = "buy"
        THEN - amount - Commission(amount)
        ELSE amount - Commission(amount) - StampTax(amount)
=============================================================================
