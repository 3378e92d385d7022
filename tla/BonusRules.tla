----------------------------- MODULE BonusRules -----------------------------
(***************************************************************************)
(* The stateless rules of vp-engine/internal/bonusengine: the throttle of  *)
(* a period, what a payment is worth under it, and its split between the   *)
(* retirement plan and the wallet.                                         *)
(*                                                                         *)
(* Money is an integer number of cents, a rate a percentage, and theta an  *)
(* integer of 0..scale (scale is 10^6 in numeric(8,6)).                    *)
(***************************************************************************)
EXTENDS Integers

Least(x, y) == IF x <= y THEN x ELSE y

\* x - y where the code replaces a negative difference by zero.
Minus(x, y) == IF x <= y THEN 0 ELSE x - y

Percent(rate, amount) == (rate * amount) \div 100

\* The treasury's share of the inflows over the projected payments, at most one and
\* rounded down; one when there is nothing to pay.
ComputeTheta(alpha, inflows, projected, scale) ==
  IF projected <= 0 THEN scale
  ELSE Least(scale, (alpha * inflows * scale) \div (100 * projected))

\* A gross amount under theta, rounded down to the cent.
NetOf(gross, theta, scale) == (gross * theta) \div scale

\* The part of a net amount that goes to the retirement plan; the rest is the wallet's.
ToRetirement(net, pct) == IF pct <= 0 THEN 0 ELSE Least(net, Percent(pct, net))
ToWithdrawable(net, pct) == net - ToRetirement(net, pct)
=============================================================================
