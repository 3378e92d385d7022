-------------------------- MODULE MCBinaryPeriods --------------------------
(***************************************************************************)
(* Instances of BinaryPeriods for TLC: "up" has "mid" in its left leg;     *)
(* "near" buys under mid, in its right leg, and "side" in the right leg of *)
(* up.  With one earner mid is left out and up only gets the royalty.      *)
(***************************************************************************)
EXTENDS BinaryPeriods

OneEarner == {"up"}
TwoEarners == {"up", "mid"}
TwoBuyers == {"near", "side"}

MCLeg ==
  [b \in Buyers |-> [a \in Earners |->
     CASE a = "up" -> (IF b = "side" THEN "R" ELSE "L")
       [] a = "mid" -> (IF b = "near" THEN "R" ELSE "none")]]

MCSponsor ==
  [b \in Buyers |->
     IF b = "side" THEN [first |-> "up", second |-> None]
     ELSE [first |-> IF "mid" \in Earners THEN "mid" ELSE None, second |-> "up"]]

\* Amounts in dollars; the caps bite after two blocks, theta after the first streams.
MCPlan ==
  [pv |-> 2, price |-> 20, blockSize |-> 2, bonusPerBlock |-> 8, alpha |-> 50, scale |-> 100,
   periodCap |-> 10, packageCap |-> 19, reduction |-> 50, referralRate |-> 10, royaltyRate |-> 5,
   pointsPerBlock |-> 1, dollarsPerPoint |-> 6, pointsCadence |-> 2,
   yieldGross |-> 1, yieldCadence |-> 2,
   rankPoints |-> 2, rankBonus |-> 5, rankInstallments |-> 2, rankCadence |-> 1, roi |-> 1]

\* The same without the ROI.
QuietPlan == [MCPlan EXCEPT !.roi = 0]

FullOnly == {"full"}
AnyStanding == {"out", "reduced", "full"}
=============================================================================
