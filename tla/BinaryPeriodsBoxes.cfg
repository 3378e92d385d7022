\* Two boxes run the cycle over three weeks and may fail anywhere.
SPECIFICATION FairSpec
CONSTANTS
  Boxes = {x1, x2}
  Earners <- OneEarner
  Buyers <- TwoBuyers
  Leg <- MCLeg
  Sponsor <- MCSponsor
  Plan <- QuietPlan
  Standings <- FullOnly
  Late = TRUE
  MaxWeek = 3
  MaxSales = 1
  None = None
PROPERTIES
  ClosesInTurn
  EndedCloses
