\* The money of up to three weeks: one box closes while purchases, some of them
\* late, and the ROI go on.
SPECIFICATION Spec
CONSTANTS
  Boxes = {x1}
  Earners <- TwoEarners
  Buyers <- TwoBuyers
  Leg <- MCLeg
  Sponsor <- MCSponsor
  Plan <- MCPlan
  Standings <- AnyStanding
  Late = TRUE
  MaxWeek = 3
  MaxSales = 4
  None = None
INVARIANTS
  
  LimitsKept
  

  
