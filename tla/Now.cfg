SPECIFICATION NowSpec
CONSTANTS
  Orders = {o1, o2}
  Requests = {q1}
  Payments = {p1, p2}
  Statuses = {"waiting", "finished", "refunded"}
  Handlers = {h1, h2}
  Runners = {r1, r2}
  Mortal = {r1}
  Capacity = 2
  Happens = {"cancel", "buyer", "invoiceFails", "failures"}
  MaxCaptures = 2
  Nobody = Nobody
  Scenarios = {"requests", "failures", "handlers", "runners", "payments", "weeks", "manual"}
  FirstOrder = o1
  FirstPayment = p1
  FirstHandler = h1
  FirstRunner = r1
  Members = {1, 2, 3, 4, 5}
  Root = 1
  Sponsor <- MC_Sponsor
  FirstNode <- MC_Node
  Founders = {3}
  Catalog <- MC_Catalog
  Operations = {k1}
  BaseRate = 25
  UpliftRate = 30
  Year = 7
  Term = 3
  Week = 2
  CapFactor = 60
  WeekCap = 60
  ReferralRate = 5
  RoyaltyRate = 5
  Alpha = 18
  Unit = 100
  Block = 1
  Depth = 3
  MaxAccruals = 2
  MaxWeeks = 1
  Scale = 1000
  Changes = {"suspend", "risk", "move"}
  MaxSources = 4
  MaxDay = 4
CHECK_DEADLOCK FALSE
INVARIANTS
  ActivatedIsClean DeliveredOnce AckedIsStored
  RoiExact PaidWithinLimits VolumePaidOnce
