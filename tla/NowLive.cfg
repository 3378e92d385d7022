SPECIFICATION NowLiveSpec
CONSTANTS
  Orders = {o1}
  Requests = {q1}
  Payments = {p1}
  Statuses = {"waiting", "finished", "refunded"}
  Handlers = {h1}
  Runners = {r1, r2}
  Mortal = {r1}
  Capacity = 1
  Happens = {"cancel"}
  MaxCaptures = 0
  Nobody = Nobody
  Members = {1, 2, 3, 4}
  Root = 1
  Sponsor <- MC_Sponsor
  FirstNode <- MC_Node
  Founders = {3}
  Catalog <- MC_Catalog
  Operations = {k1}
  BaseRate = 25
  UpliftRate = 30
  Year = 7
  Term = 3
  Week = 2
  CapFactor = 60
  WeekCap = 60
  ReferralRate = 5
  RoyaltyRate = 5
  Alpha = 18
  Unit = 100
  Block = 1
  Depth = 3
  MaxAccruals = 2
  MaxWeeks = 1
  Scale = 1000
  Changes = {"risk"}
  MaxSources = 2
  MaxDay = 4
CHECK_DEADLOCK FALSE
PROPERTIES  EveryWeekCloses
