SPECIFICATION OfficeSpec
CONSTANTS
  KycPeople = {p1}
  Docs = {d1, d2}
  DocOwner <- MC_DocOwner
  DocType <- MC_DocType
  Names <- MC_Names
  Readings <- MC_Readings
  Boxes = {b1}
  Confirmers = {u1}
  OCREnabled = TRUE
  RunTime = 1
  MinAge = 2
  MaxAge = 4
  SweepLimit = 1
  NoDoc = NoDoc
  Proposals = {q1, q2}
  Deciders = {h1, h2}
  PlanAdmins = {a1, a2}
  Changes <- MC_Changes
  FirstPlan <- MC_FirstPlan
  FirstProposal = q1
  FirstDecider = h1
  FirstPlanAdmin = a1
  Inflows = {0, 100}
  ROI = 20
  MaxTime = 2
  Callers = {c1, c2}
  Refs = {"credit", "transfer", "uneven"}
  Wallets = {"a", "b", "c"}
  PairNeeded = {"transfer", "uneven"}
  Meant <- MC_Meant
  Scenarios = {"documents", "plan", "ledger"}
CHECK_DEADLOCK FALSE
INVARIANTS  NoChangeLost
PROPERTIES PendingIsReviewed 
