\* Two requests and two admins on the wallet of one member and credits that ops
\* freezes and releases; or one withdrawal while BMP's accounts change, BMP may not
\* answer, and a link to another mail is requested and reviewed.
SPECIFICATION MCSpec
CONSTANTS
  Members <- OneMember
  Mails <- TwoMails
  SessionMail <- MCSessionMail
  Sessions = {s1, s2}
  Admins = {a1, a2}
  Registered = {a1}
  Rows = {w1, w2}
  Links = {l1}
  Credits = {"c1", "c2"}
  CreditOwner <- MCCreditOwner
  CreditAmount <- MCCreditAmount
  Amounts = {1}
  MinWithdrawal = 1
  RawAnswers <- ComeAndGo
  RequireBMP = TRUE
  BMPEnabled = TRUE
  BMPFreshness = 0
  MaxClock = 1
  Freezable = {"c1"}
  Bannable <- OneMember
  OpsAvoids = {"request", "payment"}
  None = None
  Scenarios = {"money", "bmp"}
SYMMETRY Interchangeable
INVARIANTS
  EarnedCoversReserved
  EvidenceIsReal
PROPERTIES
  KeepsPromise
  PayLeavesCovered
