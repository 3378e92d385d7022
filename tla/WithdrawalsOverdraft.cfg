\* Ops freezes a credit while no payment transaction is between its reads and its
\* commit, but possibly while a request is.
SPECIFICATION MCSpec
CONSTANTS
  Members <- OneMember
  Mails <- OneMail
  SessionMail <- MCSessionMail
  Sessions = {s1, s2}
  Admins = {a1, a2}
  Registered = {a1}
  Rows = {w1, w2}
  Links = {}
  Credits = {"c1", "c2"}
  CreditOwner <- MCCreditOwner
  CreditAmount <- MCCreditAmount
  Amounts = {1}
  MinWithdrawal = 1
  RawAnswers <- ClearedOnly
  RequireBMP = FALSE
  BMPEnabled = FALSE
  BMPFreshness = 1
  MaxClock = 0
  Freezable = {"c1"}
  Bannable = {}
  OpsAvoids = {"payment"}
  None = None
  Scenarios = {"money"}
SYMMETRY Interchangeable
PROPERTIES
  PayNeverOverdraws
