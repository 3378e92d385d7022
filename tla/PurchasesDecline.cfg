\* As PurchasesLive, and a card may be refused before another one pays.
SPECIFICATION LiveSpec
CONSTANTS
  Buyers <- OneBuyer
  Intents = {i1}
  Sessions = {s1}
  BuyerOf <- AllAna
  PackageOf <- SamePack
  Workers = {x1, w}
  Sweepers = {w}
  Happens = {"decline"}
  None = None
PROPERTIES
  LostWebhookRecovered
CHECK_DEADLOCK FALSE
