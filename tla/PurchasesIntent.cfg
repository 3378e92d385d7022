\* One intent with two Stripe sessions and three handlers: everything happens but
\* a refund that is lost after Stripe made it.
SPECIFICATION Spec
CONSTANTS
  Buyers <- OneBuyer
  Intents = {i1}
  Sessions = {s1, s2}
  BuyerOf <- AllAna
  PackageOf <- SamePack
  Workers = {x1, x2, x3}
  Sweepers = {}
  Happens = {"decline", "expire", "resume", "refund", "dispute", "ban", "failures", "mailDown", "edit"}
  None = None
SYMMETRY Interchangeable
INVARIANTS
  DeliveredIsPaid
  
PROPERTIES
  RiskIsKept
  PaymentKept
  RefundStopsDelivery
CHECK_DEADLOCK FALSE
