\* Two checkouts of one workspace, and four events.
SPECIFICATION Spec
CONSTANTS
  Checkouts = {c1, c2}
  NoCheckout = NoCheckout
  PriceIDForPlan <- MCPriceIDForPlan
  Prices <- MCPrices
  MaxEvents = 4
INVARIANTS
  TypeOK
  CheckoutsReachNobody
  OneCustomerUnlessTroubled
  StalePlanHasReason
CHECK_DEADLOCK FALSE
