CONSTANTS
  o1 = o1
  o2 = o2
  Orders = {o1, o2}
  Sizes = {1, 2}
  Quantities = {0, 2}
  MaxUpsets = 2
SPECIFICATION FairSpec
INVARIANTS TypeOK ChargedOrdersHoldTheirUnits UnitsAccountedFor InCheckoutIsHeld SoldIsNeverOffered
PROPERTIES UnitsArePromised EveryCheckoutEnds RefundIsRecorded
CHECK_DEADLOCK FALSE
