CONSTANTS
  ann = ann
  bob = bob
  sue = sue
  Nobody = Nobody
  Owner = sue
  Bidders = {ann, bob, sue}
  EmailEnabled = {ann, bob}
  Lots = {1, 2}
  InitialLots = {1}
  Ceilings = {5000, 5300}
  StartPrice = 4800
  StartPrices = {4800}
  Increments = {100}
  Reserves = {}
  CloseTimes = {}
  StartTime = 0
  MaxBids = 3
  MaxEdits = 1
  Horizon = 0
SYMMETRY Alike
SPECIFICATION Spec
INVARIANTS TypeOK LeaderIsTopBidder ShownPriceIsTopBid NobodyBidsAboveTheirMaximum DisplacedLeadersAreTold
PROPERTIES PriceOnlyRises SoldByProxy
CHECK_DEADLOCK FALSE
