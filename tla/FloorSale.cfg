CONSTANTS
  ann = ann
  bob = bob
  sue = sue
  Nobody = Nobody
  Owner = sue
  Bidders = {ann}
  EmailEnabled = {ann}
  Lots = {1, 2}
  InitialLots = {1, 2}
  Ceilings = {5000}
  StartPrice = 4800
  StartPrices = {}
  Increments = {}
  Reserves = {4900}
  CloseTimes = {}
  StartTime = 0
  MaxBids = 2
  MaxEdits = 0
  Horizon = 6
SPECIFICATION FairSale
INVARIANTS EndCoversOpenLots PayoutIsSumOfSales SoldAtTopBid
PROPERTIES NoLotClosedEarly SaleEnds EveryBidAnswered
CHECK_DEADLOCK FALSE
