CONSTANTS
  ann = ann
  bob = bob
  sue = sue
  Nobody = Nobody
  Owner = sue
  Bidders = {ann}
  EmailEnabled = {ann}
  Lots = {1}
  InitialLots = {1}
  Ceilings = {4800}
  StartPrice = 4800
  StartPrices = {4800}
  Increments = {0}
  Reserves = {5000}
  CloseTimes = {}
  StartTime = 0
  MaxBids = 1
  MaxEdits = 1
  Horizon = 3
SPECIFICATION Spec
PROPERTIES PayoutAgreesAtClose
CHECK_DEADLOCK FALSE
