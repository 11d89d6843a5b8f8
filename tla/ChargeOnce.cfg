CONSTANTS
  p1 = p1  p2 = p2  p3 = p3  t1 = t1  t2 = t2
  NoRow = NoRow
  Rows <- TwoRows
  Tabs <- TwoTabs
  Mishaps <- Stoppages
SPECIFICATION FairSpec
INVARIANT NeverBothPaid
PROPERTIES ChargedOnce BuyerHasAnswer NeverAskedOnAGuess
CHECK_DEADLOCK FALSE
