CONSTANTS
  p1 = p1  p2 = p2  p3 = p3  t1 = t1  t2 = t2
  NoRow = NoRow
  Rows <- TwoRows
  Tabs <- TwoTabs
  Mishaps <- Haste
SPECIFICATION Spec
INVARIANTS NeverBothPaid
CHECK_DEADLOCK FALSE
