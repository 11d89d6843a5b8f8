CONSTANTS
  p1 = p1  p2 = p2  p3 = p3  t1 = t1  t2 = t2
  NoRow = NoRow
  Rows <- TwoRows
  Tabs <- TwoTabs
  Mishaps <- AllMishaps
SYMMETRY RowSymmetry
SPECIFICATION Spec
INVARIANTS TypeOK PaidMeansCharged
PROPERTIES PaymentIsFinal
CHECK_DEADLOCK FALSE
