CONSTANTS
  o1 = o1
  o2 = o2
  c1 = c1
  c2 = c2
  Orders = {o1, o2}
  Proceeds <- MCProceeds
  Total <- MCTotal
  Partials = {1}
  Corrections = {c1, c2}
  Difference <- MCDifference
  MaxWeeks = 2
  MaxPayouts = 5
  MaxUpsets = 3
SPECIFICATION FairSpec
INVARIANTS TypeOK PaidTwiceOnlyAfterLostCommit PaidAsStated RefundAfterPayoutIsRecovered
PROPERTIES DueIsPrepared
CHECK_DEADLOCK FALSE
