CONSTANTS
  o1 = o1
  o2 = o2
  c1 = c1
  c2 = c2
  Orders = {o1, o2}
  Proceeds <- MCProceeds
  Total <- MCTotal
  Partials = {}
  Corrections = {}
  Difference <- MCNoDifference
  MaxWeeks = 2
  MaxPayouts = 4
  MaxUpsets = 2
SPECIFICATION Spec
INVARIANTS OrderIsPaidOnce
CHECK_DEADLOCK FALSE
