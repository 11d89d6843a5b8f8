CONSTANTS
  e1 = e1
  e2 = e2
  d1 = d1
  d2 = d2
  d3 = d3
  s1 = s1
  s2 = s2
  Events = {e1, e2}
  Deliveries = {d1, d2}
  Servers = {s1}
  MaxAttempts = 2
  MaxProcessed = 1
SPECIFICATION FairSpec
INVARIANTS TypeOK ProcessedWasHandled
PROPERTIES EveryRequestAnswered
CHECK_DEADLOCK FALSE
