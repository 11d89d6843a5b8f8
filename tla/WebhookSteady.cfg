CONSTANTS
  e1 = e1
  e2 = e2
  d1 = d1
  d2 = d2
  d3 = d3
  s1 = s1
  s2 = s2
  Events = {e1}
  Deliveries = {d1, d2, d3}
  Servers = {s1, s2}
  MaxAttempts = 2
  MaxProcessed = 1
SPECIFICATION FairSteady
INVARIANTS OneHandlerAtATime CacheIsAuthoritative
PROPERTIES EveryEventProcessed HandledExclusively
CHECK_DEADLOCK FALSE
