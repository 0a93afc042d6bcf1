SPECIFICATION FairSpec
CONSTANTS
  c1 = c1
  c2 = c2
  h1 = h1
  h2 = h2
  h3 = h3
  None = None
  Cluster = {c1, c2}
  Handler = {h1, h2}
  Home <- HomeOf
  Endpoints <- AllOthers
  LeaseDuration = 2
  MaxSkew = 0
  MaxWork = 9
  MaxTime = 4
  Faults = {h1}
INVARIANTS
  NoWaitInVain
PROPERTIES
  TakeoverOnlyExpired
  RequestsOnlyAdvance
  UnopposedStaysOnCourse
  EveryRequestAnswered
  ExpiredLocksHeal
