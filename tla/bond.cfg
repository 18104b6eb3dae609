SPECIFICATION FairSpec
CONSTANTS
  Slot = {p1, p2}
  t1 = t1
  Task = {t1}
  Invocations <- Mixed
  Prices <- PriceRange
  Funds = 3
  MaxRuns = 2
INVARIANTS
  ClaimsAreBonds
  SaysPosted
  NoBondAfterVerified
PROPERTIES
  ReportLeadsToPosted
  BondRunEnds
CHECK_DEADLOCK FALSE
