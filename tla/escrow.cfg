SPECIFICATION FairSpec
CONSTANTS
  b1 = b1
  b2 = b2
  NoEscrow = NoEscrow
  Run = {r1, r2}
  r1 = r1
  r2 = r2
  Bid = {b1, b2}
  Commands <- Shared
  Total <- Prices
  Funds = 4
  Grants = {1, 2}
  MinLifetime = 2
  MaxTime = 1
  MaxRuns = 2
INVARIANTS
  FinalizedIsFunded
  SuccessIsFinal
  OneOpenPerRun
  PreflightSound
  AllowanceUsedUp
CHECK_DEADLOCK FALSE
PROPERTIES RunEnds
