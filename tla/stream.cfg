SPECIFICATION FairSpec
CONSTANTS
  MaxEvent = 2
  MaxFault = 2
INVARIANTS
  AckedIsConfirmed
PROPERTIES
  AckedInOrder
  SentinelsInOrder
  SignalEnds
  EveryEventAcked
CHECK_DEADLOCK FALSE
