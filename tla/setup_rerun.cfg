SPECIFICATION Spec
CONSTANTS
  Slot = {p1}
  Invocations <- OwnPath
  MaxRuns = 2
  MaxDeleted = 0
PROPERTY KeySurvivesRerun
CHECK_DEADLOCK FALSE
