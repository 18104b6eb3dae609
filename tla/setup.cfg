SPECIFICATION Spec
CONSTANTS
  Slot = {p1, p2}
  Invocations <- DefaultPaths
  MaxRuns = 3
  MaxDeleted = 1
INVARIANTS
  RegisteredKeyOnDisk
  ConfigReadable
  ConfigMatchesServer
  NoAgentForgotten
  EditKept
SYMMETRY SlotSymmetry
CHECK_DEADLOCK FALSE
