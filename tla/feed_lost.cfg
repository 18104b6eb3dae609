SPECIFICATION Spec
CONSTANTS
    Slots = {p1, p2}
    MaxEvents = 3
    PageSize = 2
    MaxHooks = 2
    MaxFaults = 1
INVARIANTS CursorWaitsForAck
CHECK_DEADLOCK FALSE
