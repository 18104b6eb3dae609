SPECIFICATION Spec
CONSTANTS
    w1 = w1
    w2 = w2
    fa = fa
    fb = fb
    Workers = {w1}
    None = None
    Files = {fa, fb}
    Uploads <- MCUploads
    Local = TRUE
    AllowCustom = FALSE
    Expiry = 2
    BaseDelay = 1
    MaxBackoff = 2
    MaxStored = 2
    MaxSide = 1
INVARIANTS GoalReached PutOnce
PROPERTIES SubmissionIsWhole CommandEnds
CHECK_DEADLOCK FALSE
