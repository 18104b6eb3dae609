SPECIFICATION ClientSpec
CONSTANTS
    MaxRpcRetries = 2
    MaxCompletes = 2
    Word = 16
    MaxDuration = 40
    MaxShift = 3
    RpcBase = 1
    RpcShift = 2
    RpcCap = 3
    MaxRetryAfter = 30
    MaxRetries = 4
    Bases = {1, 3, 6}
    Caps = {5, 40}
    Attempts = {0, 1, 4, 7}
    RetryAfters = {0, 2, 35}
INVARIANTS KeyStaysHome TakenOnce DelaysGrow
PROPERTIES RunEnds
CHECK_DEADLOCK FALSE
