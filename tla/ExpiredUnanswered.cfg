CONSTANTS
    a = a
    b = b
    Ids <- MCIds
    Priorities <- OnePriority
    MaxEnqueues = 2
    MaxSize = 2
    Pendings <- NeverPending
    SlowSend = FALSE
SPECIFICATION LlmSpec
INVARIANT ExpiredIsAnswered
CHECK_DEADLOCK FALSE
