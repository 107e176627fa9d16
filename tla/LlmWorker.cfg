CONSTANTS
    a = a
    b = b
    Ids <- MCIds
    Priorities <- OnePriority
    MaxEnqueues = 3
    MaxSize = 2
    Pendings <- NeverPending
    SlowSend = FALSE
SPECIFICATION FairLlmSpec
INVARIANTS JobIsTheLeaseHolders CancelsItsOwn OneAnswerEach FirstIsSignalled
PROPERTY LlmServingEnds
CHECK_DEADLOCK FALSE
