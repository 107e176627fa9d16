CONSTANTS
    a = a
    b = b
    Ids <- MCIds
    Priorities <- MCPriorities
    MaxEnqueues = 3
    MaxSize = 3
    Pendings <- MayBePending
    SlowSend = TRUE
SPECIFICATION FairSpec
INVARIANTS CancelledNeverServed LookupLostOnlyByReuse SleepsBehindCancelledOnly
PROPERTIES KeepsQueueOrder EveryRequestLeaves
CHECK_DEADLOCK FALSE
