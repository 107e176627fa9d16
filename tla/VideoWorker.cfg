CONSTANTS
    a = a
    b = b
    Ids <- MCIds
    Priorities <- OnePriority
    MaxEnqueues = 2
    MaxSize = 2
    Pendings <- AlwaysPending
    SlowSend = FALSE
    MaxConns = 2
    MaxChunks = 1
SPECIFICATION FairVideoSpec
INVARIANTS PendingIsWatched    AnsweredOnce QueuedKnowsItsClient
PROPERTIES PendingEnds ServingEnds
CHECK_DEADLOCK FALSE
