CONSTANTS
    a = a
    b = b
    Ids <- MCIds
    Priorities <- MCPriorities
    MaxEnqueues = 3
    MaxSize = 3
    Pendings <- AlwaysPending
    SlowSend = FALSE
SPECIFICATION Spec
INVARIANT FirstIsSignalled
CHECK_DEADLOCK FALSE
