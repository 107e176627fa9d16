SPECIFICATION Spec
CONSTANTS
    Registry <- MCRegistry
    Size <- MCSize
    Jobs <- MCJobs
    Needs <- MCNeeds
    Handles <- MCHandles
    ForeignUse <- MCForeignUse
    Total = 8
    Headroom = 1
    NoJob = NoJob
INVARIANT WaitsForHolders
