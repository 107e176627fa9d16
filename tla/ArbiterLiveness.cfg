SPECIFICATION FairSpec
CONSTANTS
    Registry <- SharedRegistry
    Size <- SharedSize
    Jobs <- SharedJobs
    Needs <- SharedNeeds
    Handles <- SharedHandles
    ForeignUse <- MCForeignUse
    Total = 5
    Headroom = 1
    NoJob = NoJob
PROPERTY
    AcquireEnds
