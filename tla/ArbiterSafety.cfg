SPECIFICATION Spec
CONSTANTS
    Registry <- MCRegistry
    Size <- MCSize
    Jobs <- MCJobs
    Needs <- MCNeeds
    Handles <- MCHandles
    ForeignUse <- MCForeignUse
    Total = 8
    Headroom = 1
    NoJob = NoJob
INVARIANTS
    TypeOK
    HoldAccounting
    HeldStaysResident
    OwnModelsSpared
    TransientAccounting
    NoStrandedReservation
    WaitsBesideLease
PROPERTY KeepsPromise
