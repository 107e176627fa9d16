SPECIFICATION FairSpec
CONSTANTS
    Requests <- MCRequests
    Stuck <- MCStuck
    MaxRequests = 2
INVARIANTS
    InferenceHasWeights
    OnlySwallowedSwapBreaksLease
    WhisperEndsUnderLease
PROPERTY
    EveryLeaseEnds
CHECK_DEADLOCK FALSE
