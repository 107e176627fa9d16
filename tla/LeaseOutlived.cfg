SPECIFICATION Spec
CONSTANTS
    Requests <- MCRequests
    Stuck <- MCStuck
    MaxRequests = 2
INVARIANT NoInferenceOutlivesLease
CHECK_DEADLOCK FALSE
