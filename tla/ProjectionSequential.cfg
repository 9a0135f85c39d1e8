SPECIFICATION Spec
CONSTANTS
    Workers = {w1}
    Versions = {1, 2, 3}
    Retain = 0
    InitialStatus <- MCEmpty
    MaxRequests = 8
    MaxFaults = 2
INVARIANTS TypeOK OnlyReviewedServed AtMostOneApproved ProjectedMeansServed
PROPERTIES CurrentNeverLost ImplementsLifecycle
CHECK_DEADLOCK FALSE
