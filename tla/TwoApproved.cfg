SPECIFICATION Spec
CONSTANTS
    Workers = {w1, w2}
    Versions = {1, 2}
    Retain = 0
    InitialStatus <- MCReview
    MaxRequests = 2
    MaxFaults = 0
INVARIANTS AtMostOneApproved
CHECK_DEADLOCK FALSE
