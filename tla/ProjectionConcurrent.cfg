SPECIFICATION Spec
CONSTANTS
    Workers = {w1, w2}
    Versions = {1, 2}
    Retain = 0
    InitialStatus <- MCEarlier
    MaxRequests = 4
    MaxFaults = 1
INVARIANTS OnlyReviewedServed
PROPERTIES ReconcileConverges
SYMMETRY MCSymmetry
CHECK_DEADLOCK FALSE
