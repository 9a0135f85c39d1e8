SPECIFICATION Spec
CONSTANTS
    Workers = {w1}
    Versions = {1, 2}
    Retain = 0
    InitialStatus <- MCInUse
    MaxRequests = 3
    MaxFaults = 2
PROPERTIES ReconcileAligns
CHECK_DEADLOCK FALSE
