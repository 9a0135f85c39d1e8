SPECIFICATION Spec
CONSTANTS
    Workers = {w1}
    Versions = {1, 2}
    Retain = 0
    InitialStatus <- MCInUse
    MaxRequests = 2
    MaxFaults = 1
PROPERTIES RetiredNeverRebuilt
CHECK_DEADLOCK FALSE
