SPECIFICATION FairSpec
CONSTANTS
    Workers = {w1, w2}
    Versions = {1, 2}
    Retain = 1
    InitialStatus <- MCInUse
    MaxRequests = 4
    MaxFaults = 0
PROPERTIES RequestsEnd
CHECK_DEADLOCK FALSE
